-------------------------- MODULE BackOfficeProofs --------------------------
(***************************************************************************)
(* What MCBackOffice promises of messages, reports, files and imports, and *)
(* of customers' accounts and signing in, proved for every value of their  *)
(* constants.                                                              *)
(***************************************************************************)
EXTENDS MCBackOffice, FiniteSetTheorems, SequenceTheorems, TLAPS

-----------------------------------------------------------------------------
(* Notifications: one sender at a time has a message in hand.              *)

SenderType ==
    [kind : {"none", "first", "pass"}, at : {"rest", "call", "record", "fail", "close"},
     moment : Moments \cup {"none"}, rest : SUBSET Moments,
     answer : {"none", "ok", "transient", "permanent"}]

\* A pass's turn: its next row, or its end.
LEMMA PassTurn ==
    ASSUME NotifyTypeOK, NEW s \in Senders, NEW rest \in SUBSET Moments,
           NEW step \in NextOfPass(rest), sender' = [sender EXCEPT ![s] = step]
    PROVE  /\ sender' \in [Senders -> SenderType]
           /\ \A z \in Senders : z # s => sender'[z] = sender[z]
           /\ sender'[s].kind = "pass"
           /\ \/ sender'[s].at = "close" /\ sender'[s].rest = {}
              \/ /\ sender'[s].at = "call" /\ sender'[s].moment \in rest
                 /\ sender'[s].rest = rest \ {sender'[s].moment}
<1>1. sender \in [Senders -> SenderType]
  BY DEF NotifyTypeOK, SenderType
<1>2. step \in SenderType /\ step.kind = "pass"
  BY DEF NextOfPass, SenderWith, SenderType
<1>3. \/ step.at = "close" /\ step.rest = {}
      \/ step.at = "call" /\ step.moment \in rest /\ step.rest = rest \ {step.moment}
  BY DEF NextOfPass, SenderWith
<1>4. sender'[s] = step
  BY <1>1
<1> QED
  BY <1>1, <1>2, <1>3, <1>4

\* What a sender turns to once a row is dealt with.
LEMMA SenderTurn ==
    ASSUME NotifyTypeOK, NEW s \in Senders, SenderGoesOn(s)
    PROVE  /\ sender' \in [Senders -> SenderType]
           /\ \A z \in Senders : z # s => sender'[z] = sender[z]
           /\ \/ /\ sender'[s].kind = "none" /\ sender'[s].at = "rest" /\ sender'[s].rest = {}
              \/ /\ sender[s].kind # "first" /\ sender'[s].kind = "pass"
                 /\ sender'[s].at = "close" /\ sender'[s].rest = {}
              \/ /\ sender[s].kind # "first" /\ sender'[s].kind = "pass"
                 /\ sender'[s].at = "call" /\ sender'[s].moment \in sender[s].rest
                 /\ sender'[s].rest = sender[s].rest \ {sender'[s].moment}
<1>1. sender \in [Senders -> SenderType]
  BY DEF NotifyTypeOK, SenderType
<1>2. CASE sender[s].kind = "first"
  <2>1. sender' = [sender EXCEPT ![s] = Resting]
    BY <1>2 DEF SenderGoesOn
  <2>2. Resting \in SenderType /\ Resting.kind = "none" /\ Resting.at = "rest" /\ Resting.rest = {}
    BY DEF Resting, SenderWith, SenderType
  <2> QED
    BY <1>1, <2>1, <2>2
<1>3. CASE sender[s].kind # "first"
  <2>1. PICK step \in NextOfPass(sender[s].rest) : sender' = [sender EXCEPT ![s] = step]
    BY <1>3 DEF SenderGoesOn
  <2>2. sender[s].rest \in SUBSET Moments
    BY <1>1 DEF SenderType
  <2> QED
    BY <1>3, <2>1, <2>2, PassTurn
<1> QED
  BY <1>2, <1>3

\* A call's answer, and an answer that ends the tries, keep a sender's type.
LEMMA Answered ==
    ASSUME NotifyTypeOK, NEW s \in Senders, NEW at \in {"record", "fail"},
           NEW answer \in {"none", "ok", "transient", "permanent"},
           \/ sender' = [sender EXCEPT ![s].at = at]
           \/ sender' = [sender EXCEPT ![s].at = at, ![s].answer = answer]
    PROVE  /\ sender' \in [Senders -> SenderType]
           /\ \A z \in Senders : z # s => sender'[z] = sender[z]
           /\ sender'[s].kind = sender[s].kind /\ sender'[s].at = at
           /\ sender'[s].moment = sender[s].moment /\ sender'[s].rest = sender[s].rest
<1>1. sender \in [Senders -> SenderType]
  BY DEF NotifyTypeOK, SenderType
<1>2. [sender[s] EXCEPT !.at = at] \in SenderType
  BY <1>1 DEF SenderType
<1>3. [[sender[s] EXCEPT !.at = at] EXCEPT !.answer = answer] \in SenderType
  BY <1>2 DEF SenderType
<1>4. CASE sender' = [sender EXCEPT ![s].at = at]
  <2>1. sender' = [sender EXCEPT ![s] = [sender[s] EXCEPT !.at = at]]
    BY <1>1, <1>4
  <2> QED
    BY <1>1, <1>2, <2>1 DEF SenderType
<1>5. CASE sender' = [sender EXCEPT ![s].at = at, ![s].answer = answer]
  <2>1. sender' = [sender EXCEPT ![s] = [[sender[s] EXCEPT !.at = at] EXCEPT !.answer = answer]]
    BY <1>1, <1>5
  <2> QED
    BY <1>1, <1>3, <2>1 DEF SenderType
<1> QED
  BY <1>4, <1>5

RowType == [status : MessageStatuses, attempts : Nat, age : MessageAges]

\* The answer recorded: one more try, and the row says sent.
LEMMA SentRow ==
    ASSUME NotifyTypeOK, NEW m \in Moments,
           messages' = [messages EXCEPT ![m].status = "SENT", ![m].attempts = @ + 1]
    PROVE  /\ messages' \in [Moments -> RowType]
           /\ \A n \in Moments : n # m => messages'[n] = messages[n]
           /\ messages'[m].status = "SENT" /\ messages'[m].attempts = messages[m].attempts + 1
           /\ messages'[m].age = messages[m].age
<1>1. messages \in [Moments -> RowType]
  BY DEF NotifyTypeOK, RowType
<1>2. messages' = [messages EXCEPT ![m] = [messages[m] EXCEPT !.status = "SENT", !.attempts = messages[m].attempts + 1]]
  BY <1>1
<1> QED
  BY <1>1, <1>2 DEF RowType, MessageStatuses
\* What a pass has left to send is at no sender yet.
LEMMA ListedUnhandled ==
    ASSUME NotifyTypeOK, SendersAtWork, OneRetryPass, ListIsRetriable
    PROVE  \A z \in Senders : \A n \in sender[z].rest :
              /\ n \in Moments /\ Retriable(n) /\ sender[z].kind = "pass"
              /\ \A w \in Senders : ~ Handles(w, n)
<1> TAKE z \in Senders
<1> TAKE n \in sender[z].rest
<1>1. sender \in [Senders -> SenderType]
  BY DEF NotifyTypeOK, SenderType
<1>2. n \in Moments /\ Retriable(n) /\ sender[z].kind = "pass"
  BY <1>1 DEF ListIsRetriable, SendersAtWork, SenderType
<1>3. ASSUME NEW w \in Senders, Handles(w, n) PROVE FALSE
  <2>1. sender[w].kind = "pass"
    BY <1>1, <1>2, <1>3 DEF SendersAtWork, Handles, Retriable, SenderType
  <2>2. w = z
    BY <1>2, <2>1 DEF OneRetryPass
  <2> QED
    BY <1>2, <1>3, <2>2 DEF SendersAtWork
<1> QED
  BY <1>2, <1>3

\* A moment is told of, once: its row is written, or its recipient may not be written to.
LEMMA NotifiedStep ==
    ASSUME NotifyInv, ~NotifyOverlap, NEW s \in Senders, NEW m \in Moments, Notify(s, m)
    PROVE  NotifyInv'
<1>c. MaxAttempts \in Nat \ {0}
  BY NotificationsAssumption
<1>y. /\ messages \in [Moments -> RowType] /\ accepted \in [Moments -> Nat]
      /\ sender \in [Senders -> SenderType] /\ notifyFaults \in Nat
  BY DEF NotifyInv, NotifyTypeOK, RowType, SenderType
<1>i. /\ RowsBegin /\ SendersAtWork /\ OneRetryPass /\ ListIsRetriable
      /\ HandledOnce /\ TakenOnce /\ NeverSentLater /\ TriesBounded
  BY DEF NotifyInv
<1>l. \A z \in Senders : \A n \in sender[z].rest :
         /\ n \in Moments /\ Retriable(n) /\ sender[z].kind = "pass"
         /\ \A w \in Senders : ~ Handles(w, n)
  BY ListedUnhandled DEF NotifyInv
<1>e1. sender[s].kind = "none" /\ sender[s].at = "rest" /\ sender[s].rest = {}
  BY DEF Notify, Resting, SenderWith
<1>e2. messages[m].status = "none" /\ messages[m].age = "fresh" /\ messages[m].attempts = 0 /\ accepted[m] = 0
  BY <1>i DEF Notify, RowsBegin
<1>e3. accepted' = accepted /\ notifyFaults' = notifyFaults
  BY DEF Notify
<1>e4. /\ messages' \in [Moments -> RowType]
       /\ \A n \in Moments : n # m => messages'[n] = messages[n]
       /\ messages'[m].status = (IF m \in Refused THEN "SKIPPED" ELSE "QUEUED")
       /\ messages'[m].attempts = messages[m].attempts /\ messages'[m].age = messages[m].age
  BY <1>y DEF Notify, RowType, MessageStatuses
<1>e5. m \notin Refused => sender' = [sender EXCEPT ![s] = SenderWith("first", "call", m, {}, "none")]
  BY DEF Notify
<1>e6. /\ sender' \in [Senders -> SenderType]
       /\ \A z \in Senders : z # s => sender'[z] = sender[z]
       /\ \/ m \in Refused /\ sender' = sender
          \/ /\ m \notin Refused /\ sender'[s].kind = "first" /\ sender'[s].at = "call"
             /\ sender'[s].moment = m /\ sender'[s].rest = {}
  <2>1. SenderWith("first", "call", m, {}, "none") \in SenderType
    BY DEF SenderWith, SenderType
  <2> QED
    BY <1>y, <1>e5, <2>1 DEF Notify, SenderWith
<1>1. NotifyTypeOK'
  BY <1>y, <1>e3, <1>e4, <1>e6 DEF NotifyTypeOK, RowType, SenderType
<1>2. RowsBegin'
  BY <1>i, <1>e3, <1>e4 DEF RowsBegin, SendersAtWork, Handles, MessageStatuses
<1>3. SendersAtWork'
  BY <1>c, <1>y, <1>i, <1>l, <1>e1, <1>e2, <1>e3, <1>e4, <1>e5, <1>e6 DEF SendersAtWork, RowsBegin, HandledOnce, Handles, Retriable
<1>4. OneRetryPass'
  BY <1>i, <1>e5, <1>e6 DEF OneRetryPass, SendersAtWork, SenderType
<1>5. ListIsRetriable'
  BY <1>l, <1>e4, <1>e6 DEF ListIsRetriable, Retriable, RowsBegin
<1>6. HandledOnce'
  BY <1>i, <1>e2, <1>e6 DEF HandledOnce, SendersAtWork, RowsBegin, Handles
<1>7. TakenOnce'
  BY <1>i, <1>e1, <1>e2, <1>e3, <1>e4, <1>e6 DEF TakenOnce, KnownTaken, HandledOnce, SendersAtWork, Handles, RowsBegin
<1>8. NeverSentLater'
  BY <1>i, <1>e3, <1>e6 DEF NeverSentLater, SendersAtWork, RowsBegin, Handles
<1>9. TriesBounded'
  BY <1>i, <1>e2, <1>e4 DEF TriesBounded, RowType
<1> QED
  BY <1>1, <1>2, <1>3, <1>4, <1>5, <1>6, <1>7, <1>8, <1>9 DEF NotifyInv

\* A pass of the job begins with the rows that are due.
LEMMA PassStartedStep ==
    ASSUME NotifyInv, ~NotifyOverlap, NEW s \in Senders, StartRetryPass(s)
    PROVE  NotifyInv'
<1>c. MaxAttempts \in Nat \ {0}
  BY NotificationsAssumption
<1>y. /\ messages \in [Moments -> RowType] /\ accepted \in [Moments -> Nat]
      /\ sender \in [Senders -> SenderType] /\ notifyFaults \in Nat
  BY DEF NotifyInv, NotifyTypeOK, RowType, SenderType
<1>i. /\ RowsBegin /\ SendersAtWork /\ OneRetryPass /\ ListIsRetriable
      /\ HandledOnce /\ TakenOnce /\ NeverSentLater /\ TriesBounded
  BY DEF NotifyInv
<1>l. \A z \in Senders : \A n \in sender[z].rest :
         /\ n \in Moments /\ Retriable(n) /\ sender[z].kind = "pass"
         /\ \A w \in Senders : ~ Handles(w, n)
  BY ListedUnhandled DEF NotifyInv
<1>e1. sender[s].kind = "none" /\ sender[s].at = "rest" /\ sender[s].rest = {}
  BY DEF StartRetryPass, Resting, SenderWith
<1>e2. \A z \in Senders : sender[z].kind # "pass"
  BY DEF StartRetryPass, RetryPasses
<1>e3. messages' = messages /\ accepted' = accepted /\ notifyFaults' = notifyFaults
  BY DEF StartRetryPass
<1>e4. \A n \in DueMessages : /\ n \in Moments /\ Retriable(n)
                                /\ \A w \in Senders : ~ Handles(w, n)
  BY <1>y, <1>i, <1>e2 DEF DueMessages, Retriable, RowsBegin, SendersAtWork, Handles, SenderType
<1>e5. /\ sender' \in [Senders -> SenderType]
       /\ \A z \in Senders : z # s => sender'[z] = sender[z]
       /\ sender'[s].kind = "pass"
       /\ \/ sender'[s].at = "close" /\ sender'[s].rest = {}
          \/ /\ sender'[s].at = "call" /\ sender'[s].moment \in DueMessages
             /\ sender'[s].rest = DueMessages \ {sender'[s].moment}
  <2>1. DueMessages \in SUBSET Moments
    BY DEF DueMessages
  <2>2. PICK step \in NextOfPass(DueMessages) : sender' = [sender EXCEPT ![s] = step]
    BY DEF StartRetryPass
  <2> QED
    BY <2>1, <2>2, PassTurn DEF NotifyInv
<1>1. NotifyTypeOK'
  BY <1>y, <1>e3, <1>e5 DEF NotifyTypeOK, RowType, SenderType
<1>2. RowsBegin'
  BY <1>i, <1>e3, <1>e5 DEF RowsBegin, SendersAtWork, Handles, MessageStatuses
<1>3. SendersAtWork'
  BY <1>c, <1>y, <1>i, <1>l, <1>e1, <1>e2, <1>e3, <1>e4, <1>e5 DEF SendersAtWork, RowsBegin, HandledOnce, Handles, Retriable
<1>4. OneRetryPass'
  BY <1>e2, <1>e3, <1>e5 DEF OneRetryPass, SendersAtWork, SenderType
<1>5. ListIsRetriable'
  BY <1>c, <1>y, <1>i, <1>l, <1>e1, <1>e2, <1>e3, <1>e4, <1>e5 DEF ListIsRetriable, Retriable, RowsBegin
<1>6. HandledOnce'
  <2> SUFFICES ASSUME NEW m \in Moments, NEW z \in Senders, NEW w \in Senders,
                      Handles(z, m)', Handles(w, m)', z # w
               PROVE  FALSE
    BY DEF HandledOnce
  <2>1. \A v \in Senders : v # s /\ Handles(v, m)' => Handles(v, m)
    BY <1>e1, <1>e2, <1>e5 DEF Handles
  <2>2. CASE z # s /\ w # s
    BY <1>i, <2>1, <2>2 DEF HandledOnce
  <2>3. CASE z = s \/ w = s
    <3>1. m = sender'[s].moment /\ sender'[s].at = "call"
      BY <1>e2, <1>e5, <2>3 DEF Handles
    <3>2. m \in DueMessages
      BY <1>e1, <1>e2, <1>e3, <1>e4, <1>e5, <3>1
    <3>3. ~ Handles(z, m) /\ ~ Handles(w, m)
      BY <1>e4, <3>2
    <3> QED
      BY <2>1, <2>3, <3>3 DEF Handles
  <2> QED
    BY <2>2, <2>3
<1>7. TakenOnce'
  BY <1>i, <1>e1, <1>e3, <1>e5 DEF TakenOnce, KnownTaken, HandledOnce, SendersAtWork, Handles, RowsBegin
<1>8. NeverSentLater'
  BY <1>y, <1>i, <1>l, <1>e1, <1>e2, <1>e3, <1>e5 DEF NeverSentLater, SendersAtWork, RowsBegin, Handles
<1>9. TriesBounded'
  BY <1>i, <1>e1, <1>e3 DEF TriesBounded, RowType
<1> QED
  BY <1>1, <1>2, <1>3, <1>4, <1>5, <1>6, <1>7, <1>8, <1>9 DEF NotifyInv

\* The call to AiSensy, answered or not.
LEMMA CalledStep ==
    ASSUME NotifyInv, ~NotifyOverlap, NEW s \in Senders, CallAisensy(s)
    PROVE  NotifyInv'
<1>c. MaxAttempts \in Nat \ {0}
  BY NotificationsAssumption
<1>y. /\ messages \in [Moments -> RowType] /\ accepted \in [Moments -> Nat]
      /\ sender \in [Senders -> SenderType] /\ notifyFaults \in Nat
  BY DEF NotifyInv, NotifyTypeOK, RowType, SenderType
<1>i. /\ RowsBegin /\ SendersAtWork /\ OneRetryPass /\ ListIsRetriable
      /\ HandledOnce /\ TakenOnce /\ NeverSentLater /\ TriesBounded
  BY DEF NotifyInv
<1>l. \A z \in Senders : \A n \in sender[z].rest :
         /\ n \in Moments /\ Retriable(n) /\ sender[z].kind = "pass"
         /\ \A w \in Senders : ~ Handles(w, n)
  BY ListedUnhandled DEF NotifyInv
<1>e1. sender[s].at = "call" /\ sender[s].moment \in Moments /\ sender[s].kind # "none" /\ Handles(s, sender[s].moment)
  BY <1>i DEF CallAisensy, SendersAtWork, Handles
<1>e2. messages' = messages
  BY DEF CallAisensy
<1>e3. /\ sender' \in [Senders -> SenderType] /\ \A z \in Senders : z # s => sender'[z] = sender[z]
       /\ sender'[s].kind = sender[s].kind /\ sender'[s].at = "record"
       /\ sender'[s].moment = sender[s].moment /\ sender'[s].rest = sender[s].rest
  <2>1. PICK answer \in {"ok", "transient", "permanent"} :
            sender' = [sender EXCEPT ![s].at = "record", ![s].answer = answer]
    BY DEF CallAisensy
  <2> QED
    BY <2>1, Answered DEF NotifyInv
<1>e4. /\ accepted' \in [Moments -> Nat] /\ notifyFaults' \in Nat
       /\ \A n \in Moments : n # sender[s].moment => accepted'[n] = accepted[n]
       /\ accepted'[sender[s].moment] \in accepted[sender[s].moment]..(accepted[sender[s].moment] + 1)
       /\ \/ /\ sender'[s].answer = "ok" /\ notifyFaults' = notifyFaults
             /\ accepted'[sender[s].moment] = accepted[sender[s].moment] + 1
          \/ sender'[s].answer # "ok" /\ notifyFaults' = notifyFaults + 1
  BY <1>y, <1>e1 DEF CallAisensy, NotifyFault, SenderType
<1>1. NotifyTypeOK'
  BY <1>y, <1>e2, <1>e3, <1>e4 DEF NotifyTypeOK, RowType, SenderType
<1>2. RowsBegin'
  BY <1>i, <1>e1, <1>e2, <1>e4 DEF RowsBegin, SendersAtWork, Handles, MessageStatuses
<1>3. SendersAtWork'
  BY <1>i, <1>e1, <1>e2, <1>e3, <1>e4 DEF SendersAtWork, RowsBegin, HandledOnce, Handles, Retriable
<1>4. OneRetryPass'
  BY <1>i, <1>e3, <1>e4 DEF OneRetryPass, SendersAtWork, SenderType
<1>5. ListIsRetriable'
  BY <1>l, <1>e2, <1>e3 DEF ListIsRetriable, Retriable, RowsBegin
<1>6. HandledOnce'
  BY <1>i, <1>e1, <1>e3 DEF HandledOnce, SendersAtWork, RowsBegin, Handles
<1>7. TakenOnce'
  BY <1>y, <1>i, <1>e1, <1>e2, <1>e3, <1>e4 DEF TakenOnce, KnownTaken, HandledOnce, SendersAtWork, Handles, RowsBegin
<1>8. NeverSentLater'
  BY <1>i, <1>e1, <1>e4 DEF NeverSentLater, SendersAtWork, RowsBegin, Handles
<1>9. TriesBounded'
  BY <1>i, <1>e1, <1>e2 DEF TriesBounded, RowType
<1> QED
  BY <1>1, <1>2, <1>3, <1>4, <1>5, <1>6, <1>7, <1>8, <1>9 DEF NotifyInv

\* The answer recorded: the row says sent.
LEMMA SentStep ==
    ASSUME NotifyInv, ~NotifyOverlap, NEW s \in Senders, RecordSent(s)
    PROVE  NotifyInv'
<1>c. MaxAttempts \in Nat \ {0}
  BY NotificationsAssumption
<1>y. /\ messages \in [Moments -> RowType] /\ accepted \in [Moments -> Nat]
      /\ sender \in [Senders -> SenderType] /\ notifyFaults \in Nat
  BY DEF NotifyInv, NotifyTypeOK, RowType, SenderType
<1>i. /\ RowsBegin /\ SendersAtWork /\ OneRetryPass /\ ListIsRetriable
      /\ HandledOnce /\ TakenOnce /\ NeverSentLater /\ TriesBounded
  BY DEF NotifyInv
<1>l. \A z \in Senders : \A n \in sender[z].rest :
         /\ n \in Moments /\ Retriable(n) /\ sender[z].kind = "pass"
         /\ \A w \in Senders : ~ Handles(w, n)
  BY ListedUnhandled DEF NotifyInv
<1>e1. sender[s].moment \in Moments /\ sender[s].kind # "none" /\ Handles(s, sender[s].moment)
  BY <1>i DEF RecordSent, SendersAtWork, Handles
<1>e2. sender[s].at = "record" /\ sender[s].answer = "ok"
  BY DEF RecordSent
<1>e3. /\ messages' \in [Moments -> RowType]
       /\ \A n \in Moments : n # sender[s].moment => messages'[n] = messages[n]
       /\ messages'[sender[s].moment].status = "SENT" /\ messages'[sender[s].moment].age = messages[sender[s].moment].age
       /\ messages'[sender[s].moment].attempts = messages[sender[s].moment].attempts + 1
  BY <1>e1, SentRow DEF RecordSent, NotifyInv
<1>e4. accepted' = accepted /\ notifyFaults' = notifyFaults
  BY DEF RecordSent
<1>e5. /\ sender' \in [Senders -> SenderType]
       /\ \A z \in Senders : z # s => sender'[z] = sender[z]
       /\ \/ /\ sender'[s].kind = "none" /\ sender'[s].at = "rest" /\ sender'[s].rest = {}
          \/ /\ sender[s].kind # "first" /\ sender'[s].kind = "pass"
             /\ sender'[s].at = "close" /\ sender'[s].rest = {}
          \/ /\ sender[s].kind # "first" /\ sender'[s].kind = "pass"
             /\ sender'[s].at = "call" /\ sender'[s].moment \in sender[s].rest
             /\ sender'[s].rest = sender[s].rest \ {sender'[s].moment}
  BY SenderTurn DEF RecordSent, NotifyInv
<1>e6. \A z \in Senders : sender[s].moment \notin sender[z].rest
  BY <1>l, <1>e1
<1>e7. sender[s].at # "fail" => messages[sender[s].moment].attempts < MaxAttempts
  BY <1>i, <1>e1 DEF SendersAtWork
<1>1. NotifyTypeOK'
  BY <1>y, <1>e3, <1>e4, <1>e5 DEF NotifyTypeOK, RowType, SenderType
<1>2. RowsBegin'
  BY <1>i, <1>e2, <1>e3, <1>e4 DEF RowsBegin, SendersAtWork, Handles, MessageStatuses
<1>3. SendersAtWork'
  <2>1. CASE sender'[s].kind = "none"
    BY <1>i, <1>e2, <1>e3, <1>e4, <1>e5, <2>1 DEF SendersAtWork, RowsBegin, HandledOnce, Handles, Retriable
  <2>2. CASE sender'[s].kind = "pass" /\ sender'[s].at = "close"
    BY <1>i, <1>e2, <1>e3, <1>e4, <1>e5, <2>2 DEF SendersAtWork, RowsBegin, HandledOnce, Handles, Retriable
  <2>3. CASE sender'[s].kind = "pass" /\ sender'[s].at = "call"
    BY <1>i, <1>l, <1>e2, <1>e3, <1>e4, <1>e5 DEF SendersAtWork, RowsBegin, HandledOnce, Handles, Retriable
  <2> QED
    BY <1>c, <1>y, <1>i, <1>l, <1>e1, <1>e2, <1>e3, <1>e4, <1>e5, <1>e6, <1>e7, <2>1, <2>2, <2>3
<1>4. OneRetryPass'
  <2>1. CASE sender'[s].kind = "none"
    BY <1>i, <1>e5, <2>1 DEF OneRetryPass, SendersAtWork, SenderType
  <2>2. CASE sender'[s].kind = "pass" /\ sender'[s].at = "close"
    BY <1>y, <1>i, <1>e2, <1>e5 DEF OneRetryPass, SendersAtWork, SenderType
  <2>3. CASE sender'[s].kind = "pass" /\ sender'[s].at = "call"
    BY <1>i, <1>e5, <2>3 DEF OneRetryPass, SendersAtWork, SenderType
  <2> QED
    BY <1>c, <1>y, <1>i, <1>l, <1>e1, <1>e2, <1>e3, <1>e4, <1>e5, <1>e6, <1>e7, <2>1, <2>2, <2>3
<1>5. ListIsRetriable'
  <2>1. CASE sender'[s].kind = "none"
    BY <1>l, <1>e3, <1>e5, <1>e6 DEF ListIsRetriable, Retriable, RowsBegin
  <2>2. CASE sender'[s].kind = "pass" /\ sender'[s].at = "close"
    BY <1>l, <1>e3, <1>e5, <1>e6 DEF ListIsRetriable, Retriable, RowsBegin
  <2>3. CASE sender'[s].kind = "pass" /\ sender'[s].at = "call"
    BY <1>l, <1>e3, <1>e5, <1>e6 DEF ListIsRetriable, Retriable, RowsBegin
  <2> QED
    BY <1>c, <1>y, <1>i, <1>l, <1>e1, <1>e2, <1>e3, <1>e4, <1>e5, <1>e6, <1>e7, <2>1, <2>2, <2>3
<1>6. HandledOnce'
  <2> SUFFICES ASSUME NEW m \in Moments, NEW z \in Senders, NEW w \in Senders,
                      Handles(z, m)', Handles(w, m)', z # w
               PROVE  FALSE
    BY DEF HandledOnce
  <2>1. \A v \in Senders : v # s /\ Handles(v, m)' => Handles(v, m)
    BY <1>e5, <1>e6, <1>e7 DEF Handles
  <2>2. CASE z # s /\ w # s
    BY <1>i, <2>1, <2>2 DEF HandledOnce
  <2>3. CASE z = s \/ w = s
    <3>1. m = sender'[s].moment /\ sender'[s].at = "call"
      BY <1>e5, <1>e7, <2>3 DEF Handles
    <3>2. m \in sender[s].rest
      BY <1>e5, <1>e7, <3>1
    <3>3. ~ Handles(z, m) /\ ~ Handles(w, m)
      BY <1>l, <3>2
    <3> QED
      BY <2>1, <2>3, <3>3 DEF Handles
  <2> QED
    BY <2>2, <2>3
<1>7. TakenOnce'
  BY <1>i, <1>e2, <1>e3, <1>e4, <1>e5 DEF TakenOnce, KnownTaken, HandledOnce, SendersAtWork, Handles, RowsBegin
<1>8. NeverSentLater'
  BY <1>i, <1>e4, <1>e7 DEF NeverSentLater, SendersAtWork, RowsBegin, Handles
<1>9. TriesBounded'
  BY <1>c, <1>y, <1>i, <1>l, <1>e1, <1>e2, <1>e3, <1>e4, <1>e5, <1>e6, <1>e7 DEF TriesBounded, RowType
<1> QED
  BY <1>1, <1>2, <1>3, <1>4, <1>5, <1>6, <1>7, <1>8, <1>9 DEF NotifyInv

\* A final failure is an update of its own.
LEMMA MarkedFailedStep ==
    ASSUME NotifyInv, ~NotifyOverlap, NEW s \in Senders, MarkMessageFailed(s)
    PROVE  NotifyInv'
<1>c. MaxAttempts \in Nat \ {0}
  BY NotificationsAssumption
<1>y. /\ messages \in [Moments -> RowType] /\ accepted \in [Moments -> Nat]
      /\ sender \in [Senders -> SenderType] /\ notifyFaults \in Nat
  BY DEF NotifyInv, NotifyTypeOK, RowType, SenderType
<1>i. /\ RowsBegin /\ SendersAtWork /\ OneRetryPass /\ ListIsRetriable
      /\ HandledOnce /\ TakenOnce /\ NeverSentLater /\ TriesBounded
  BY DEF NotifyInv
<1>l. \A z \in Senders : \A n \in sender[z].rest :
         /\ n \in Moments /\ Retriable(n) /\ sender[z].kind = "pass"
         /\ \A w \in Senders : ~ Handles(w, n)
  BY ListedUnhandled DEF NotifyInv
<1>e1. sender[s].moment \in Moments /\ sender[s].kind # "none" /\ Handles(s, sender[s].moment)
  BY <1>i DEF MarkMessageFailed, SendersAtWork, Handles
<1>e2. sender[s].at = "fail"
  BY DEF MarkMessageFailed
<1>e3. /\ messages' \in [Moments -> RowType]
       /\ \A n \in Moments : n # sender[s].moment => messages'[n] = messages[n]
       /\ messages'[sender[s].moment].status = "FAILED" /\ messages'[sender[s].moment].age = messages[sender[s].moment].age
       /\ messages'[sender[s].moment].attempts = messages[sender[s].moment].attempts
  BY <1>y, <1>e1 DEF MarkMessageFailed, RowType, MessageStatuses
<1>e4. accepted' = accepted /\ notifyFaults' = notifyFaults
  BY DEF MarkMessageFailed
<1>e5. /\ sender' \in [Senders -> SenderType]
       /\ \A z \in Senders : z # s => sender'[z] = sender[z]
       /\ \/ /\ sender'[s].kind = "none" /\ sender'[s].at = "rest" /\ sender'[s].rest = {}
          \/ /\ sender[s].kind # "first" /\ sender'[s].kind = "pass"
             /\ sender'[s].at = "close" /\ sender'[s].rest = {}
          \/ /\ sender[s].kind # "first" /\ sender'[s].kind = "pass"
             /\ sender'[s].at = "call" /\ sender'[s].moment \in sender[s].rest
             /\ sender'[s].rest = sender[s].rest \ {sender'[s].moment}
  BY SenderTurn DEF MarkMessageFailed, NotifyInv
<1>e6. \A z \in Senders : sender[s].moment \notin sender[z].rest
  BY <1>l, <1>e1
<1>e7. sender[s].at # "fail" => messages[sender[s].moment].attempts < MaxAttempts
  BY <1>i, <1>e1 DEF SendersAtWork
<1>1. NotifyTypeOK'
  BY <1>y, <1>e3, <1>e4, <1>e5 DEF NotifyTypeOK, RowType, SenderType
<1>2. RowsBegin'
  BY <1>i, <1>e2, <1>e3, <1>e4 DEF RowsBegin, SendersAtWork, Handles, MessageStatuses
<1>3. SendersAtWork'
  <2>1. CASE sender'[s].kind = "none"
    BY <1>i, <1>e2, <1>e3, <1>e4, <1>e5, <2>1 DEF SendersAtWork, RowsBegin, HandledOnce, Handles, Retriable
  <2>2. CASE sender'[s].kind = "pass" /\ sender'[s].at = "close"
    BY <1>i, <1>e2, <1>e3, <1>e4, <1>e5, <2>2 DEF SendersAtWork, RowsBegin, HandledOnce, Handles, Retriable
  <2>3. CASE sender'[s].kind = "pass" /\ sender'[s].at = "call"
    BY <1>i, <1>l, <1>e2, <1>e3, <1>e4, <1>e5 DEF SendersAtWork, RowsBegin, HandledOnce, Handles, Retriable
  <2> QED
    BY <1>c, <1>y, <1>i, <1>l, <1>e1, <1>e2, <1>e3, <1>e4, <1>e5, <1>e6, <1>e7, <2>1, <2>2, <2>3
<1>4. OneRetryPass'
  <2>1. CASE sender'[s].kind = "none"
    BY <1>i, <1>e5, <2>1 DEF OneRetryPass, SendersAtWork, SenderType
  <2>2. CASE sender'[s].kind = "pass" /\ sender'[s].at = "close"
    BY <1>y, <1>i, <1>e2, <1>e5 DEF OneRetryPass, SendersAtWork, SenderType
  <2>3. CASE sender'[s].kind = "pass" /\ sender'[s].at = "call"
    BY <1>i, <1>e5, <2>3 DEF OneRetryPass, SendersAtWork, SenderType
  <2> QED
    BY <1>c, <1>y, <1>i, <1>l, <1>e1, <1>e2, <1>e3, <1>e4, <1>e5, <1>e6, <1>e7, <2>1, <2>2, <2>3
<1>5. ListIsRetriable'
  <2>1. CASE sender'[s].kind = "none"
    BY <1>l, <1>e3, <1>e5, <1>e6 DEF ListIsRetriable, Retriable, RowsBegin
  <2>2. CASE sender'[s].kind = "pass" /\ sender'[s].at = "close"
    BY <1>l, <1>e3, <1>e5, <1>e6 DEF ListIsRetriable, Retriable, RowsBegin
  <2>3. CASE sender'[s].kind = "pass" /\ sender'[s].at = "call"
    BY <1>l, <1>e3, <1>e5, <1>e6 DEF ListIsRetriable, Retriable, RowsBegin
  <2> QED
    BY <1>c, <1>y, <1>i, <1>l, <1>e1, <1>e2, <1>e3, <1>e4, <1>e5, <1>e6, <1>e7, <2>1, <2>2, <2>3
<1>6. HandledOnce'
  <2> SUFFICES ASSUME NEW m \in Moments, NEW z \in Senders, NEW w \in Senders,
                      Handles(z, m)', Handles(w, m)', z # w
               PROVE  FALSE
    BY DEF HandledOnce
  <2>1. \A v \in Senders : v # s /\ Handles(v, m)' => Handles(v, m)
    BY <1>e5, <1>e6, <1>e7 DEF Handles
  <2>2. CASE z # s /\ w # s
    BY <1>i, <2>1, <2>2 DEF HandledOnce
  <2>3. CASE z = s \/ w = s
    <3>1. m = sender'[s].moment /\ sender'[s].at = "call"
      BY <1>e5, <1>e7, <2>3 DEF Handles
    <3>2. m \in sender[s].rest
      BY <1>e5, <1>e7, <3>1
    <3>3. ~ Handles(z, m) /\ ~ Handles(w, m)
      BY <1>l, <3>2
    <3> QED
      BY <2>1, <2>3, <3>3 DEF Handles
  <2> QED
    BY <2>2, <2>3
<1>7. TakenOnce'
  BY <1>i, <1>e2, <1>e3, <1>e4, <1>e5 DEF TakenOnce, KnownTaken, HandledOnce, SendersAtWork, Handles, RowsBegin
<1>8. NeverSentLater'
  BY <1>i, <1>e4, <1>e7 DEF NeverSentLater, SendersAtWork, RowsBegin, Handles
<1>9. TriesBounded'
  BY <1>i, <1>e3, <1>e7 DEF TriesBounded, RowType
<1> QED
  BY <1>1, <1>2, <1>3, <1>4, <1>5, <1>6, <1>7, <1>8, <1>9 DEF NotifyInv

\* A failure recorded: another try, or none.
LEMMA FailureStep ==
    ASSUME NotifyInv, ~NotifyOverlap, NEW s \in Senders, RecordFailure(s)
    PROVE  NotifyInv'
<1>c. MaxAttempts \in Nat \ {0}
  BY NotificationsAssumption
<1>y. /\ messages \in [Moments -> RowType] /\ accepted \in [Moments -> Nat]
      /\ sender \in [Senders -> SenderType] /\ notifyFaults \in Nat
  BY DEF NotifyInv, NotifyTypeOK, RowType, SenderType
<1>i. /\ RowsBegin /\ SendersAtWork /\ OneRetryPass /\ ListIsRetriable
      /\ HandledOnce /\ TakenOnce /\ NeverSentLater /\ TriesBounded
  BY DEF NotifyInv
<1>l. \A z \in Senders : \A n \in sender[z].rest :
         /\ n \in Moments /\ Retriable(n) /\ sender[z].kind = "pass"
         /\ \A w \in Senders : ~ Handles(w, n)
  BY ListedUnhandled DEF NotifyInv
<1>e1. sender[s].at = "record" /\ sender[s].answer # "ok" /\ sender[s].moment \in Moments /\ sender[s].kind # "none" /\ Handles(s, sender[s].moment)
  BY <1>i DEF RecordFailure, SendersAtWork, Handles
<1>e2. accepted' = accepted /\ notifyFaults' = notifyFaults
  BY DEF RecordFailure
<1>e3. /\ messages' \in [Moments -> RowType]
       /\ \A n \in Moments : n # sender[s].moment => messages'[n] = messages[n]
       /\ messages'[sender[s].moment].status = messages[sender[s].moment].status /\ messages'[sender[s].moment].age = messages[sender[s].moment].age
       /\ messages'[sender[s].moment].attempts = messages[sender[s].moment].attempts + 1
  BY <1>y, <1>e1 DEF RecordFailure, RowType
<1>e4. \/ WorthAnother(s) /\ SenderGoesOn(s)
       \/ /\ sender' \in [Senders -> SenderType] /\ \A z \in Senders : z # s => sender'[z] = sender[z]
          /\ sender'[s].kind = sender[s].kind /\ sender'[s].at = "fail"
          /\ sender'[s].moment = sender[s].moment /\ sender'[s].rest = sender[s].rest
  BY Answered DEF RecordFailure, NotifyInv
<1>e5. SenderGoesOn(s) =>
       /\ sender' \in [Senders -> SenderType]
       /\ \A z \in Senders : z # s => sender'[z] = sender[z]
       /\ \/ /\ sender'[s].kind = "none" /\ sender'[s].at = "rest" /\ sender'[s].rest = {}
          \/ /\ sender[s].kind # "first" /\ sender'[s].kind = "pass"
             /\ sender'[s].at = "close" /\ sender'[s].rest = {}
          \/ /\ sender[s].kind # "first" /\ sender'[s].kind = "pass"
             /\ sender'[s].at = "call" /\ sender'[s].moment \in sender[s].rest
             /\ sender'[s].rest = sender[s].rest \ {sender'[s].moment}
  BY SenderTurn DEF NotifyInv
<1>e6. \A z \in Senders : sender[s].moment \notin sender[z].rest
  BY <1>l, <1>e1
<1>e7. messages[sender[s].moment].attempts < MaxAttempts
  BY <1>i, <1>e1 DEF SendersAtWork
<1>1. NotifyTypeOK'
  BY <1>y, <1>e2, <1>e3, <1>e4, <1>e5 DEF NotifyTypeOK, RowType, SenderType
<1>2. RowsBegin'
  BY <1>i, <1>e1, <1>e2, <1>e3 DEF RowsBegin, SendersAtWork, Handles, MessageStatuses
<1>3. SendersAtWork'
  <2>1. CASE sender'[s].kind = "none"
    BY <1>i, <1>e1, <1>e2, <1>e3, <1>e4, <1>e5, <2>1 DEF SendersAtWork, RowsBegin, HandledOnce, Handles, Retriable
  <2>2. CASE sender'[s].kind = "pass" /\ sender'[s].at = "close"
    BY <1>i, <1>e1, <1>e2, <1>e3, <1>e4, <1>e5, <2>2 DEF SendersAtWork, RowsBegin, HandledOnce, Handles, Retriable
  <2>3. CASE sender'[s].kind = "pass" /\ sender'[s].at = "call"
    BY <1>i, <1>l, <1>e1, <1>e2, <1>e3, <1>e4, <1>e5 DEF SendersAtWork, RowsBegin, HandledOnce, Handles, Retriable
  <2>4. CASE sender'[s].at = "fail"
    BY <1>i, <1>e1, <1>e2, <1>e3, <1>e4, <1>e5, <2>4 DEF SendersAtWork, RowsBegin, HandledOnce, Handles, Retriable
  <2> QED
    BY <1>c, <1>y, <1>i, <1>l, <1>e1, <1>e2, <1>e3, <1>e4, <1>e5, <1>e6, <1>e7, <2>1, <2>2, <2>3, <2>4
<1>4. OneRetryPass'
  <2>1. CASE sender'[s].kind = "none"
    BY <1>i, <1>e4, <1>e5, <2>1 DEF OneRetryPass, SendersAtWork, SenderType
  <2>2. CASE sender'[s].kind = "pass" /\ sender'[s].at = "close"
    BY <1>y, <1>i, <1>e1, <1>e4, <1>e5 DEF OneRetryPass, SendersAtWork, SenderType
  <2>3. CASE sender'[s].kind = "pass" /\ sender'[s].at = "call"
    BY <1>i, <1>e4, <1>e5, <2>3 DEF OneRetryPass, SendersAtWork, SenderType
  <2>4. CASE sender'[s].at = "fail"
    BY <1>i, <1>e4, <1>e5, <2>4 DEF OneRetryPass, SendersAtWork, SenderType
  <2> QED
    BY <1>c, <1>y, <1>i, <1>l, <1>e1, <1>e2, <1>e3, <1>e4, <1>e5, <1>e6, <1>e7, <2>1, <2>2, <2>3, <2>4
<1>5. ListIsRetriable'
  <2>1. CASE sender'[s].kind = "none"
    BY <1>l, <1>e3, <1>e4, <1>e5, <1>e6 DEF ListIsRetriable, Retriable, RowsBegin
  <2>2. CASE sender'[s].kind = "pass" /\ sender'[s].at = "close"
    BY <1>l, <1>e3, <1>e4, <1>e5, <1>e6 DEF ListIsRetriable, Retriable, RowsBegin
  <2>3. CASE sender'[s].kind = "pass" /\ sender'[s].at = "call"
    BY <1>l, <1>e3, <1>e4, <1>e5, <1>e6 DEF ListIsRetriable, Retriable, RowsBegin
  <2>4. CASE sender'[s].at = "fail"
    BY <1>l, <1>e3, <1>e4, <1>e5, <1>e6 DEF ListIsRetriable, Retriable, RowsBegin
  <2> QED
    BY <1>c, <1>y, <1>i, <1>l, <1>e1, <1>e2, <1>e3, <1>e4, <1>e5, <1>e6, <1>e7, <2>1, <2>2, <2>3, <2>4
<1>6. HandledOnce'
  <2>1. CASE sender'[s].kind = "none"
    BY <1>i, <1>e1, <1>e4, <1>e5, <2>1 DEF HandledOnce, SendersAtWork, RowsBegin, Handles
  <2>2. CASE sender'[s].kind = "pass" /\ sender'[s].at = "close"
    BY <1>i, <1>e4, <1>e5, <2>2 DEF HandledOnce, SendersAtWork, RowsBegin, Handles
  <2>3. CASE sender'[s].kind = "pass" /\ sender'[s].at = "call"
    BY <1>i, <1>l, <1>e4, <1>e5, <2>3 DEF HandledOnce, SendersAtWork, RowsBegin, Handles
  <2>4. CASE sender'[s].at = "fail"
    BY <1>i, <1>e1, <1>e4, <1>e5, <2>4 DEF HandledOnce, SendersAtWork, RowsBegin, Handles
  <2> QED
    BY <1>c, <1>y, <1>i, <1>l, <1>e1, <1>e2, <1>e3, <1>e4, <1>e5, <1>e6, <1>e7, <2>1, <2>2, <2>3, <2>4
<1>7. TakenOnce'
  BY <1>i, <1>e1, <1>e2, <1>e3, <1>e4, <1>e5 DEF TakenOnce, KnownTaken, HandledOnce, SendersAtWork, Handles, RowsBegin
<1>8. NeverSentLater'
  BY <1>i, <1>e2, <1>e7 DEF NeverSentLater, SendersAtWork, RowsBegin, Handles
<1>9. TriesBounded'
  BY <1>c, <1>y, <1>i, <1>l, <1>e1, <1>e2, <1>e3, <1>e4, <1>e5, <1>e6, <1>e7 DEF TriesBounded, RowType
<1> QED
  BY <1>1, <1>2, <1>3, <1>4, <1>5, <1>6, <1>7, <1>8, <1>9 DEF NotifyInv

\* The end of a pass: what is a day old is closed.
LEMMA ClosedStep ==
    ASSUME NotifyInv, ~NotifyOverlap, NEW s \in Senders, CloseStaleMessages(s)
    PROVE  NotifyInv'
<1>c. MaxAttempts \in Nat \ {0}
  BY NotificationsAssumption
<1>y. /\ messages \in [Moments -> RowType] /\ accepted \in [Moments -> Nat]
      /\ sender \in [Senders -> SenderType] /\ notifyFaults \in Nat
  BY DEF NotifyInv, NotifyTypeOK, RowType, SenderType
<1>i. /\ RowsBegin /\ SendersAtWork /\ OneRetryPass /\ ListIsRetriable
      /\ HandledOnce /\ TakenOnce /\ NeverSentLater /\ TriesBounded
  BY DEF NotifyInv
<1>l. \A z \in Senders : \A n \in sender[z].rest :
         /\ n \in Moments /\ Retriable(n) /\ sender[z].kind = "pass"
         /\ \A w \in Senders : ~ Handles(w, n)
  BY ListedUnhandled DEF NotifyInv
<1>e1. sender[s].kind = "pass" /\ sender[s].at = "close"
  BY <1>y, <1>i DEF CloseStaleMessages, SendersAtWork, SenderType
<1>e2. accepted' = accepted /\ notifyFaults' = notifyFaults
  BY DEF CloseStaleMessages
<1>e3. \A w \in Senders : \A n \in Moments : Handles(w, n) => n \notin StaleMessages
  BY <1>y, <1>i, <1>e1 DEF StaleMessages, SendersAtWork, OneRetryPass, Handles, SenderType
<1>e4. /\ messages' \in [Moments -> RowType]
       /\ \A n \in Moments : n \notin StaleMessages => messages'[n] = messages[n]
       /\ \A n \in StaleMessages :
             /\ messages[n].status = "QUEUED" /\ messages'[n].status = "FAILED"
             /\ messages'[n].age = messages[n].age /\ messages'[n].attempts = messages[n].attempts
  BY <1>y DEF CloseStaleMessages, StaleMessages, RowType, MessageStatuses
<1>e5. /\ sender' \in [Senders -> SenderType] /\ \A z \in Senders : z # s => sender'[z] = sender[z]
       /\ sender'[s].kind = "none" /\ sender'[s].at = "rest" /\ sender'[s].rest = {}
  <2>1. Resting \in SenderType /\ Resting.kind = "none" /\ Resting.at = "rest" /\ Resting.rest = {}
    BY DEF Resting, SenderWith, SenderType
  <2> QED
    BY <1>y, <2>1 DEF CloseStaleMessages
<1>e6. \A z \in Senders : sender'[z].rest = {}
  BY <1>i, <1>e1, <1>e5 DEF SendersAtWork, OneRetryPass
<1>1. NotifyTypeOK'
  BY <1>y, <1>e2, <1>e4, <1>e5 DEF NotifyTypeOK, RowType, SenderType
<1>2. RowsBegin'
  BY <1>i, <1>e2, <1>e4 DEF RowsBegin, SendersAtWork, Handles, MessageStatuses
<1>3. SendersAtWork'
  BY <1>c, <1>y, <1>i, <1>l, <1>e1, <1>e2, <1>e3, <1>e4, <1>e5, <1>e6 DEF SendersAtWork, RowsBegin, HandledOnce, Handles, Retriable
<1>4. OneRetryPass'
  BY <1>i, <1>e5, <1>e6 DEF OneRetryPass, SendersAtWork, SenderType
<1>5. ListIsRetriable'
  BY <1>e4, <1>e5, <1>e6 DEF ListIsRetriable, Retriable, RowsBegin
<1>6. HandledOnce'
  BY <1>i, <1>e5, <1>e6 DEF HandledOnce, SendersAtWork, RowsBegin, Handles
<1>7. TakenOnce'
  BY <1>i, <1>e1, <1>e2, <1>e4, <1>e5 DEF TakenOnce, KnownTaken, HandledOnce, SendersAtWork, Handles, RowsBegin
<1>8. NeverSentLater'
  BY <1>i, <1>e2, <1>e6 DEF NeverSentLater, SendersAtWork, RowsBegin, Handles
<1>9. TriesBounded'
  BY <1>i, <1>e1, <1>e4 DEF TriesBounded, RowType
<1> QED
  BY <1>1, <1>2, <1>3, <1>4, <1>5, <1>6, <1>7, <1>8, <1>9 DEF NotifyInv

\* A sender dies: a fault, and its row stays as it was.
LEMMA SenderGoneStep ==
    ASSUME NotifyInv, ~NotifyOverlap, NEW s \in Senders, SenderDies(s)
    PROVE  NotifyInv'
<1>c. MaxAttempts \in Nat \ {0}
  BY NotificationsAssumption
<1>y. /\ messages \in [Moments -> RowType] /\ accepted \in [Moments -> Nat]
      /\ sender \in [Senders -> SenderType] /\ notifyFaults \in Nat
  BY DEF NotifyInv, NotifyTypeOK, RowType, SenderType
<1>i. /\ RowsBegin /\ SendersAtWork /\ OneRetryPass /\ ListIsRetriable
      /\ HandledOnce /\ TakenOnce /\ NeverSentLater /\ TriesBounded
  BY DEF NotifyInv
<1>l. \A z \in Senders : \A n \in sender[z].rest :
         /\ n \in Moments /\ Retriable(n) /\ sender[z].kind = "pass"
         /\ \A w \in Senders : ~ Handles(w, n)
  BY ListedUnhandled DEF NotifyInv
<1>e1. messages' = messages /\ accepted' = accepted /\ notifyFaults' = notifyFaults + 1
  BY DEF SenderDies, NotifyFault
<1>e2. /\ sender' \in [Senders -> SenderType] /\ \A z \in Senders : z # s => sender'[z] = sender[z]
       /\ sender'[s].kind = "none" /\ sender'[s].at = "rest" /\ sender'[s].rest = {}
  <2>1. Resting \in SenderType /\ Resting.kind = "none" /\ Resting.at = "rest" /\ Resting.rest = {}
    BY DEF Resting, SenderWith, SenderType
  <2> QED
    BY <1>y, <2>1 DEF SenderDies
<1>1. NotifyTypeOK'
  BY <1>y, <1>e1, <1>e2 DEF NotifyTypeOK, RowType, SenderType
<1>2. RowsBegin'
  BY <1>i, <1>e1, <1>e2 DEF RowsBegin, SendersAtWork, Handles, MessageStatuses
<1>3. SendersAtWork'
  BY <1>i, <1>e1, <1>e2 DEF SendersAtWork, RowsBegin, HandledOnce, Handles, Retriable
<1>4. OneRetryPass'
  BY <1>i, <1>e1, <1>e2 DEF OneRetryPass, SendersAtWork, SenderType
<1>5. ListIsRetriable'
  BY <1>l, <1>e1, <1>e2 DEF ListIsRetriable, Retriable, RowsBegin
<1>6. HandledOnce'
  BY <1>i, <1>e1, <1>e2 DEF HandledOnce, SendersAtWork, RowsBegin, Handles
<1>7. TakenOnce'
  BY <1>y, <1>i, <1>e1, <1>e2 DEF TakenOnce, KnownTaken, HandledOnce, SendersAtWork, Handles, RowsBegin
<1>8. NeverSentLater'
  BY <1>i, <1>e1, <1>e2 DEF NeverSentLater, SendersAtWork, RowsBegin, Handles
<1>9. TriesBounded'
  BY <1>y, <1>i, <1>e1 DEF TriesBounded, RowType
<1> QED
  BY <1>1, <1>2, <1>3, <1>4, <1>5, <1>6, <1>7, <1>8, <1>9 DEF NotifyInv

\* A minute passes for a row nobody holds, and then a day.
LEMMA AgedStep ==
    ASSUME NotifyInv, ~NotifyOverlap, NEW m \in Moments, MessageGrowsOld(m)
    PROVE  NotifyInv'
<1>c. MaxAttempts \in Nat \ {0}
  BY NotificationsAssumption
<1>y. /\ messages \in [Moments -> RowType] /\ accepted \in [Moments -> Nat]
      /\ sender \in [Senders -> SenderType] /\ notifyFaults \in Nat
  BY DEF NotifyInv, NotifyTypeOK, RowType, SenderType
<1>i. /\ RowsBegin /\ SendersAtWork /\ OneRetryPass /\ ListIsRetriable
      /\ HandledOnce /\ TakenOnce /\ NeverSentLater /\ TriesBounded
  BY DEF NotifyInv
<1>l. \A z \in Senders : \A n \in sender[z].rest :
         /\ n \in Moments /\ Retriable(n) /\ sender[z].kind = "pass"
         /\ \A w \in Senders : ~ Handles(w, n)
  BY ListedUnhandled DEF NotifyInv
<1>e1. accepted' = accepted /\ notifyFaults' = notifyFaults /\ sender' = sender
  BY DEF MessageGrowsOld
<1>e2. messages[m].status # "none" /\ \A w \in Senders : ~ Handles(w, m)
  BY DEF MessageGrowsOld, Handles
<1>e3. /\ messages' \in [Moments -> RowType] /\ \A n \in Moments : n # m => messages'[n] = messages[n]
       /\ messages'[m].status = messages[m].status /\ messages'[m].attempts = messages[m].attempts
       /\ messages'[m].age # "fresh"
  BY <1>y DEF MessageGrowsOld, RowType, MessageAges
<1>1. NotifyTypeOK'
  BY <1>y, <1>e1, <1>e3 DEF NotifyTypeOK, RowType, SenderType
<1>2. RowsBegin'
  BY <1>i, <1>e1, <1>e2, <1>e3 DEF RowsBegin, SendersAtWork, Handles, MessageStatuses
<1>3. SendersAtWork'
  BY <1>i, <1>e1, <1>e2, <1>e3 DEF SendersAtWork, RowsBegin, HandledOnce, Handles, Retriable
<1>4. OneRetryPass'
  BY <1>i, <1>e1, <1>e3 DEF OneRetryPass, SendersAtWork, SenderType
<1>5. ListIsRetriable'
  BY <1>l, <1>e1, <1>e3 DEF ListIsRetriable, Retriable, RowsBegin
<1>6. HandledOnce'
  BY <1>i, <1>e1, <1>e3 DEF HandledOnce, SendersAtWork, RowsBegin, Handles
<1>7. TakenOnce'
  BY <1>i, <1>e1, <1>e3 DEF TakenOnce, KnownTaken, HandledOnce, SendersAtWork, Handles, RowsBegin
<1>8. NeverSentLater'
  BY <1>i, <1>e1, <1>e3 DEF NeverSentLater, SendersAtWork, RowsBegin, Handles
<1>9. TriesBounded'
  BY <1>i, <1>e2, <1>e3 DEF TriesBounded, RowType
<1> QED
  BY <1>1, <1>2, <1>3, <1>4, <1>5, <1>6, <1>7, <1>8, <1>9 DEF NotifyInv

LEMMA NotifyStep ==
    ASSUME NotifyInv, ~NotifyOverlap, NotifyNext \/ UNCHANGED notifyVars
    PROVE  NotifyInv'
<1>1. CASE NotifyNext
  BY <1>1, NotifiedStep, PassStartedStep, CalledStep, SentStep, MarkedFailedStep, FailureStep,
     ClosedStep, SenderGoneStep, AgedStep DEF NotifyNext, SenderMoves
<1>2. CASE UNCHANGED notifyVars
  BY <1>2 DEF notifyVars, NotifyInv, NotifyTypeOK, RowsBegin, SendersAtWork, OneRetryPass,
     ListIsRetriable, HandledOnce, TakenOnce, NeverSentLater, TriesBounded, Handles, Retriable, KnownTaken
<1> QED
  BY <1>1, <1>2

LEMMA NotifyBegins == NotifyInit => NotifyInv
<1> SUFFICES ASSUME NotifyInit PROVE NotifyInv
  OBVIOUS
<1>0. MaxAttempts \in Nat \ {0}
  BY NotificationsAssumption
<1>1. NotifyTypeOK
  BY DEF NotifyInit, NotifyTypeOK, Resting, SenderWith, MessageStatuses, MessageAges
<1>2. /\ \A m \in Moments : /\ messages[m] = [status |-> "none", attempts |-> 0, age |-> "fresh"]
                            /\ accepted[m] = 0
      /\ \A s \in Senders : /\ sender[s].at = "rest" /\ sender[s].kind = "none"
                            /\ sender[s].rest = {}
      /\ notifyFaults = 0
  BY DEF NotifyInit, Resting, SenderWith
<1> QED
  BY <1>0, <1>1, <1>2 DEF NotifyInv, RowsBegin, SendersAtWork, OneRetryPass, ListIsRetriable,
     HandledOnce, TakenOnce, NeverSentLater, TriesBounded, Handles, KnownTaken

\* A row that says sent is in nobody's hands.
LEMMA SentStays ==
    ASSUME NotifyInv, NotifyNext, NEW m \in Moments, messages[m].status = "SENT"
    PROVE  messages'[m].status = "SENT" /\ accepted'[m] = accepted[m]
<1>1. /\ messages \in [Moments -> RowType] /\ accepted \in [Moments -> Nat]
      /\ sender \in [Senders -> SenderType]
  BY DEF NotifyInv, NotifyTypeOK, RowType, SenderType
<1>2. \A s \in Senders : sender[s].at \in {"call", "record", "fail"} => sender[s].moment # m
  BY DEF NotifyInv, SendersAtWork, Handles
<1>3. ASSUME NEW s \in Senders, NEW n \in Moments, Notify(s, n)
      PROVE  messages'[m] = messages[m] /\ accepted' = accepted
  BY <1>1, <1>3 DEF Notify
<1>4. ASSUME NEW s \in Senders, CallAisensy(s)
      PROVE  messages' = messages /\ accepted'[m] = accepted[m]
  BY <1>1, <1>2, <1>4 DEF CallAisensy
<1>5. ASSUME NEW s \in Senders, RecordSent(s) \/ RecordFailure(s) \/ MarkMessageFailed(s)
      PROVE  messages'[m] = messages[m] /\ accepted' = accepted
  BY <1>1, <1>2, <1>5 DEF RecordSent, RecordFailure, MarkMessageFailed
<1>6. ASSUME NEW s \in Senders, CloseStaleMessages(s)
      PROVE  messages'[m] = messages[m] /\ accepted' = accepted
  BY <1>1, <1>6 DEF CloseStaleMessages, StaleMessages
<1>7. ASSUME NEW s \in Senders, StartRetryPass(s) \/ SenderDies(s)
      PROVE  messages' = messages /\ accepted' = accepted
  BY <1>7 DEF StartRetryPass, SenderDies
<1>8. ASSUME NEW n \in Moments, MessageGrowsOld(n)
      PROVE  messages'[m].status = "SENT" /\ accepted' = accepted
  BY <1>1, <1>8 DEF MessageGrowsOld, RowType
<1> QED
  BY <1>3, <1>4, <1>5, <1>6, <1>7, <1>8 DEF NotifyNext, SenderMoves

-----------------------------------------------------------------------------
(* Conversions: one reporter at a time has an event in hand.               *)

ReporterType ==
    [kind : {"none", "order", "job"}, at : {"idle", "file", "claim", "send", "record", "next"},
     sale : Sales \cup {"none"}, retries : SUBSET Sales, sweep : SUBSET Sales, ok : BOOLEAN]

\* Where a reporter's next turn leaves it, and that nobody else is moved.
LEMMA NextTurn ==
    ASSUME ConversionTypeOK, ReportersAtWork, NEW r \in Reporters, reporter[r].kind # "none", GoesOn(r)
    PROVE  /\ reporter' \in [Reporters -> ReporterType]
           /\ \A q \in Reporters : q # r => reporter'[q] = reporter[q]
           /\ \/ /\ reporter'[r].kind = "none" /\ reporter'[r].at = "idle"
                 /\ reporter'[r].retries = {}
              \/ /\ reporter[r].kind = "job" /\ reporter'[r].kind = "job" /\ reporter'[r].at = "send"
                 /\ reporter'[r].sale \in reporter[r].retries
                 /\ reporter'[r].retries = reporter[r].retries \ {reporter'[r].sale}
              \/ /\ reporter[r].kind = "job" /\ reporter'[r].kind = "job" /\ reporter'[r].at = "claim"
                 /\ reporter'[r].sale \in Sales /\ reporter'[r].retries = {}
<1> USE DEF ConversionTypeOK, ReporterType
<1> DEFINE now == reporter[r]
<1>0. now \in ReporterType
  OBVIOUS
<1>1. CASE now.kind = "order"
  <2>1. reporter' = [reporter EXCEPT ![r] = NoReport]
    BY <1>1 DEF GoesOn
  <2>2. NoReport \in ReporterType
    BY DEF NoReport
  <2>3. NoReport.kind = "none" /\ NoReport.at = "idle" /\ NoReport.retries = {}
    BY DEF NoReport
  <2> QED
    BY <2>1, <2>2, <2>3
<1>2. CASE now.kind # "order" /\ now.retries # {}
  <2>1. PICK o \in now.retries :
            reporter' = [reporter EXCEPT ![r].at = "send", ![r].sale = o, ![r].retries = @ \ {o}]
    BY <1>2 DEF GoesOn
  <2>2. o \in Sales
    BY <1>0
  <2>3. reporter'[r] = [now EXCEPT !.at = "send", !.sale = o, !.retries = now.retries \ {o}]
    BY <2>1
  <2>4. reporter' \in [Reporters -> ReporterType]
    BY <2>1, <2>2
  <2>5. \A q \in Reporters : q # r => reporter'[q] = reporter[q]
    BY <2>1
  <2> QED
    BY <1>0, <1>2, <2>3, <2>4, <2>5
<1>3. CASE now.kind # "order" /\ now.retries = {} /\ now.sweep # {}
  <2>1. PICK o \in now.sweep :
            reporter' = [reporter EXCEPT ![r].at = "claim", ![r].sale = o, ![r].sweep = @ \ {o}]
    BY <1>3 DEF GoesOn
  <2>2. o \in Sales
    BY <1>0
  <2>3. reporter'[r] = [now EXCEPT !.at = "claim", !.sale = o, !.sweep = now.sweep \ {o}]
    BY <2>1
  <2>4. reporter' \in [Reporters -> ReporterType]
    BY <2>1, <2>2
  <2>5. \A q \in Reporters : q # r => reporter'[q] = reporter[q]
    BY <2>1
  <2> QED
    BY <1>0, <1>3, <2>2, <2>3, <2>4, <2>5
<1>4. CASE now.kind # "order" /\ now.retries = {} /\ now.sweep = {}
  <2>1. reporter' = [reporter EXCEPT ![r] = NoReport]
    BY <1>4 DEF GoesOn
  <2>2. NoReport \in ReporterType
    BY DEF NoReport
  <2>3. NoReport.kind = "none" /\ NoReport.at = "idle" /\ NoReport.retries = {}
    BY DEF NoReport
  <2> QED
    BY <2>1, <2>2, <2>3
<1> QED
  BY <1>1, <1>2, <1>3, <1>4

\* Shorter updates keep a reporter's and an event's type.
LEMMA Retyped ==
    ASSUME ConversionTypeOK, NEW r \in Reporters,
           NEW at \in {"claim", "send", "record"}, NEW ok \in BOOLEAN,
           \/ reporter' = [reporter EXCEPT ![r].at = at]
           \/ reporter' = [reporter EXCEPT ![r].at = at, ![r].ok = ok]
    PROVE  /\ reporter' \in [Reporters -> ReporterType]
           /\ reporter'[r] = [reporter[r] EXCEPT !.at = at, !.ok = reporter'[r].ok]
           /\ \A q \in Reporters : q # r => reporter'[q] = reporter[q]
<1>1. reporter \in [Reporters -> ReporterType]
  BY DEF ConversionTypeOK, ReporterType
<1>2. [reporter[r] EXCEPT !.at = at] \in ReporterType
  BY <1>1, SMTT(30) DEF ReporterType
<1>3. [reporter[r] EXCEPT !.at = at, !.ok = ok] \in ReporterType
  <2>1. [[reporter[r] EXCEPT !.at = at] EXCEPT !.ok = ok] \in ReporterType
    BY <1>2 DEF ReporterType
  <2> QED
    BY <1>1, <2>1 DEF ReporterType
<1>4. CASE reporter' = [reporter EXCEPT ![r].at = at]
  <2>1. reporter' = [reporter EXCEPT ![r] = [reporter[r] EXCEPT !.at = at]]
    BY <1>1, <1>4
  <2> QED
    BY <1>1, <1>2, <2>1 DEF ReporterType
<1>5. CASE reporter' = [reporter EXCEPT ![r].at = at, ![r].ok = ok]
  <2>1. reporter' = [reporter EXCEPT ![r] = [reporter[r] EXCEPT !.at = at, !.ok = ok]]
    BY <1>1, <1>5
  <2> QED
    BY <1>1, <1>3, <2>1 DEF ReporterType
<1> QED
  BY <1>4, <1>5

LEMMA Recorded ==
    ASSUME ConversionTypeOK, NEW o, NEW status \in {"SENT", "FAILED"},
           event' = [event EXCEPT ![o].status = status, ![o].attempts = @ + 1]
    PROVE  /\ event' \in [Sales -> [status : EventStatuses, attempts : Nat]]
           /\ \A p \in Sales : p # o => event'[p] = event[p]
           /\ o \in Sales => /\ event'[o].status = status
                             /\ event'[o].attempts = event[o].attempts + 1
<1>1. event \in [Sales -> [status : EventStatuses, attempts : Nat]]
  BY DEF ConversionTypeOK
<1>2. event' = [event EXCEPT ![o] = [event[o] EXCEPT !.status = status, !.attempts = event[o].attempts + 1]]
  BY <1>1
<1>3. CASE o \in Sales
  BY <1>1, <1>2, <1>3 DEF EventStatuses
<1>4. CASE o \notin Sales
  BY <1>1, <1>2, <1>4
<1> QED
  BY <1>3, <1>4

\* What a pass has listed is at no reporter yet.
LEMMA ListedFree ==
    ASSUME ConversionTypeOK, ReportersAtWork, OnePass, ListedAlone
    PROVE  \A q \in Reporters : \A p \in reporter[q].retries :
              /\ p \in Sales /\ Sendable(p) /\ reporter[q].kind = "job"
              /\ \A w \in Reporters : /\ ~ InHand(w, p)
                                      /\ reporter[w].kind = "order" => reporter[w].sale # p
<1> TAKE q \in Reporters
<1> TAKE p \in reporter[q].retries
<1>1. reporter \in [Reporters -> ReporterType]
  BY DEF ConversionTypeOK, ReporterType
<1>2. p \in Sales /\ Sendable(p) /\ reporter[q].kind = "job"
  BY <1>1 DEF ListedAlone, ReportersAtWork, ReporterType
<1>3. ASSUME NEW w \in Reporters PROVE reporter[w].kind = "order" => reporter[w].sale # p
  BY <1>1 DEF ListedAlone, Busy
<1>4. ASSUME NEW w \in Reporters, InHand(w, p) PROVE FALSE
  <2>1. reporter[w].kind \in {"order", "job"}
    BY <1>1, <1>4 DEF ReportersAtWork, InHand, ReporterType
  <2>2. reporter[w].kind = "job"
    BY <1>3, <1>4, <2>1 DEF InHand
  <2>3. w = q
    BY <1>2, <2>2 DEF OnePass
  <2> QED
    BY <1>2, <1>4, <2>3 DEF ReportersAtWork
<1> QED
  BY <1>2, <1>3, <1>4

LEMMA ReportTyped ==
    ASSUME ReportInv, ~ReportOverlap, ConversionNext
    PROVE  ConversionTypeOK'
<1> USE ConversionsAssumption DEF ReportInv, ConversionTypeOK, EventStatuses
<1> DEFINE Typed == reporter' \in [Reporters -> ReporterType]
<1>1. ASSUME NEW r \in Reporters, NEW o \in Sales, PlaceSale(r, o)
      PROVE  ConversionTypeOK'
  <2>1. Cardinality({p \in Sales : sale[p].state # "none"}) \in Nat
    BY FS_Subset, FS_CardinalityType
  <2>2. sale' \in [Sales -> [state : {"none", "placed", "filed"}, nth : Nat]]
    BY <1>1, <2>1 DEF PlaceSale
  <2>3. reporter' \in [Reporters -> ReporterType]
    <3>1. [NoReport EXCEPT !.kind = "order", !.at = "file", !.sale = o] \in ReporterType
      BY DEF NoReport, ReporterType
    <3>2. reporter \in [Reporters -> ReporterType]
      BY DEF ReporterType
    <3>3. \/ reporter' = [reporter EXCEPT ![r] = [NoReport EXCEPT !.kind = "order", !.at = "file", !.sale = o]]
          \/ reporter' = reporter
      BY <1>1 DEF PlaceSale
    <3> QED
      BY <3>1, <3>2, <3>3
  <2>4. reportFaults' \in Nat
    BY <1>1 DEF PlaceSale, ReportFault
  <2> QED
    BY <1>1, <2>2, <2>3, <2>4 DEF PlaceSale, ReporterType
<1>2. ASSUME NEW r \in Reporters, StartMarketingJob(r)
      PROVE  ConversionTypeOK'
  <2>1. reporter' \in [Reporters -> ReporterType]
    BY <1>2 DEF StartMarketingJob, NoReport, ReporterType, EventsDue, Unreported
  <2> QED
    BY <1>2, <2>1 DEF StartMarketingJob, ReporterType
<1>3. ASSUME NEW r \in Reporters, FileSale(r)
      PROVE  ConversionTypeOK'
  <2>1. reporter' \in [Reporters -> ReporterType]
    <3>1. NoReport \in ReporterType
      BY DEF NoReport, ReporterType
    <3>2. CASE reporter[r].sale \in Consenting
      <4>1. reporter' = [reporter EXCEPT ![r].at = "claim"]
        BY <1>3, <3>2 DEF FileSale
      <4> QED
        BY <4>1, Retyped
    <3>3. CASE reporter[r].sale \notin Consenting
      <4>1. reporter' = [reporter EXCEPT ![r] = NoReport]
        BY <1>3, <3>3 DEF FileSale
      <4> QED
        BY <3>1, <4>1 DEF ReporterType
    <3> QED
      BY <3>2, <3>3
  <2>2. sale' \in [Sales -> [state : {"none", "placed", "filed"}, nth : Nat]]
    BY <1>3, SMTT(30) DEF FileSale
  <2>3. event' \in [Sales -> [status : EventStatuses, attempts : Nat]]
    BY <1>3, SMTT(30) DEF FileSale
  <2>4. reportFaults' \in Nat
    BY <1>3 DEF FileSale, ReportFault
  <2> QED
    BY <1>3, <2>1, <2>2, <2>3, <2>4 DEF FileSale, ReporterType
<1>4. ASSUME NEW r \in Reporters, ClaimEvent(r)
      PROVE  ConversionTypeOK'
  <2>1. reporter' \in [Reporters -> ReporterType]
    <3>1. CASE event[reporter[r].sale].status = "none" /\ Consented(reporter[r].sale)
      <4>1. reporter' = [reporter EXCEPT ![r].at = "send"]
        BY <1>4, <3>1 DEF ClaimEvent
      <4> QED
        BY <4>1, Retyped
    <3>2. CASE ~ (event[reporter[r].sale].status = "none" /\ Consented(reporter[r].sale))
      <4>1. reporter[r].kind # "none" /\ GoesOn(r)
        BY <1>4, <3>2 DEF ClaimEvent, ReportersAtWork
      <4> QED
        BY <4>1, NextTurn
    <3> QED
      BY <3>1, <3>2
  <2>2. event' \in [Sales -> [status : EventStatuses, attempts : Nat]]
    BY <1>4, SMTT(30) DEF ClaimEvent
  <2> QED
    BY <1>4, <2>1, <2>2 DEF ClaimEvent, ReporterType
<1>5. ASSUME NEW r \in Reporters, SendToMeta(r)
      PROVE  ConversionTypeOK'
  <2>1. reporter' \in [Reporters -> ReporterType]
    <3>1. PICK ok \in BOOLEAN : reporter' = [reporter EXCEPT ![r].at = "record", ![r].ok = ok]
      BY <1>5 DEF SendToMeta
    <3> QED
      BY <3>1, Retyped
  <2>2. received' \in [Sales -> Nat]
    <3>1. \/ received' = received
          \/ received' = [received EXCEPT ![reporter[r].sale] = @ + 1]
      BY <1>5 DEF SendToMeta
    <3> QED
      BY <3>1
  <2>3. reportFaults' \in Nat
    BY <1>5 DEF SendToMeta, ReportFault
  <2> QED
    BY <1>5, <2>1, <2>2, <2>3 DEF SendToMeta, ReporterType
<1>6. ASSUME NEW r \in Reporters, RecordReport(r)
      PROVE  ConversionTypeOK'
  <2>1. reporter' \in [Reporters -> ReporterType]
    BY <1>6, NextTurn DEF RecordReport, ReportersAtWork
  <2>2. event' \in [Sales -> [status : EventStatuses, attempts : Nat]]
    <3>1. PICK status \in {"SENT", "FAILED"} :
             event' = [event EXCEPT ![reporter[r].sale].status = status,
                                    ![reporter[r].sale].attempts = @ + 1]
      BY <1>6 DEF RecordReport
    <3> QED
      BY <3>1, Recorded
  <2> QED
    BY <1>6, <2>1, <2>2 DEF RecordReport, ReporterType
<1>7. ASSUME NEW r \in Reporters, NextOfJob(r)
      PROVE  ConversionTypeOK'
  <2>1. reporter' \in [Reporters -> ReporterType]
    BY <1>7, NextTurn DEF NextOfJob, ReportersAtWork
  <2> QED
    BY <1>7, <2>1 DEF NextOfJob, ReporterType
<1>8. ASSUME NEW r \in Reporters, ReporterDies(r)
      PROVE  ConversionTypeOK'
  <2>1. reporter' \in [Reporters -> ReporterType]
    BY <1>8 DEF ReporterDies, NoReport, ReporterType
  <2> QED
    BY <1>8, <2>1 DEF ReporterDies, ReporterType, ReportFault
<1> QED
  BY <1>1, <1>2, <1>3, <1>4, <1>5, <1>6, <1>7, <1>8 DEF ConversionNext, ReporterMoves

\* An order committed, and its background work begun or lost.
LEMMA PlacedReport ==
    ASSUME ReportInv, ~ReportOverlap, NEW r \in Reporters, NEW o \in Sales, PlaceSale(r, o)
    PROVE  ReportInv'
<1>t. ConversionTypeOK'
  BY ReportTyped DEF ConversionNext, ReporterMoves
<1>c. MaxSends \in Nat \ {0} /\ Consenting \subseteq Sales
  BY ConversionsAssumption
<1>y. /\ event \in [Sales -> [status : EventStatuses, attempts : Nat]]
      /\ received \in [Sales -> Nat] /\ reportFaults \in Nat
      /\ reporter \in [Reporters -> ReporterType]
  BY DEF ReportInv, ConversionTypeOK, ReporterType
<1>i. /\ EventsHaveAYes /\ ReportersAtWork /\ OnePass /\ ListedAlone
      /\ InHandOnce /\ CountedOnce /\ NothingWithoutConsent /\ SendsBounded
  BY DEF ReportInv
<1>l. \A q \in Reporters : \A p \in reporter[q].retries :
        /\ p \in Sales /\ Sendable(p) /\ reporter[q].kind = "job"
        /\ \A w \in Reporters : /\ ~ InHand(w, p)
                                /\ reporter[w].kind = "order" => reporter[w].sale # p
  BY ListedFree DEF ReportInv
<1>e1. sale[o].state = "none" /\ sale'[o].state = "placed" /\ \A p \in Sales : p # o => sale'[p] = sale[p]
  BY <1>t DEF PlaceSale, ReportInv, ConversionTypeOK
<1>e2. event' = event /\ received' = received
  BY DEF PlaceSale
<1>e3. reportFaults' \in Nat /\ reportFaults' >= reportFaults
  BY <1>y DEF PlaceSale, ReportFault
<1>e4. reporter[r].kind = "none" /\ reporter[r].at = "idle" /\ reporter[r].retries = {}
  BY DEF PlaceSale, NoReport
<1>e5. \A q \in Reporters : q # r => reporter'[q] = reporter[q]
  BY <1>y DEF PlaceSale
<1>e6. \/ reporter'[r] = reporter[r]
       \/ /\ reporter'[r].kind = "order" /\ reporter'[r].at = "file"
          /\ reporter'[r].sale = o /\ reporter'[r].retries = {}
  BY <1>y DEF PlaceSale, NoReport
<1>1. EventsHaveAYes'
  BY <1>i, <1>e1, <1>e2 DEF EventsHaveAYes, ReportersAtWork, InHand, Sendable, Filed
<1>2. ReportersAtWork'
  BY <1>i, <1>e1, <1>e2, <1>e5, <1>e6 DEF ReportersAtWork, EventsHaveAYes, InHandOnce, InHand, Sendable
<1>3. OnePass'
  BY <1>i, <1>e5, <1>e6 DEF OnePass, ReportersAtWork
<1>4. ListedAlone'
  BY <1>i, <1>e1, <1>e2, <1>e5, <1>e6 DEF ListedAlone, EventsHaveAYes, ReportersAtWork, Sendable, Busy, InHand
<1>5. InHandOnce'
  BY <1>i, <1>e5, <1>e6 DEF InHandOnce, ReportersAtWork, InHand, Sendable
<1>6. CountedOnce'
  BY <1>y, <1>i, <1>e2, <1>e3, <1>e4, <1>e5 DEF CountedOnce, TakenByMeta, InHandOnce, ReportersAtWork, Sendable, EventsHaveAYes, InHand
<1>7. NothingWithoutConsent'
  BY <1>i, <1>e2, <1>e6 DEF NothingWithoutConsent, ReportersAtWork, EventsHaveAYes, InHand, Sendable
<1>8. SendsBounded'
  BY <1>i, <1>e2, <1>e6 DEF SendsBounded, ReportersAtWork, InHand, Sendable, EventsHaveAYes
<1> QED
  BY <1>t, <1>1, <1>2, <1>3, <1>4, <1>5, <1>6, <1>7, <1>8 DEF ReportInv

\* The order's consent filed, or its refusal recorded.
LEMMA FiledReport ==
    ASSUME ReportInv, ~ReportOverlap, NEW r \in Reporters, FileSale(r)
    PROVE  ReportInv'
<1>t. ConversionTypeOK'
  BY ReportTyped DEF ConversionNext, ReporterMoves
<1>c. MaxSends \in Nat \ {0} /\ Consenting \subseteq Sales
  BY ConversionsAssumption
<1>y. /\ event \in [Sales -> [status : EventStatuses, attempts : Nat]]
      /\ received \in [Sales -> Nat] /\ reportFaults \in Nat
      /\ reporter \in [Reporters -> ReporterType]
  BY DEF ReportInv, ConversionTypeOK, ReporterType
<1>i. /\ EventsHaveAYes /\ ReportersAtWork /\ OnePass /\ ListedAlone
      /\ InHandOnce /\ CountedOnce /\ NothingWithoutConsent /\ SendsBounded
  BY DEF ReportInv
<1>l. \A q \in Reporters : \A p \in reporter[q].retries :
        /\ p \in Sales /\ Sendable(p) /\ reporter[q].kind = "job"
        /\ \A w \in Reporters : /\ ~ InHand(w, p)
                                /\ reporter[w].kind = "order" => reporter[w].sale # p
  BY ListedFree DEF ReportInv
<1>e1. reporter[r].at = "file" /\ reporter[r].sale \in Sales /\ reporter[r].kind # "none"
  BY <1>i DEF FileSale, ReportersAtWork
<1>e2. \A p \in Sales : sale'[p].state # "none" \/ sale[p].state = "none"
  BY <1>y DEF FileSale, ReportInv, ConversionTypeOK
<1>e3. received' = received
  BY DEF FileSale
<1>e4. reportFaults' \in Nat /\ reportFaults' >= reportFaults
  BY <1>y DEF FileSale, ReportFault
<1>e5. \A q \in Reporters : q # r => reporter'[q] = reporter[q]
  BY <1>y DEF FileSale
<1>e6. \/ /\ event' = event
          /\ reporter'[r].kind = reporter[r].kind /\ reporter'[r].at = "claim"
          /\ reporter'[r].sale = reporter[r].sale /\ reporter'[r].retries = reporter[r].retries
       \/ /\ reporter[r].sale \notin Consenting
          /\ event'[reporter[r].sale].status = "SKIPPED"
          /\ event'[reporter[r].sale].attempts = event[reporter[r].sale].attempts
          /\ \A p \in Sales : p # reporter[r].sale => event'[p] = event[p]
          /\ reporter'[r].kind = "none" /\ reporter'[r].at = "idle" /\ reporter'[r].retries = {}
  BY <1>y, <1>e1 DEF FileSale, ReporterType, NoReport
<1>1. EventsHaveAYes'
  BY <1>i, <1>e2, <1>e6 DEF EventsHaveAYes, ReportersAtWork, InHand, Sendable, Filed
<1>2. ReportersAtWork'
  BY <1>i, <1>e1, <1>e2, <1>e5, <1>e6 DEF ReportersAtWork, EventsHaveAYes, InHandOnce, InHand, Sendable
<1>3. OnePass'
  BY <1>i, <1>e5, <1>e6 DEF OnePass, ReportersAtWork
<1>4. ListedAlone'
  BY <1>i, <1>l, <1>e5, <1>e6 DEF ListedAlone, EventsHaveAYes, ReportersAtWork, Sendable, Busy, InHand
<1>5. InHandOnce'
  BY <1>i, <1>e5, <1>e6 DEF InHandOnce, ReportersAtWork, InHand, Sendable
<1>6. CountedOnce'
  BY <1>c, <1>y, <1>i, <1>l, <1>e1, <1>e2, <1>e3, <1>e4, <1>e5, <1>e6, SMTT(30) DEF NothingWithoutConsent, CountedOnce, TakenByMeta, InHandOnce, ReportersAtWork, Sendable, EventsHaveAYes, InHand
<1>7. NothingWithoutConsent'
  BY <1>i, <1>e3, <1>e6 DEF NothingWithoutConsent, ReportersAtWork, EventsHaveAYes, InHand, Sendable
<1>8. SendsBounded'
  BY <1>i, <1>e5, <1>e6 DEF SendsBounded, ReportersAtWork, InHand, Sendable, EventsHaveAYes
<1> QED
  BY <1>t, <1>1, <1>2, <1>3, <1>4, <1>5, <1>6, <1>7, <1>8 DEF ReportInv

\* The event claimed by its unique id.
LEMMA ClaimedReport ==
    ASSUME ReportInv, ~ReportOverlap, NEW r \in Reporters, ClaimEvent(r), event[reporter[r].sale].status = "none" /\ Consented(reporter[r].sale)
    PROVE  ReportInv'
<1>t. ConversionTypeOK'
  BY ReportTyped DEF ConversionNext, ReporterMoves
<1>c. MaxSends \in Nat \ {0} /\ Consenting \subseteq Sales
  BY ConversionsAssumption
<1>y. /\ event \in [Sales -> [status : EventStatuses, attempts : Nat]]
      /\ received \in [Sales -> Nat] /\ reportFaults \in Nat
      /\ reporter \in [Reporters -> ReporterType]
  BY DEF ReportInv, ConversionTypeOK, ReporterType
<1>i. /\ EventsHaveAYes /\ ReportersAtWork /\ OnePass /\ ListedAlone
      /\ InHandOnce /\ CountedOnce /\ NothingWithoutConsent /\ SendsBounded
  BY DEF ReportInv
<1>l. \A q \in Reporters : \A p \in reporter[q].retries :
        /\ p \in Sales /\ Sendable(p) /\ reporter[q].kind = "job"
        /\ \A w \in Reporters : /\ ~ InHand(w, p)
                                /\ reporter[w].kind = "order" => reporter[w].sale # p
  BY ListedFree DEF ReportInv
<1>e1. reporter[r].at = "claim" /\ reporter[r].sale \in Sales /\ reporter[r].kind # "none"
  BY <1>i DEF ClaimEvent, ReportersAtWork
<1>e2. sale' = sale /\ received' = received /\ reportFaults' = reportFaults
  BY DEF ClaimEvent
<1>e3. sale[reporter[r].sale].state = "filed" /\ reporter[r].sale \in Consenting
  BY DEF Consented, Filed
<1>e4. /\ event'[reporter[r].sale].status = "PENDING"
       /\ event'[reporter[r].sale].attempts = event[reporter[r].sale].attempts
       /\ \A p \in Sales : p # reporter[r].sale => event'[p] = event[p]
  BY <1>y, <1>e1 DEF ClaimEvent
<1>e5. /\ reporter'[r].kind = reporter[r].kind /\ reporter'[r].at = "send"
       /\ reporter'[r].sale = reporter[r].sale /\ reporter'[r].retries = reporter[r].retries
       /\ \A q \in Reporters : q # r => reporter'[q] = reporter[q]
  BY <1>y, <1>e1 DEF ClaimEvent, ReporterType
<1>e6. \A q \in Reporters : reporter[r].sale \notin reporter[q].retries
  BY <1>l DEF Sendable
<1>1. EventsHaveAYes'
  BY <1>i, <1>e2, <1>e3, <1>e4 DEF EventsHaveAYes, ReportersAtWork, InHand, Sendable, Filed
<1>2. ReportersAtWork'
  BY <1>c, <1>y, <1>i, <1>l, <1>e1, <1>e2, <1>e3, <1>e4, <1>e5, <1>e6 DEF ReportersAtWork, EventsHaveAYes, InHandOnce, InHand, Sendable
<1>3. OnePass'
  BY <1>i, <1>e5, <1>e6 DEF OnePass, ReportersAtWork
<1>4. ListedAlone'
  <2> SUFFICES ASSUME NEW q \in Reporters, NEW p \in reporter'[q].retries
               PROVE  Sendable(p)' /\ ~ Busy(p)'
    BY DEF ListedAlone
  <2>1. p \in reporter[q].retries
    BY <1>e4, <1>e5, <1>e6
  <2>2. p \in Sales /\ p # reporter[r].sale
    BY <1>l, <1>e6, <2>1
  <2>3. Sendable(p)'
    BY <1>l, <1>e1, <1>e2, <1>e3, <1>e4, <1>e5, <1>e6, <2>1, <2>2 DEF Sendable
  <2>4. \A w \in Reporters : reporter'[w].kind = reporter[w].kind /\ reporter'[w].sale = reporter[w].sale
    BY <1>e4, <1>e5, <1>e6
  <2> QED
    BY <1>l, <2>1, <2>3, <2>4 DEF Busy
<1>5. InHandOnce'
  BY <1>i, <1>e5, <1>e6 DEF InHandOnce, ReportersAtWork, InHand, Sendable
<1>6. CountedOnce'
  <2>1. \A p \in Sales : TakenByMeta(p) => TakenByMeta(p)'
    BY <1>e1, <1>e4, <1>e5 DEF TakenByMeta, InHand
  <2> QED
    BY <1>y, <1>i, <1>e1, <1>e2, <1>e3, <1>e4, <1>e5, <1>e6, <2>1 DEF CountedOnce
<1>7. NothingWithoutConsent'
  BY <1>i, <1>e2, <1>e6 DEF NothingWithoutConsent, ReportersAtWork, EventsHaveAYes, InHand, Sendable
<1>8. SendsBounded'
  BY <1>i, <1>e4, <1>e6 DEF SendsBounded, ReportersAtWork, InHand, Sendable, EventsHaveAYes
<1> QED
  BY <1>t, <1>1, <1>2, <1>3, <1>4, <1>5, <1>6, <1>7, <1>8 DEF ReportInv

\* An event somebody has, or that has no yes: the reporter turns to the next.
LEMMA PassedReport ==
    ASSUME ReportInv, ~ReportOverlap, NEW r \in Reporters, ClaimEvent(r), ~ (event[reporter[r].sale].status = "none" /\ Consented(reporter[r].sale))
    PROVE  ReportInv'
<1>t. ConversionTypeOK'
  BY ReportTyped DEF ConversionNext, ReporterMoves
<1>c. MaxSends \in Nat \ {0} /\ Consenting \subseteq Sales
  BY ConversionsAssumption
<1>y. /\ event \in [Sales -> [status : EventStatuses, attempts : Nat]]
      /\ received \in [Sales -> Nat] /\ reportFaults \in Nat
      /\ reporter \in [Reporters -> ReporterType]
  BY DEF ReportInv, ConversionTypeOK, ReporterType
<1>i. /\ EventsHaveAYes /\ ReportersAtWork /\ OnePass /\ ListedAlone
      /\ InHandOnce /\ CountedOnce /\ NothingWithoutConsent /\ SendsBounded
  BY DEF ReportInv
<1>l. \A q \in Reporters : \A p \in reporter[q].retries :
        /\ p \in Sales /\ Sendable(p) /\ reporter[q].kind = "job"
        /\ \A w \in Reporters : /\ ~ InHand(w, p)
                                /\ reporter[w].kind = "order" => reporter[w].sale # p
  BY ListedFree DEF ReportInv
<1>e1. reporter[r].at = "claim" /\ reporter[r].sale \in Sales /\ reporter[r].kind # "none"
  BY <1>i DEF ClaimEvent, ReportersAtWork
<1>e2. sale' = sale /\ event' = event /\ received' = received /\ reportFaults' = reportFaults /\ GoesOn(r)
  BY DEF ClaimEvent
<1>e3. /\ \A q \in Reporters : q # r => reporter'[q] = reporter[q]
       /\ \/ reporter'[r].kind = "none" /\ reporter'[r].at = "idle" /\ reporter'[r].retries = {}
          \/ /\ reporter[r].kind = "job" /\ reporter'[r].kind = "job" /\ reporter'[r].at = "send"
             /\ reporter'[r].sale \in reporter[r].retries
             /\ reporter'[r].retries = reporter[r].retries \ {reporter'[r].sale}
          \/ /\ reporter[r].kind = "job" /\ reporter'[r].kind = "job" /\ reporter'[r].at = "claim"
             /\ reporter'[r].sale \in Sales /\ reporter'[r].retries = {}
  BY <1>e1, <1>e2, NextTurn DEF ReportInv
<1>1. EventsHaveAYes'
  BY <1>i, <1>e2, <1>e3 DEF EventsHaveAYes, ReportersAtWork, InHand, Sendable, Filed
<1>2. ReportersAtWork'
  <2>1. CASE reporter'[r].kind = "none"
    BY <1>i, <1>e2, <1>e3, <2>1 DEF ReportersAtWork, EventsHaveAYes, InHandOnce, InHand, Sendable
  <2>2. CASE reporter'[r].kind # "none" /\ reporter'[r].at = "send"
    BY <1>i, <1>l, <1>e2, <1>e3 DEF ReportersAtWork, EventsHaveAYes, InHandOnce, InHand, Sendable
  <2>3. CASE reporter'[r].kind # "none" /\ reporter'[r].at = "claim"
    BY <1>i, <1>e2, <1>e3, <2>3 DEF ReportersAtWork, EventsHaveAYes, InHandOnce, InHand, Sendable
  <2> QED
    BY <1>e1, <1>e2, <1>e3, <2>1, <2>2, <2>3
<1>3. OnePass'
  BY <1>i, <1>e2, <1>e3 DEF OnePass, ReportersAtWork
<1>4. ListedAlone'
  <2>1. CASE reporter'[r].kind = "none"
    BY <1>l, <1>e2, <1>e3 DEF ListedAlone, EventsHaveAYes, ReportersAtWork, Sendable, Busy, InHand
  <2>2. CASE reporter'[r].kind # "none" /\ reporter'[r].at = "send"
    BY <1>l, <1>e2, <1>e3 DEF ListedAlone, EventsHaveAYes, ReportersAtWork, Sendable, Busy, InHand
  <2>3. CASE reporter'[r].kind # "none" /\ reporter'[r].at = "claim"
    BY <1>l, <1>e2, <1>e3 DEF ListedAlone, EventsHaveAYes, ReportersAtWork, Sendable, Busy, InHand
  <2> QED
    BY <1>e1, <1>e2, <1>e3, <2>1, <2>2, <2>3
<1>5. InHandOnce'
  <2>1. CASE reporter'[r].kind = "none"
    BY <1>i, <1>e3, <2>1 DEF InHandOnce, ReportersAtWork, InHand, Sendable
  <2>2. CASE reporter'[r].kind # "none" /\ reporter'[r].at = "send"
    <3> SUFFICES ASSUME NEW o \in Sales, NEW q \in Reporters, NEW w \in Reporters,
                        InHand(q, o)', InHand(w, o)', q # w
                 PROVE  FALSE
      BY DEF InHandOnce
    <3>1. \A v \in Reporters : v # r /\ InHand(v, o)' => InHand(v, o)
      BY <1>e1, <1>e2, <1>e3 DEF InHand
    <3>2. CASE q # r /\ w # r
      BY <1>i, <3>1, <3>2 DEF InHandOnce
    <3>3. CASE q = r \/ w = r
      <4>1. o = reporter'[r].sale
        BY <3>3 DEF InHand
      <4>2. o \in reporter[r].retries
        BY <1>e3, <2>2, <4>1
      <4>3. ~ InHand(q, o) /\ ~ InHand(w, o)
        BY <1>l, <4>2
      <4> QED
        BY <3>1, <3>3, <4>3 DEF InHand
    <3> QED
      BY <3>2, <3>3
  <2>3. CASE reporter'[r].kind # "none" /\ reporter'[r].at = "claim"
    BY <1>i, <1>e3, <2>3 DEF InHandOnce, ReportersAtWork, InHand, Sendable
  <2> QED
    BY <1>e1, <1>e2, <1>e3, <2>1, <2>2, <2>3
<1>6. CountedOnce'
  BY <1>i, <1>e1, <1>e2, <1>e3 DEF CountedOnce, TakenByMeta, InHandOnce, ReportersAtWork, Sendable, EventsHaveAYes, InHand
<1>7. NothingWithoutConsent'
  BY <1>i, <1>e2, <1>e3 DEF NothingWithoutConsent, ReportersAtWork, EventsHaveAYes, InHand, Sendable
<1>8. SendsBounded'
  BY <1>i, <1>e2, <1>e3 DEF SendsBounded, ReportersAtWork, InHand, Sendable, EventsHaveAYes
<1> QED
  BY <1>t, <1>1, <1>2, <1>3, <1>4, <1>5, <1>6, <1>7, <1>8 DEF ReportInv

\* The call to Meta: taken and answered, taken and the answer lost, or refused.
LEMMA SentReport ==
    ASSUME ReportInv, ~ReportOverlap, NEW r \in Reporters, SendToMeta(r)
    PROVE  ReportInv'
<1>t. ConversionTypeOK'
  BY ReportTyped DEF ConversionNext, ReporterMoves
<1>c. MaxSends \in Nat \ {0} /\ Consenting \subseteq Sales
  BY ConversionsAssumption
<1>y. /\ event \in [Sales -> [status : EventStatuses, attempts : Nat]]
      /\ received \in [Sales -> Nat] /\ reportFaults \in Nat
      /\ reporter \in [Reporters -> ReporterType]
  BY DEF ReportInv, ConversionTypeOK, ReporterType
<1>i. /\ EventsHaveAYes /\ ReportersAtWork /\ OnePass /\ ListedAlone
      /\ InHandOnce /\ CountedOnce /\ NothingWithoutConsent /\ SendsBounded
  BY DEF ReportInv
<1>l. \A q \in Reporters : \A p \in reporter[q].retries :
        /\ p \in Sales /\ Sendable(p) /\ reporter[q].kind = "job"
        /\ \A w \in Reporters : /\ ~ InHand(w, p)
                                /\ reporter[w].kind = "order" => reporter[w].sale # p
  BY ListedFree DEF ReportInv
<1>e1. reporter[r].at = "send" /\ reporter[r].sale \in Sales /\ reporter[r].kind # "none"
  BY <1>i DEF SendToMeta, ReportersAtWork
<1>e2. sale' = sale /\ event' = event
  BY DEF SendToMeta
<1>e3. /\ reporter'[r].kind = reporter[r].kind /\ reporter'[r].at = "record"
       /\ reporter'[r].sale = reporter[r].sale /\ reporter'[r].retries = reporter[r].retries
       /\ \A q \in Reporters : q # r => reporter'[q] = reporter[q]
  <2>1. PICK ok \in BOOLEAN : reporter' = [reporter EXCEPT ![r].at = "record", ![r].ok = ok]
    BY DEF SendToMeta
  <2>2. reporter'[r] = [reporter[r] EXCEPT !.at = "record", !.ok = reporter'[r].ok]
    BY <2>1, Retyped DEF ReportInv
  <2> QED
    <3>1. reporter[r] \in ReporterType
      BY <1>y
    <3>2. \A q \in Reporters : q # r => reporter'[q] = reporter[q]
      BY <1>y, <2>1
    <3> QED
      BY <2>2, <3>1, <3>2 DEF ReporterType
<1>e4. /\ reportFaults' \in Nat
       /\ \/ reporter'[r].ok /\ reportFaults' = reportFaults
          \/ reportFaults' = reportFaults + 1
  BY <1>y DEF SendToMeta, ReportFault, ReporterType
<1>e5. /\ \A p \in Sales : p # reporter[r].sale => received'[p] = received[p]
       /\ received'[reporter[r].sale] \in received[reporter[r].sale]..(received[reporter[r].sale] + 1)
  <2>1. \/ received' = received
        \/ received' = [received EXCEPT ![reporter[r].sale] = @ + 1]
    BY DEF SendToMeta
  <2> QED
    BY <1>y, <1>e1, <2>1
<1>1. EventsHaveAYes'
  BY <1>i, <1>e2, <1>e5 DEF EventsHaveAYes, ReportersAtWork, InHand, Sendable, Filed
<1>2. ReportersAtWork'
  BY <1>i, <1>e1, <1>e2, <1>e3 DEF ReportersAtWork, EventsHaveAYes, InHandOnce, InHand, Sendable
<1>3. OnePass'
  BY <1>i, <1>e3, <1>e5 DEF OnePass, ReportersAtWork
<1>4. ListedAlone'
  <2> SUFFICES ASSUME NEW q \in Reporters, NEW p \in reporter'[q].retries
               PROVE  Sendable(p)' /\ ~ Busy(p)'
    BY DEF ListedAlone
  <2>1. p \in reporter[q].retries
    BY <1>e3
  <2>2. Sendable(p)'
    BY <1>l, <1>e2, <2>1 DEF Sendable
  <2>3. ~ Busy(p)'
    BY <1>l, <1>e3, <2>1 DEF Busy
  <2> QED
    BY <2>2, <2>3
<1>5. InHandOnce'
  BY <1>i, <1>e1, <1>e3 DEF InHandOnce, ReportersAtWork, InHand, Sendable
<1>6. CountedOnce'
  BY <1>y, <1>i, <1>e1, <1>e2, <1>e3, <1>e4, <1>e5 DEF CountedOnce, TakenByMeta, InHandOnce, ReportersAtWork, Sendable, EventsHaveAYes, InHand
<1>7. NothingWithoutConsent'
  BY <1>i, <1>e1, <1>e5 DEF NothingWithoutConsent, ReportersAtWork, EventsHaveAYes, InHand, Sendable
<1>8. SendsBounded'
  BY <1>i, <1>e2, <1>e5 DEF SendsBounded, ReportersAtWork, InHand, Sendable, EventsHaveAYes
<1> QED
  BY <1>t, <1>1, <1>2, <1>3, <1>4, <1>5, <1>6, <1>7, <1>8 DEF ReportInv

\* The answer recorded, and the reporter's next turn.
LEMMA RecordedReport ==
    ASSUME ReportInv, ~ReportOverlap, NEW r \in Reporters, RecordReport(r)
    PROVE  ReportInv'
<1>t. ConversionTypeOK'
  BY ReportTyped DEF ConversionNext, ReporterMoves
<1>c. MaxSends \in Nat \ {0} /\ Consenting \subseteq Sales
  BY ConversionsAssumption
<1>y. /\ event \in [Sales -> [status : EventStatuses, attempts : Nat]]
      /\ received \in [Sales -> Nat] /\ reportFaults \in Nat
      /\ reporter \in [Reporters -> ReporterType]
  BY DEF ReportInv, ConversionTypeOK, ReporterType
<1>i. /\ EventsHaveAYes /\ ReportersAtWork /\ OnePass /\ ListedAlone
      /\ InHandOnce /\ CountedOnce /\ NothingWithoutConsent /\ SendsBounded
  BY DEF ReportInv
<1>l. \A q \in Reporters : \A p \in reporter[q].retries :
        /\ p \in Sales /\ Sendable(p) /\ reporter[q].kind = "job"
        /\ \A w \in Reporters : /\ ~ InHand(w, p)
                                /\ reporter[w].kind = "order" => reporter[w].sale # p
  BY ListedFree DEF ReportInv
<1>e1. reporter[r].at = "record" /\ reporter[r].sale \in Sales /\ reporter[r].kind # "none"
  BY <1>i DEF RecordReport, ReportersAtWork
<1>e2. sale' = sale /\ received' = received /\ reportFaults' = reportFaults
  BY DEF RecordReport
<1>e3. /\ event'[reporter[r].sale].status = IF reporter[r].ok THEN "SENT" ELSE "FAILED"
       /\ event'[reporter[r].sale].attempts = event[reporter[r].sale].attempts + 1
       /\ \A p \in Sales : p # reporter[r].sale => event'[p] = event[p]
  <2>1. event' = [event EXCEPT ![reporter[r].sale].status = IF reporter[r].ok THEN "SENT" ELSE "FAILED",
                               ![reporter[r].sale].attempts = @ + 1]
    BY DEF RecordReport
  <2> QED
    <3>1. ConversionTypeOK /\ (IF reporter[r].ok THEN "SENT" ELSE "FAILED") \in {"SENT", "FAILED"}
      BY DEF ReportInv
    <3>2. PICK o, status : o = reporter[r].sale /\ status = IF reporter[r].ok THEN "SENT" ELSE "FAILED"
      OBVIOUS
    <3>3. event' = [event EXCEPT ![o].status = status, ![o].attempts = @ + 1]
      BY <2>1, <3>2
    <3> QED
      BY <1>e1, <3>1, <3>2, <3>3, Recorded
<1>e4. /\ \A q \in Reporters : q # r => reporter'[q] = reporter[q]
       /\ \/ reporter'[r].kind = "none" /\ reporter'[r].at = "idle" /\ reporter'[r].retries = {}
          \/ /\ reporter[r].kind = "job" /\ reporter'[r].kind = "job" /\ reporter'[r].at = "send"
             /\ reporter'[r].sale \in reporter[r].retries
             /\ reporter'[r].retries = reporter[r].retries \ {reporter'[r].sale}
          \/ /\ reporter[r].kind = "job" /\ reporter'[r].kind = "job" /\ reporter'[r].at = "claim"
             /\ reporter'[r].sale \in Sales /\ reporter'[r].retries = {}
  BY <1>e1, NextTurn DEF RecordReport, ReportInv
<1>e5. \A q \in Reporters : reporter[r].sale \notin reporter[q].retries
  BY <1>l, <1>e1 DEF InHand
<1>1. EventsHaveAYes'
  BY <1>i, <1>e1, <1>e2, <1>e3 DEF EventsHaveAYes, ReportersAtWork, InHand, Sendable, Filed
<1>2. ReportersAtWork'
  <2>1. CASE reporter'[r].kind = "none"
    BY <1>i, <1>e1, <1>e2, <1>e3, <1>e4, <2>1 DEF ReportersAtWork, EventsHaveAYes, InHandOnce, InHand, Sendable
  <2>2. CASE reporter'[r].kind # "none" /\ reporter'[r].at = "send"
    BY <1>i, <1>l, <1>e1, <1>e2, <1>e3, <1>e4 DEF ReportersAtWork, EventsHaveAYes, InHandOnce, InHand, Sendable
  <2>3. CASE reporter'[r].kind # "none" /\ reporter'[r].at = "claim"
    BY <1>i, <1>e1, <1>e2, <1>e3, <1>e4, <2>3 DEF ReportersAtWork, EventsHaveAYes, InHandOnce, InHand, Sendable
  <2> QED
    BY <1>e1, <1>e2, <1>e3, <1>e4, <1>e5, <2>1, <2>2, <2>3
<1>3. OnePass'
  BY <1>i, <1>e4, <1>e5 DEF OnePass, ReportersAtWork
<1>4. ListedAlone'
  <2>1. CASE reporter'[r].kind = "none"
    BY <1>l, <1>e3, <1>e4, <1>e5 DEF ListedAlone, EventsHaveAYes, ReportersAtWork, Sendable, Busy, InHand
  <2>2. CASE reporter'[r].kind # "none" /\ reporter'[r].at = "send"
    BY <1>c, <1>y, <1>i, <1>l, <1>e1, <1>e2, <1>e3, <1>e4, <1>e5, <2>2, SMTT(30) DEF ListedAlone, EventsHaveAYes, ReportersAtWork, Sendable, Busy, InHand
  <2>3. CASE reporter'[r].kind # "none" /\ reporter'[r].at = "claim"
    BY <1>l, <1>e3, <1>e4, <1>e5 DEF ListedAlone, EventsHaveAYes, ReportersAtWork, Sendable, Busy, InHand
  <2> QED
    BY <1>e1, <1>e2, <1>e3, <1>e4, <1>e5, <2>1, <2>2, <2>3
<1>5. InHandOnce'
  <2>1. CASE reporter'[r].kind = "none"
    BY <1>i, <1>e4, <2>1 DEF InHandOnce, ReportersAtWork, InHand, Sendable
  <2>2. CASE reporter'[r].kind # "none" /\ reporter'[r].at = "send"
    <3> SUFFICES ASSUME NEW o \in Sales, NEW q \in Reporters, NEW w \in Reporters,
                        InHand(q, o)', InHand(w, o)', q # w
                 PROVE  FALSE
      BY DEF InHandOnce
    <3>1. \A v \in Reporters : v # r /\ InHand(v, o)' => InHand(v, o)
      BY <1>e3, <1>e4, <1>e5 DEF InHand
    <3>2. CASE q # r /\ w # r
      BY <1>i, <3>1, <3>2 DEF InHandOnce
    <3>3. CASE q = r \/ w = r
      <4>1. o = reporter'[r].sale
        BY <3>3 DEF InHand
      <4>2. o \in reporter[r].retries
        BY <1>e4, <2>2, <4>1
      <4>3. ~ InHand(q, o) /\ ~ InHand(w, o)
        BY <1>l, <4>2
      <4> QED
        BY <3>1, <3>3, <4>3 DEF InHand
    <3> QED
      BY <3>2, <3>3
  <2>3. CASE reporter'[r].kind # "none" /\ reporter'[r].at = "claim"
    BY <1>i, <1>e4, <2>3 DEF InHandOnce, ReportersAtWork, InHand, Sendable
  <2> QED
    BY <1>e1, <1>e2, <1>e3, <1>e4, <1>e5, <2>1, <2>2, <2>3
<1>6. CountedOnce'
  BY <1>i, <1>e1, <1>e2, <1>e3, <1>e4 DEF CountedOnce, TakenByMeta, InHandOnce, ReportersAtWork, Sendable, EventsHaveAYes, InHand
<1>7. NothingWithoutConsent'
  BY <1>i, <1>e2, <1>e5 DEF NothingWithoutConsent, ReportersAtWork, EventsHaveAYes, InHand, Sendable
<1>8. SendsBounded'
  BY <1>c, <1>y, <1>i, <1>l, <1>e1, <1>e2, <1>e3, <1>e4, <1>e5 DEF SendsBounded, ReportersAtWork, InHand, Sendable, EventsHaveAYes
<1> QED
  BY <1>t, <1>1, <1>2, <1>3, <1>4, <1>5, <1>6, <1>7, <1>8 DEF ReportInv

\* A pass turns to the next of its rows.
LEMMA TurnedReport ==
    ASSUME ReportInv, ~ReportOverlap, NEW r \in Reporters, NextOfJob(r)
    PROVE  ReportInv'
<1>t. ConversionTypeOK'
  BY ReportTyped DEF ConversionNext, ReporterMoves
<1>c. MaxSends \in Nat \ {0} /\ Consenting \subseteq Sales
  BY ConversionsAssumption
<1>y. /\ event \in [Sales -> [status : EventStatuses, attempts : Nat]]
      /\ received \in [Sales -> Nat] /\ reportFaults \in Nat
      /\ reporter \in [Reporters -> ReporterType]
  BY DEF ReportInv, ConversionTypeOK, ReporterType
<1>i. /\ EventsHaveAYes /\ ReportersAtWork /\ OnePass /\ ListedAlone
      /\ InHandOnce /\ CountedOnce /\ NothingWithoutConsent /\ SendsBounded
  BY DEF ReportInv
<1>l. \A q \in Reporters : \A p \in reporter[q].retries :
        /\ p \in Sales /\ Sendable(p) /\ reporter[q].kind = "job"
        /\ \A w \in Reporters : /\ ~ InHand(w, p)
                                /\ reporter[w].kind = "order" => reporter[w].sale # p
  BY ListedFree DEF ReportInv
<1>e1. reporter[r].at = "next" /\ reporter[r].kind # "none"
  BY <1>y, <1>i DEF NextOfJob, ReportersAtWork
<1>e2. sale' = sale /\ event' = event /\ received' = received /\ reportFaults' = reportFaults
  BY DEF NextOfJob
<1>e3. /\ \A q \in Reporters : q # r => reporter'[q] = reporter[q]
       /\ \/ reporter'[r].kind = "none" /\ reporter'[r].at = "idle" /\ reporter'[r].retries = {}
          \/ /\ reporter[r].kind = "job" /\ reporter'[r].kind = "job" /\ reporter'[r].at = "send"
             /\ reporter'[r].sale \in reporter[r].retries
             /\ reporter'[r].retries = reporter[r].retries \ {reporter'[r].sale}
          \/ /\ reporter[r].kind = "job" /\ reporter'[r].kind = "job" /\ reporter'[r].at = "claim"
             /\ reporter'[r].sale \in Sales /\ reporter'[r].retries = {}
  BY <1>e1, NextTurn DEF NextOfJob, ReportInv
<1>1. EventsHaveAYes'
  BY <1>i, <1>e2, <1>e3 DEF EventsHaveAYes, ReportersAtWork, InHand, Sendable, Filed
<1>2. ReportersAtWork'
  <2>1. CASE reporter'[r].kind = "none"
    BY <1>i, <1>e2, <1>e3, <2>1 DEF ReportersAtWork, EventsHaveAYes, InHandOnce, InHand, Sendable
  <2>2. CASE reporter'[r].kind # "none" /\ reporter'[r].at = "send"
    BY <1>i, <1>l, <1>e2, <1>e3 DEF ReportersAtWork, EventsHaveAYes, InHandOnce, InHand, Sendable
  <2>3. CASE reporter'[r].kind # "none" /\ reporter'[r].at = "claim"
    BY <1>i, <1>e2, <1>e3, <2>3 DEF ReportersAtWork, EventsHaveAYes, InHandOnce, InHand, Sendable
  <2> QED
    BY <1>e1, <1>e2, <1>e3, <2>1, <2>2, <2>3
<1>3. OnePass'
  BY <1>i, <1>e2, <1>e3 DEF OnePass, ReportersAtWork
<1>4. ListedAlone'
  <2>1. CASE reporter'[r].kind = "none"
    BY <1>l, <1>e2, <1>e3 DEF ListedAlone, EventsHaveAYes, ReportersAtWork, Sendable, Busy, InHand
  <2>2. CASE reporter'[r].kind # "none" /\ reporter'[r].at = "send"
    BY <1>l, <1>e2, <1>e3 DEF ListedAlone, EventsHaveAYes, ReportersAtWork, Sendable, Busy, InHand
  <2>3. CASE reporter'[r].kind # "none" /\ reporter'[r].at = "claim"
    BY <1>l, <1>e2, <1>e3 DEF ListedAlone, EventsHaveAYes, ReportersAtWork, Sendable, Busy, InHand
  <2> QED
    BY <1>e1, <1>e2, <1>e3, <2>1, <2>2, <2>3
<1>5. InHandOnce'
  <2>1. CASE reporter'[r].kind = "none"
    BY <1>i, <1>e3, <2>1 DEF InHandOnce, ReportersAtWork, InHand, Sendable
  <2>2. CASE reporter'[r].kind # "none" /\ reporter'[r].at = "send"
    <3> SUFFICES ASSUME NEW o \in Sales, NEW q \in Reporters, NEW w \in Reporters,
                        InHand(q, o)', InHand(w, o)', q # w
                 PROVE  FALSE
      BY DEF InHandOnce
    <3>1. \A v \in Reporters : v # r /\ InHand(v, o)' => InHand(v, o)
      BY <1>e1, <1>e2, <1>e3 DEF InHand
    <3>2. CASE q # r /\ w # r
      BY <1>i, <3>1, <3>2 DEF InHandOnce
    <3>3. CASE q = r \/ w = r
      <4>1. o = reporter'[r].sale
        BY <3>3 DEF InHand
      <4>2. o \in reporter[r].retries
        BY <1>e3, <2>2, <4>1
      <4>3. ~ InHand(q, o) /\ ~ InHand(w, o)
        BY <1>l, <4>2
      <4> QED
        BY <3>1, <3>3, <4>3 DEF InHand
    <3> QED
      BY <3>2, <3>3
  <2>3. CASE reporter'[r].kind # "none" /\ reporter'[r].at = "claim"
    BY <1>i, <1>e3, <2>3 DEF InHandOnce, ReportersAtWork, InHand, Sendable
  <2> QED
    BY <1>e1, <1>e2, <1>e3, <2>1, <2>2, <2>3
<1>6. CountedOnce'
  BY <1>i, <1>e1, <1>e2, <1>e3 DEF CountedOnce, TakenByMeta, InHandOnce, ReportersAtWork, Sendable, EventsHaveAYes, InHand
<1>7. NothingWithoutConsent'
  BY <1>i, <1>e2, <1>e3 DEF NothingWithoutConsent, ReportersAtWork, EventsHaveAYes, InHand, Sendable
<1>8. SendsBounded'
  BY <1>i, <1>e2, <1>e3 DEF SendsBounded, ReportersAtWork, InHand, Sendable, EventsHaveAYes
<1> QED
  BY <1>t, <1>1, <1>2, <1>3, <1>4, <1>5, <1>6, <1>7, <1>8 DEF ReportInv

\* A pass begins, with what is due and what nobody reported.
LEMMA StartedReport ==
    ASSUME ReportInv, ~ReportOverlap, NEW r \in Reporters, StartMarketingJob(r)
    PROVE  ReportInv'
<1>t. ConversionTypeOK'
  BY ReportTyped DEF ConversionNext, ReporterMoves
<1>c. MaxSends \in Nat \ {0} /\ Consenting \subseteq Sales
  BY ConversionsAssumption
<1>y. /\ event \in [Sales -> [status : EventStatuses, attempts : Nat]]
      /\ received \in [Sales -> Nat] /\ reportFaults \in Nat
      /\ reporter \in [Reporters -> ReporterType]
  BY DEF ReportInv, ConversionTypeOK, ReporterType
<1>i. /\ EventsHaveAYes /\ ReportersAtWork /\ OnePass /\ ListedAlone
      /\ InHandOnce /\ CountedOnce /\ NothingWithoutConsent /\ SendsBounded
  BY DEF ReportInv
<1>l. \A q \in Reporters : \A p \in reporter[q].retries :
        /\ p \in Sales /\ Sendable(p) /\ reporter[q].kind = "job"
        /\ \A w \in Reporters : /\ ~ InHand(w, p)
                                /\ reporter[w].kind = "order" => reporter[w].sale # p
  BY ListedFree DEF ReportInv
<1>e1. sale' = sale /\ event' = event /\ received' = received /\ reportFaults' = reportFaults
  BY DEF StartMarketingJob
<1>e2. reporter[r].kind = "none" /\ reporter[r].at = "idle" /\ reporter[r].retries = {}
  BY DEF StartMarketingJob, NoReport
<1>e3. \A q \in Reporters : reporter[q].kind # "job"
  BY DEF StartMarketingJob, JobRunning
<1>e4. \A q \in Reporters : q # r => reporter'[q] = reporter[q]
  BY <1>y DEF StartMarketingJob
<1>e5. reporter'[r].kind = "job" /\ reporter'[r].at = "next" /\ reporter'[r].retries = EventsDue
  BY <1>y DEF StartMarketingJob, NoReport
<1>e6. \A p \in EventsDue : p \in Sales /\ Sendable(p) /\ ~ Busy(p)
  BY DEF EventsDue, Sendable
<1>1. EventsHaveAYes'
  BY <1>i, <1>e1, <1>e5 DEF EventsHaveAYes, ReportersAtWork, InHand, Sendable, Filed
<1>2. ReportersAtWork'
  BY <1>i, <1>e1, <1>e4, <1>e5 DEF ReportersAtWork, EventsHaveAYes, InHandOnce, InHand, Sendable
<1>3. OnePass'
  BY <1>e3, <1>e4, <1>e5 DEF OnePass, ReportersAtWork
<1>4. ListedAlone'
  <2> SUFFICES ASSUME NEW q \in Reporters, NEW p \in reporter'[q].retries
               PROVE  Sendable(p)' /\ ~ Busy(p)'
    BY DEF ListedAlone
  <2>1. q = r /\ p \in EventsDue
    BY <1>l, <1>e3, <1>e4, <1>e5
  <2>2. Sendable(p)'
    BY <1>e1, <1>e6, <2>1 DEF Sendable
  <2>3. ~ Busy(p)'
    BY <1>e4, <1>e5, <1>e6, <2>1 DEF Busy
  <2> QED
    BY <2>2, <2>3
<1>5. InHandOnce'
  BY <1>i, <1>e4, <1>e5 DEF InHandOnce, ReportersAtWork, InHand, Sendable
<1>6. CountedOnce'
  BY <1>i, <1>e1, <1>e2, <1>e4, <1>e5 DEF CountedOnce, TakenByMeta, InHandOnce, ReportersAtWork, Sendable, EventsHaveAYes, InHand
<1>7. NothingWithoutConsent'
  BY <1>i, <1>e1, <1>e5 DEF NothingWithoutConsent, ReportersAtWork, EventsHaveAYes, InHand, Sendable
<1>8. SendsBounded'
  BY <1>i, <1>e1, <1>e5 DEF SendsBounded, ReportersAtWork, InHand, Sendable, EventsHaveAYes
<1> QED
  BY <1>t, <1>1, <1>2, <1>3, <1>4, <1>5, <1>6, <1>7, <1>8 DEF ReportInv

\* A reporter dies: a fault, and nothing of its own left.
LEMMA DroppedReport ==
    ASSUME ReportInv, ~ReportOverlap, NEW r \in Reporters, ReporterDies(r)
    PROVE  ReportInv'
<1>t. ConversionTypeOK'
  BY ReportTyped DEF ConversionNext, ReporterMoves
<1>c. MaxSends \in Nat \ {0} /\ Consenting \subseteq Sales
  BY ConversionsAssumption
<1>y. /\ event \in [Sales -> [status : EventStatuses, attempts : Nat]]
      /\ received \in [Sales -> Nat] /\ reportFaults \in Nat
      /\ reporter \in [Reporters -> ReporterType]
  BY DEF ReportInv, ConversionTypeOK, ReporterType
<1>i. /\ EventsHaveAYes /\ ReportersAtWork /\ OnePass /\ ListedAlone
      /\ InHandOnce /\ CountedOnce /\ NothingWithoutConsent /\ SendsBounded
  BY DEF ReportInv
<1>l. \A q \in Reporters : \A p \in reporter[q].retries :
        /\ p \in Sales /\ Sendable(p) /\ reporter[q].kind = "job"
        /\ \A w \in Reporters : /\ ~ InHand(w, p)
                                /\ reporter[w].kind = "order" => reporter[w].sale # p
  BY ListedFree DEF ReportInv
<1>e1. sale' = sale /\ event' = event /\ received' = received
  BY DEF ReporterDies
<1>e2. reportFaults' = reportFaults + 1
  BY DEF ReporterDies, ReportFault
<1>e3. \A q \in Reporters : q # r => reporter'[q] = reporter[q]
  BY <1>y DEF ReporterDies
<1>e4. reporter'[r].kind = "none" /\ reporter'[r].at = "idle" /\ reporter'[r].retries = {}
  BY <1>y DEF ReporterDies, NoReport
<1>1. EventsHaveAYes'
  BY <1>i, <1>e1, <1>e4 DEF EventsHaveAYes, ReportersAtWork, InHand, Sendable, Filed
<1>2. ReportersAtWork'
  BY <1>i, <1>e1, <1>e3, <1>e4 DEF ReportersAtWork, EventsHaveAYes, InHandOnce, InHand, Sendable
<1>3. OnePass'
  BY <1>i, <1>e3, <1>e4 DEF OnePass, ReportersAtWork
<1>4. ListedAlone'
  BY <1>l, <1>e1, <1>e3, <1>e4 DEF ListedAlone, EventsHaveAYes, ReportersAtWork, Sendable, Busy, InHand
<1>5. InHandOnce'
  BY <1>i, <1>e3, <1>e4 DEF InHandOnce, ReportersAtWork, InHand, Sendable
<1>6. CountedOnce'
  BY <1>y, <1>i, <1>e1, <1>e2 DEF CountedOnce, TakenByMeta, InHandOnce, ReportersAtWork, Sendable, EventsHaveAYes, InHand
<1>7. NothingWithoutConsent'
  BY <1>i, <1>e1, <1>e4 DEF NothingWithoutConsent, ReportersAtWork, EventsHaveAYes, InHand, Sendable
<1>8. SendsBounded'
  BY <1>i, <1>e1, <1>e4 DEF SendsBounded, ReportersAtWork, InHand, Sendable, EventsHaveAYes
<1> QED
  BY <1>t, <1>1, <1>2, <1>3, <1>4, <1>5, <1>6, <1>7, <1>8 DEF ReportInv

LEMMA ReportStep ==
    ASSUME ReportInv, ~ReportOverlap, ConversionNext \/ UNCHANGED conversionVars
    PROVE  ReportInv'
<1>1. CASE ConversionNext
  BY <1>1, PlacedReport, FiledReport, ClaimedReport, PassedReport, SentReport, RecordedReport,
     TurnedReport, StartedReport, DroppedReport DEF ConversionNext, ReporterMoves
<1>2. CASE UNCHANGED conversionVars
  BY <1>2 DEF conversionVars, ReportInv, ConversionTypeOK, EventsHaveAYes, ReportersAtWork,
     OnePass, ListedAlone, InHandOnce, CountedOnce, NothingWithoutConsent, SendsBounded,
     InHand, Sendable, Busy, TakenByMeta
<1> QED
  BY <1>1, <1>2

LEMMA ReportInit == ConversionInit => ReportInv
<1> SUFFICES ASSUME ConversionInit PROVE ReportInv
  OBVIOUS
<1>0. MaxSends \in Nat \ {0}
  BY ConversionsAssumption
<1>1. ConversionTypeOK
  BY DEF ConversionInit, ConversionTypeOK, NoReport, EventStatuses
<1>2. /\ \A o \in Sales : event[o] = [status |-> "none", attempts |-> 0] /\ received[o] = 0
      /\ \A r \in Reporters : /\ reporter[r].at = "idle" /\ reporter[r].kind = "none"
                              /\ reporter[r].retries = {}
      /\ reportFaults = 0
  BY DEF ConversionInit, NoReport
<1> QED
  BY <1>0, <1>1, <1>2 DEF ReportInv, EventsHaveAYes, ReportersAtWork, OnePass, ListedAlone,
     InHandOnce, CountedOnce, NothingWithoutConsent, SendsBounded, InHand

\* What was reported is at no reporter any more, and on nobody's list.
LEMMA ReportStays ==
    ASSUME ReportInv, ConversionNext, NEW o \in Sales, event[o].status = "SENT"
    PROVE  event'[o].status = "SENT" /\ received'[o] = received[o]
<1>1. /\ event \in [Sales -> [status : EventStatuses, attempts : Nat]]
      /\ received \in [Sales -> Nat] /\ reporter \in [Reporters -> ReporterType]
  BY DEF ReportInv, ConversionTypeOK, ReporterType
<1>2. \A r \in Reporters : reporter[r].at \in {"send", "record"} => reporter[r].sale # o
  BY DEF ReportInv, ReportersAtWork, InHand, Sendable
<1>3. o \in Consenting
  BY DEF ReportInv, EventsHaveAYes
<1>4. ASSUME NEW r \in Reporters, FileSale(r)
      PROVE  event'[o] = event[o] /\ received' = received
  BY <1>1, <1>3, <1>4 DEF FileSale
<1>5. ASSUME NEW r \in Reporters, ClaimEvent(r)
      PROVE  event'[o] = event[o] /\ received' = received
  BY <1>1, <1>5 DEF ClaimEvent
<1>6. ASSUME NEW r \in Reporters, SendToMeta(r)
      PROVE  event' = event /\ received'[o] = received[o]
  BY <1>1, <1>2, <1>6 DEF SendToMeta
<1>7. ASSUME NEW r \in Reporters, RecordReport(r)
      PROVE  event'[o] = event[o] /\ received' = received
  BY <1>1, <1>2, <1>7 DEF RecordReport
<1>8. ASSUME NEW r \in Reporters,
             NextOfJob(r) \/ StartMarketingJob(r) \/ ReporterDies(r) \/ \E p \in Sales : PlaceSale(r, p)
      PROVE  event' = event /\ received' = received
  BY <1>8 DEF NextOfJob, StartMarketingJob, ReporterDies, PlaceSale
<1> QED
  BY <1>4, <1>5, <1>6, <1>7, <1>8 DEF ConversionNext, ReporterMoves

-----------------------------------------------------------------------------
(* Media: what is doomed is used nowhere, and what is READY is stored.     *)

CleanerType == [at : {"idle", "rows", "objects"}, doomed : SUBSET Files]

LEMMA NotCleaning == NoCleaning \in CleanerType /\ NoCleaning.at = "idle"
BY DEF NoCleaning, CleanerType

LEMMA CleanerMoved ==
    ASSUME MediaTypeOK, NEW c \in Cleaners, NEW call \in CleanerType, cleaner' = [cleaner EXCEPT ![c] = call]
    PROVE  /\ cleaner' \in [Cleaners -> CleanerType] /\ cleaner'[c] = call
           /\ \A d \in Cleaners : d # c => cleaner'[d] = cleaner[d]
BY DEF MediaTypeOK, CleanerType

LEMMA CleanerDone ==
    ASSUME MediaTypeOK, NEW c \in Cleaners, cleaner' = [cleaner EXCEPT ![c] = NoCleaning]
    PROVE  /\ cleaner' \in [Cleaners -> CleanerType] /\ cleaner'[c].at = "idle"
           /\ \A d \in Cleaners : d # c => cleaner'[d] = cleaner[d]
BY NotCleaning, CleanerMoved

\* A file's row is given a status.
LEMMA MediaMoved ==
    ASSUME MediaTypeOK, NEW f \in Files, NEW status \in {"none", "PENDING", "READY", "FAILED", "deleted"},
           media' = [media EXCEPT ![f].status = status]
    PROVE  /\ media' \in [Files -> MediaRows] /\ media'[f].status = status
           /\ \A g \in Files : g # f => media'[g] = media[g]
BY DEF MediaTypeOK, MediaRows

\* An upload is begun.
LEMMA UploadPresigned ==
    ASSUME MediaInv, ~MediaOverlap, UseKinds \subseteq CountedUses, NEW f \in Files, PresignMedia(f)
    PROVE  MediaInv'
<1>y. /\ media \in [Files -> MediaRows] /\ stored \subseteq Files /\ uses \in [Files -> SUBSET UseKinds]
      /\ cleaner \in [Cleaners -> CleanerType] /\ storeFaults \in Nat
  BY DEF MediaInv, MediaTypeOK, CleanerType
<1>s. \A g \in Files : uses[g] \subseteq UseKinds
  BY <1>y
<1>d. \A w \in Cleaners : cleaner[w].doomed \subseteq Files
  BY <1>y DEF CleanerType
<1>i. MediaTypeOK /\ OneCleaner /\ DoomedIsUnused /\ ReadyIsStored
  BY DEF MediaInv
<1>e1. stored' = stored /\ uses' = uses /\ cleaner' = cleaner /\ storeFaults' = storeFaults /\ media[f].status = "none"
  BY DEF PresignMedia
<1>e2. /\ media' \in [Files -> MediaRows] /\ media'[f].status = "PENDING"
       /\ \A h \in Files : h # f => media'[h] = media[h]
  BY <1>i, MediaMoved DEF PresignMedia
<1>1. MediaTypeOK'
  BY <1>i, <1>e1, <1>e2 DEF MediaTypeOK, CleanerType
<1>2. OneCleaner'
  BY <1>d, <1>i, <1>e1 DEF OneCleaner
<1>3. DoomedIsUnused'
  BY <1>d, <1>i, <1>e1, <1>e2 DEF DoomedIsUnused
<1>4. ReadyIsStored'
  BY <1>i, <1>e1, <1>e2 DEF ReadyIsStored
<1> QED
  BY <1>1, <1>2, <1>3, <1>4 DEF MediaInv

\* The bytes are in the bucket.
LEMMA BytesUploaded ==
    ASSUME MediaInv, ~MediaOverlap, UseKinds \subseteq CountedUses, NEW f \in Files, BrowserUploads(f)
    PROVE  MediaInv'
<1>y. /\ media \in [Files -> MediaRows] /\ stored \subseteq Files /\ uses \in [Files -> SUBSET UseKinds]
      /\ cleaner \in [Cleaners -> CleanerType] /\ storeFaults \in Nat
  BY DEF MediaInv, MediaTypeOK, CleanerType
<1>s. \A g \in Files : uses[g] \subseteq UseKinds
  BY <1>y
<1>d. \A w \in Cleaners : cleaner[w].doomed \subseteq Files
  BY <1>y DEF CleanerType
<1>i. MediaTypeOK /\ OneCleaner /\ DoomedIsUnused /\ ReadyIsStored
  BY DEF MediaInv
<1>e1. media' = media /\ uses' = uses /\ cleaner' = cleaner /\ storeFaults' = storeFaults /\ stored' = stored \cup {f}
  BY DEF BrowserUploads
<1>1. MediaTypeOK'
  BY <1>d, <1>i, <1>e1 DEF MediaTypeOK, CleanerType
<1>2. OneCleaner'
  BY <1>d, <1>i, <1>e1 DEF OneCleaner
<1>3. DoomedIsUnused'
  BY <1>d, <1>i, <1>e1 DEF DoomedIsUnused
<1>4. ReadyIsStored'
  BY <1>s, <1>i, <1>e1 DEF ReadyIsStored
<1> QED
  BY <1>1, <1>2, <1>3, <1>4 DEF MediaInv

\* The bucket is asked.
LEMMA UploadCompleted ==
    ASSUME MediaInv, ~MediaOverlap, UseKinds \subseteq CountedUses, NEW f \in Files, CompleteMedia(f)
    PROVE  MediaInv'
<1>y. /\ media \in [Files -> MediaRows] /\ stored \subseteq Files /\ uses \in [Files -> SUBSET UseKinds]
      /\ cleaner \in [Cleaners -> CleanerType] /\ storeFaults \in Nat
  BY DEF MediaInv, MediaTypeOK, CleanerType
<1>s. \A g \in Files : uses[g] \subseteq UseKinds
  BY <1>y
<1>d. \A w \in Cleaners : cleaner[w].doomed \subseteq Files
  BY <1>y DEF CleanerType
<1>i. MediaTypeOK /\ OneCleaner /\ DoomedIsUnused /\ ReadyIsStored
  BY DEF MediaInv
<1>e1. stored' = stored /\ uses' = uses /\ cleaner' = cleaner /\ storeFaults' = storeFaults
  BY DEF CompleteMedia
<1>e2. \A d \in Cleaners : cleaner[d].at = "idle"
  BY DEF CompleteMedia, MayTouchMedia, Cleaning, NoCleaning
<1>e3. (IF Landed(f) THEN "READY" ELSE "FAILED") \in {"READY", "FAILED"} /\ ((IF Landed(f) THEN "READY" ELSE "FAILED") = "READY" <=> f \in stored)
  BY DEF Landed
<1>e4. /\ media' \in [Files -> MediaRows] /\ media'[f].status \in {"READY", "FAILED"}
       /\ media'[f].status = "READY" <=> f \in stored
       /\ \A h \in Files : h # f => media'[h] = media[h]
  BY <1>i, <1>e3, MediaMoved DEF CompleteMedia
<1>e5. media[f].status = "READY" => f \in stored
  BY <1>i DEF ReadyIsStored
<1>1. MediaTypeOK'
  BY <1>i, <1>e1, <1>e4 DEF MediaTypeOK, CleanerType
<1>2. OneCleaner'
  BY <1>i, <1>e1, <1>e2 DEF OneCleaner
<1>3. DoomedIsUnused'
  BY <1>e1, <1>e2, <1>e5 DEF DoomedIsUnused
<1>4. ReadyIsStored'
  BY <1>i, <1>e1, <1>e4 DEF ReadyIsStored
<1> QED
  BY <1>1, <1>2, <1>3, <1>4 DEF MediaInv

\* The fetcher of an import stores the object and makes its row.
LEMMA ImageFetched ==
    ASSUME MediaInv, ~MediaOverlap, UseKinds \subseteq CountedUses, NEW f \in Files, FetchedImage(f)
    PROVE  MediaInv'
<1>y. /\ media \in [Files -> MediaRows] /\ stored \subseteq Files /\ uses \in [Files -> SUBSET UseKinds]
      /\ cleaner \in [Cleaners -> CleanerType] /\ storeFaults \in Nat
  BY DEF MediaInv, MediaTypeOK, CleanerType
<1>s. \A g \in Files : uses[g] \subseteq UseKinds
  BY <1>y
<1>d. \A w \in Cleaners : cleaner[w].doomed \subseteq Files
  BY <1>y DEF CleanerType
<1>i. MediaTypeOK /\ OneCleaner /\ DoomedIsUnused /\ ReadyIsStored
  BY DEF MediaInv
<1>e1. uses' = uses /\ cleaner' = cleaner /\ storeFaults' = storeFaults /\ stored' = stored \cup {f} /\ media[f].status = "none"
  BY DEF FetchedImage
<1>e2. /\ media' \in [Files -> MediaRows] /\ media'[f].status = "READY"
       /\ \A h \in Files : h # f => media'[h] = media[h]
  BY <1>i, MediaMoved DEF FetchedImage
<1>1. MediaTypeOK'
  BY <1>i, <1>e1, <1>e2 DEF MediaTypeOK, CleanerType
<1>2. OneCleaner'
  BY <1>d, <1>i, <1>e1 DEF OneCleaner
<1>3. DoomedIsUnused'
  BY <1>d, <1>i, <1>e1, <1>e2 DEF DoomedIsUnused
<1>4. ReadyIsStored'
  BY <1>i, <1>e1, <1>e2 DEF ReadyIsStored
<1> QED
  BY <1>1, <1>2, <1>3, <1>4 DEF MediaInv

\* A file is used somewhere.
LEMMA MediaAttached ==
    ASSUME MediaInv, ~MediaOverlap, UseKinds \subseteq CountedUses, NEW f \in Files, NEW kind \in UseKinds, AttachMedia(f, kind)
    PROVE  MediaInv'
<1>y. /\ media \in [Files -> MediaRows] /\ stored \subseteq Files /\ uses \in [Files -> SUBSET UseKinds]
      /\ cleaner \in [Cleaners -> CleanerType] /\ storeFaults \in Nat
  BY DEF MediaInv, MediaTypeOK, CleanerType
<1>s. \A g \in Files : uses[g] \subseteq UseKinds
  BY <1>y
<1>d. \A w \in Cleaners : cleaner[w].doomed \subseteq Files
  BY <1>y DEF CleanerType
<1>i. MediaTypeOK /\ OneCleaner /\ DoomedIsUnused /\ ReadyIsStored
  BY DEF MediaInv
<1>e1. media' = media /\ stored' = stored /\ cleaner' = cleaner /\ storeFaults' = storeFaults /\ media[f].status = "READY"
  BY DEF AttachMedia
<1>e2. \A d \in Cleaners : cleaner[d].at = "idle"
  BY DEF AttachMedia, MayTouchMedia, Cleaning, NoCleaning
<1>e3. uses' \in [Files -> SUBSET UseKinds] /\ \A h \in Files : h # f => uses'[h] = uses[h]
  BY <1>y DEF AttachMedia
<1>1. MediaTypeOK'
  BY <1>i, <1>e1, <1>e3 DEF MediaTypeOK, CleanerType
<1>2. OneCleaner'
  BY <1>i, <1>e1, <1>e2 DEF OneCleaner
<1>3. DoomedIsUnused'
  BY <1>e1, <1>e2, <1>e3 DEF DoomedIsUnused
<1>4. ReadyIsStored'
  BY <1>i, <1>e1, <1>e3 DEF ReadyIsStored
<1> QED
  BY <1>1, <1>2, <1>3, <1>4 DEF MediaInv

\* A use ends.
LEMMA MediaDetached ==
    ASSUME MediaInv, ~MediaOverlap, UseKinds \subseteq CountedUses, NEW f \in Files, NEW kind \in UseKinds, DetachMedia(f, kind)
    PROVE  MediaInv'
<1>y. /\ media \in [Files -> MediaRows] /\ stored \subseteq Files /\ uses \in [Files -> SUBSET UseKinds]
      /\ cleaner \in [Cleaners -> CleanerType] /\ storeFaults \in Nat
  BY DEF MediaInv, MediaTypeOK, CleanerType
<1>s. \A g \in Files : uses[g] \subseteq UseKinds
  BY <1>y
<1>d. \A w \in Cleaners : cleaner[w].doomed \subseteq Files
  BY <1>y DEF CleanerType
<1>i. MediaTypeOK /\ OneCleaner /\ DoomedIsUnused /\ ReadyIsStored
  BY DEF MediaInv
<1>e1. media' = media /\ stored' = stored /\ cleaner' = cleaner /\ storeFaults' = storeFaults /\ uses[f] # {}
  BY DEF DetachMedia
<1>e2. /\ uses' \in [Files -> SUBSET UseKinds]
       /\ \A h \in Files : uses'[h] \subseteq uses[h]
  BY <1>y DEF DetachMedia
<1>e3. \A h \in Files : uses'[h] # {} => uses[h] # {}
  BY <1>e2
<1>1. MediaTypeOK'
  BY <1>i, <1>e1, <1>e2 DEF MediaTypeOK, CleanerType
<1>2. OneCleaner'
  BY <1>d, <1>i, <1>e1 DEF OneCleaner
<1>3. DoomedIsUnused'
  BY <1>d, <1>i, <1>e1, <1>e3 DEF DoomedIsUnused
<1>4. ReadyIsStored'
  BY <1>i, <1>e1, <1>e3 DEF ReadyIsStored
<1> QED
  BY <1>1, <1>2, <1>3, <1>4 DEF MediaInv

\* What nothing uses is to be deleted, when no other deletion is at work.
LEMMA CleaningBegun ==
    ASSUME MediaInv, ~MediaOverlap, UseKinds \subseteq CountedUses, NEW c \in Cleaners, NEW doomed \in SUBSET Files, StartCleaning(c, doomed),
           \A f \in doomed : media[f].status # "none" /\ uses[f] = {}
    PROVE  MediaInv'
<1>y. /\ media \in [Files -> MediaRows] /\ stored \subseteq Files /\ uses \in [Files -> SUBSET UseKinds]
      /\ cleaner \in [Cleaners -> CleanerType] /\ storeFaults \in Nat
  BY DEF MediaInv, MediaTypeOK, CleanerType
<1>s. \A g \in Files : uses[g] \subseteq UseKinds
  BY <1>y
<1>d. \A w \in Cleaners : cleaner[w].doomed \subseteq Files
  BY <1>y DEF CleanerType
<1>i. MediaTypeOK /\ OneCleaner /\ DoomedIsUnused /\ ReadyIsStored
  BY DEF MediaInv
<1>e1. media' = media /\ stored' = stored /\ uses' = uses /\ storeFaults' = storeFaults
  BY DEF StartCleaning
<1>e2. \A d \in Cleaners : cleaner[d].at = "idle"
  BY DEF StartCleaning, Cleaning, NoCleaning
<1>e3. /\ cleaner' \in [Cleaners -> CleanerType]
       /\ \A d \in Cleaners : d # c => cleaner'[d] = cleaner[d]
       /\ cleaner'[c].at = "rows" /\ cleaner'[c].doomed = doomed
  <2> DEFINE call == [at |-> "rows", doomed |-> doomed]
  <2>1. call \in CleanerType /\ call.at = "rows" /\ call.doomed = doomed
    BY DEF CleanerType
  <2>2. cleaner' = [cleaner EXCEPT ![c] = call]
    BY DEF StartCleaning
  <2> HIDE DEF call
  <2> QED
    BY <1>i, <2>1, <2>2, CleanerMoved
<1>1. MediaTypeOK'
  BY <1>i, <1>e1, <1>e3 DEF MediaTypeOK, CleanerType
<1>2. OneCleaner'
  BY <1>e1, <1>e2, <1>e3 DEF OneCleaner
<1>3. DoomedIsUnused'
  BY <1>e1, <1>e2, <1>e3 DEF DoomedIsUnused
<1>4. ReadyIsStored'
  BY <1>s, <1>i, <1>e1 DEF ReadyIsStored
<1> QED
  BY <1>1, <1>2, <1>3, <1>4 DEF MediaInv

\* The rows go, and their uses with them.
LEMMA RowsDeleted ==
    ASSUME MediaInv, ~MediaOverlap, UseKinds \subseteq CountedUses, NEW c \in Cleaners, DeleteRows(c)
    PROVE  MediaInv'
<1>y. /\ media \in [Files -> MediaRows] /\ stored \subseteq Files /\ uses \in [Files -> SUBSET UseKinds]
      /\ cleaner \in [Cleaners -> CleanerType] /\ storeFaults \in Nat
  BY DEF MediaInv, MediaTypeOK, CleanerType
<1>s. \A g \in Files : uses[g] \subseteq UseKinds
  BY <1>y
<1>d. \A w \in Cleaners : cleaner[w].doomed \subseteq Files
  BY <1>y DEF CleanerType
<1>i. MediaTypeOK /\ OneCleaner /\ DoomedIsUnused /\ ReadyIsStored
  BY DEF MediaInv
<1>e1. stored' = stored /\ storeFaults' = storeFaults /\ cleaner[c].at = "rows"
  BY DEF DeleteRows
<1>e2. \A f \in cleaner[c].doomed : f \in Files /\ uses[f] = {} /\ media[f].status # "none"
  BY <1>y, <1>i, <1>e1 DEF DoomedIsUnused, CleanerType
<1>e3. /\ cleaner' \in [Cleaners -> CleanerType]
       /\ \A d \in Cleaners : d # c => cleaner'[d] = cleaner[d]
       /\ \/ cleaner'[c].at = "idle"
          \/ cleaner'[c].at = "objects" /\ cleaner'[c].doomed = cleaner[c].doomed
  <2>1. [cleaner[c] EXCEPT !.at = "objects"] \in CleanerType
    BY <1>y DEF CleanerType
  <2>2. /\ [cleaner[c] EXCEPT !.at = "objects"].at = "objects"
        /\ [cleaner[c] EXCEPT !.at = "objects"].doomed = cleaner[c].doomed
    BY <1>y DEF CleanerType
  <2>3. CASE cleaner' = [cleaner EXCEPT ![c] = NoCleaning]
    BY <1>i, <2>3, CleanerDone
  <2>4. CASE cleaner' = [cleaner EXCEPT ![c] = [cleaner[c] EXCEPT !.at = "objects"]]
    BY <1>i, <2>1, <2>2, <2>4, CleanerMoved
  <2> QED
    BY <2>3, <2>4 DEF DeleteRows
<1>e4. /\ media' \in [Files -> MediaRows] /\ uses' \in [Files -> SUBSET UseKinds]
       /\ \A f \in Files : uses'[f] \subseteq uses[f]
       /\ \A f \in Files : f \notin cleaner[c].doomed => media'[f] = media[f] /\ uses'[f] = uses[f]
       /\ cleaner'[c].at = "objects" => \A f \in cleaner[c].doomed : media'[f].status = "deleted"
       /\ cleaner'[c].at = "idle" => media' = media /\ uses' = uses
  <2> DEFINE gone == {f \in cleaner[c].doomed : Present(f)}
  <2>1. CASE \E f \in gone : HeldByForeignKey(f)
    <3>1. media' = media /\ uses' = uses /\ cleaner' = [cleaner EXCEPT ![c] = NoCleaning]
      BY <2>1 DEF DeleteRows
    <3>2. cleaner'[c].at = "idle"
      BY <1>i, <3>1, CleanerDone
    <3> QED
      BY <1>y, <3>1, <3>2
  <2>2. CASE ~ \E f \in gone : HeldByForeignKey(f)
    <3>1. /\ media' = [f \in Files |-> IF f \in gone THEN [media[f] EXCEPT !.status = "deleted"] ELSE media[f]]
          /\ uses' = [f \in Files |-> IF f \in gone THEN uses[f] \cap {"badge"} ELSE uses[f]]
          /\ cleaner' = [cleaner EXCEPT ![c] = [cleaner[c] EXCEPT !.at = "objects"]]
      BY <1>y, <2>2 DEF DeleteRows
    <3>2. cleaner'[c].at = "objects"
      BY <1>y, <3>1 DEF CleanerType
    <3>3. ASSUME NEW f \in Files
          PROVE  /\ media'[f] \in MediaRows
                 /\ f \in gone => media'[f].status = "deleted"
                 /\ f \notin gone => media'[f] = media[f]
      <4> DEFINE row == [media[f] EXCEPT !.status = "deleted"]
      <4>1. row \in MediaRows /\ row.status = "deleted"
        BY <1>y DEF MediaRows
      <4>2. media'[f] = IF f \in gone THEN row ELSE media[f]
        BY <3>1
      <4> HIDE DEF row
      <4> QED
        BY <1>y, <4>1, <4>2
    <3>4. media' = [f \in Files |-> media'[f]]
      BY <3>1
    <3>5. media' \in [Files -> MediaRows]
      BY <3>3, <3>4, Zenon
    <3>6. /\ uses' \in [Files -> SUBSET UseKinds]
          /\ \A f \in Files : uses'[f] \subseteq uses[f] /\ (f \notin gone => uses'[f] = uses[f])
      BY <1>y, <3>1
    <3>7. \A f \in cleaner[c].doomed : f \notin gone => media[f].status = "deleted"
      BY <1>y, <1>e2 DEF Present, MediaRows
    <3> HIDE DEF gone
    <3>8. \A f \in cleaner[c].doomed : media'[f].status = "deleted"
      BY <1>e2, <3>3, <3>7
    <3>9. \A f \in Files : f \notin cleaner[c].doomed => f \notin gone
      BY DEF gone
    <3> QED
      BY <3>2, <3>3, <3>5, <3>6, <3>8, <3>9
  <2> QED
    BY <2>1, <2>2
<1>1. MediaTypeOK'
  BY <1>y, <1>s, <1>d, <1>i, <1>e1, <1>e2, <1>e3, <1>e4 DEF MediaTypeOK, CleanerType
<1>2. OneCleaner'
  BY <1>i, <1>e1, <1>e3 DEF OneCleaner
<1>3. DoomedIsUnused'
  BY <1>i, <1>e1, <1>e2, <1>e3, <1>e4 DEF DoomedIsUnused, OneCleaner
<1>4. ReadyIsStored'
  <2> SUFFICES ASSUME NEW f \in Files
               PROVE  /\ media'[f].status = "READY" => f \in stored
                      /\ uses'[f] # {} => media'[f].status = "READY"
    BY <1>e1 DEF ReadyIsStored
  <2>1. CASE f \in cleaner[c].doomed
    <3>1. uses'[f] = {}
      BY <1>e2, <1>e4, <2>1
    <3>2. media'[f].status = "deleted" \/ media'[f] = media[f]
      BY <1>e3, <1>e4, <2>1
    <3> QED
      BY <1>i, <3>1, <3>2 DEF ReadyIsStored
  <2>2. CASE f \notin cleaner[c].doomed
    BY <1>i, <1>e4, <2>2 DEF ReadyIsStored
  <2> QED
    BY <2>1, <2>2
<1> QED
  BY <1>1, <1>2, <1>3, <1>4 DEF MediaInv

\* The objects go, or storage would not.
LEMMA ObjectsDeleted ==
    ASSUME MediaInv, ~MediaOverlap, UseKinds \subseteq CountedUses, NEW c \in Cleaners, DeleteObjects(c)
    PROVE  MediaInv'
<1>y. /\ media \in [Files -> MediaRows] /\ stored \subseteq Files /\ uses \in [Files -> SUBSET UseKinds]
      /\ cleaner \in [Cleaners -> CleanerType] /\ storeFaults \in Nat
  BY DEF MediaInv, MediaTypeOK, CleanerType
<1>s. \A g \in Files : uses[g] \subseteq UseKinds
  BY <1>y
<1>d. \A w \in Cleaners : cleaner[w].doomed \subseteq Files
  BY <1>y DEF CleanerType
<1>i. MediaTypeOK /\ OneCleaner /\ DoomedIsUnused /\ ReadyIsStored
  BY DEF MediaInv
<1>e1. media' = media /\ uses' = uses /\ cleaner[c].at = "objects"
  BY DEF DeleteObjects
<1>e2. storeFaults' \in Nat /\ stored' \subseteq stored /\ stored \subseteq stored' \cup cleaner[c].doomed
  BY <1>y DEF DeleteObjects, StoreFault
<1>e3. /\ cleaner' \in [Cleaners -> CleanerType]
       /\ \A d \in Cleaners : d # c => cleaner'[d] = cleaner[d]
       /\ cleaner'[c].at = "idle"
  BY <1>i, CleanerDone DEF DeleteObjects
<1>e4. \A f \in cleaner[c].doomed : f \in Files /\ uses[f] = {} /\ media[f].status = "deleted"
  BY <1>y, <1>i, <1>e1 DEF DoomedIsUnused, CleanerType
<1>1. MediaTypeOK'
  BY <1>i, <1>e1, <1>e2, <1>e3 DEF MediaTypeOK, CleanerType
<1>2. OneCleaner'
  BY <1>i, <1>e3, <1>e4 DEF OneCleaner
<1>3. DoomedIsUnused'
  BY <1>i, <1>e1, <1>e3 DEF DoomedIsUnused
<1>4. ReadyIsStored'
  BY <1>i, <1>e1, <1>e2, <1>e4 DEF ReadyIsStored
<1> QED
  BY <1>1, <1>2, <1>3, <1>4 DEF MediaInv

\* The call dies.
LEMMA CleanerDied ==
    ASSUME MediaInv, ~MediaOverlap, UseKinds \subseteq CountedUses, NEW c \in Cleaners, CleanerDies(c)
    PROVE  MediaInv'
<1>y. /\ media \in [Files -> MediaRows] /\ stored \subseteq Files /\ uses \in [Files -> SUBSET UseKinds]
      /\ cleaner \in [Cleaners -> CleanerType] /\ storeFaults \in Nat
  BY DEF MediaInv, MediaTypeOK, CleanerType
<1>s. \A g \in Files : uses[g] \subseteq UseKinds
  BY <1>y
<1>d. \A w \in Cleaners : cleaner[w].doomed \subseteq Files
  BY <1>y DEF CleanerType
<1>i. MediaTypeOK /\ OneCleaner /\ DoomedIsUnused /\ ReadyIsStored
  BY DEF MediaInv
<1>e1. media' = media /\ stored' = stored /\ uses' = uses /\ storeFaults' \in Nat
  BY <1>y DEF CleanerDies, StoreFault
<1>e2. /\ cleaner' \in [Cleaners -> CleanerType]
       /\ \A d \in Cleaners : d # c => cleaner'[d] = cleaner[d]
       /\ cleaner'[c].at = "idle"
  BY <1>i, CleanerDone DEF CleanerDies
<1>1. MediaTypeOK'
  BY <1>i, <1>e1, <1>e2 DEF MediaTypeOK, CleanerType
<1>2. OneCleaner'
  BY <1>i, <1>e1, <1>e2 DEF OneCleaner
<1>3. DoomedIsUnused'
  BY <1>i, <1>e1, <1>e2 DEF DoomedIsUnused
<1>4. ReadyIsStored'
  BY <1>s, <1>i, <1>e1 DEF ReadyIsStored
<1> QED
  BY <1>1, <1>2, <1>3, <1>4 DEF MediaInv

\* Time passes.
LEMMA MediaAged ==
    ASSUME MediaInv, ~MediaOverlap, UseKinds \subseteq CountedUses, NEW f \in Files, MediaAges(f)
    PROVE  MediaInv'
<1>y. /\ media \in [Files -> MediaRows] /\ stored \subseteq Files /\ uses \in [Files -> SUBSET UseKinds]
      /\ cleaner \in [Cleaners -> CleanerType] /\ storeFaults \in Nat
  BY DEF MediaInv, MediaTypeOK, CleanerType
<1>s. \A g \in Files : uses[g] \subseteq UseKinds
  BY <1>y
<1>d. \A w \in Cleaners : cleaner[w].doomed \subseteq Files
  BY <1>y DEF CleanerType
<1>i. MediaTypeOK /\ OneCleaner /\ DoomedIsUnused /\ ReadyIsStored
  BY DEF MediaInv
<1>e1. stored' = stored /\ uses' = uses /\ cleaner' = cleaner /\ storeFaults' = storeFaults
  BY DEF MediaAges
<1>e2. media' \in [Files -> MediaRows] /\ \A h \in Files : media'[h].status = media[h].status
  BY <1>y DEF MediaAges, MediaRows
<1>1. MediaTypeOK'
  BY <1>i, <1>e1, <1>e2 DEF MediaTypeOK, CleanerType
<1>2. OneCleaner'
  BY <1>d, <1>i, <1>e1 DEF OneCleaner
<1>3. DoomedIsUnused'
  BY <1>d, <1>i, <1>e1, <1>e2 DEF DoomedIsUnused
<1>4. ReadyIsStored'
  BY <1>i, <1>e1, <1>e2 DEF ReadyIsStored
<1> QED
  BY <1>1, <1>2, <1>3, <1>4 DEF MediaInv

LEMMA MediaStep ==
    ASSUME MediaInv, ~MediaOverlap, UseKinds \subseteq CountedUses, MediaNext \/ UNCHANGED mediaVars
    PROVE  MediaInv'
<1>y. \A f \in Files : uses[f] \subseteq CountedUses /\ media[f] \in MediaRows
  BY DEF MediaInv, MediaTypeOK
<1>1. ASSUME NEW c \in Cleaners, StartCollection(c)
      PROVE  MediaInv'
  <2>1. \A f \in StalePendingMedia \cup UnreferencedMedia :
            f \in Files /\ media[f].status # "none" /\ uses[f] = {}
    BY <1>y DEF StalePendingMedia, UnreferencedMedia, CountedAsUsed, MediaInv, ReadyIsStored
  <2>2. StalePendingMedia \cup UnreferencedMedia \in SUBSET Files
    BY <2>1
  <2> QED
    BY <1>1, <2>1, <2>2, CleaningBegun DEF StartCollection
<1>2. ASSUME NEW c \in Cleaners, StartDeletion(c)
      PROVE  MediaInv'
  <2>1. PICK chosen \in SUBSET {f \in Files : Present(f)} : StartCleaning(c, {f \in chosen : ~ CountedAsUsed(f)})
    BY <1>2 DEF StartDeletion
  <2>2. \A f \in {g \in chosen : ~ CountedAsUsed(g)} : f \in Files /\ media[f].status # "none" /\ uses[f] = {}
    BY <1>y DEF CountedAsUsed, Present
  <2>3. {g \in chosen : ~ CountedAsUsed(g)} \in SUBSET Files
    BY <2>2
  <2> QED
    BY <2>1, <2>2, <2>3, CleaningBegun
<1>3. CASE MediaNext
  BY <1>1, <1>2, <1>3, UploadPresigned, BytesUploaded, UploadCompleted, ImageFetched, MediaAttached,
     MediaDetached, RowsDeleted, ObjectsDeleted, CleanerDied, MediaAged DEF MediaNext
<1>4. CASE UNCHANGED mediaVars
  BY <1>4 DEF mediaVars, MediaInv, MediaTypeOK, OneCleaner, DoomedIsUnused, ReadyIsStored
<1> QED
  BY <1>3, <1>4

LEMMA MediaBegins == MediaInit => MediaInv
<1> SUFFICES ASSUME MediaInit PROVE MediaInv
  OBVIOUS
<1>1. /\ media \in [Files -> MediaRows] /\ stored = {} /\ storeFaults = 0
      /\ uses \in [Files -> SUBSET UseKinds] /\ cleaner \in [Cleaners -> CleanerType]
      /\ \A f \in Files : media[f].status = "none" /\ uses[f] = {}
      /\ \A c \in Cleaners : cleaner[c].at = "idle"
  BY NotCleaning DEF MediaInit, MediaRows
<1>2. MediaTypeOK
  BY <1>1 DEF MediaTypeOK, CleanerType
<1> QED
  BY <1>1, <1>2 DEF MediaInv, OneCleaner, DoomedIsUnused, ReadyIsStored

LEMMA NothingIsBroken == MediaInv => NoBrokenImage
BY DEF MediaInv, ReadyIsStored, NoBrokenImage, Present

\* What is used somewhere stays.
LEMMA UsedIsKept ==
    ASSUME MediaInv, MediaNext, NEW f \in Files, Present(f), uses[f] # {}
    PROVE  media'[f].status # "deleted"
<1>y. media \in [Files -> MediaRows] /\ MediaTypeOK /\ DoomedIsUnused /\ media[f].status # "deleted"
  BY DEF MediaInv, MediaTypeOK, Present
<1>1. ASSUME NEW c \in Cleaners, DeleteRows(c)
      PROVE  media'[f] = media[f]
  <2>1. f \notin cleaner[c].doomed
    BY <1>y, <1>1 DEF DeleteRows, DoomedIsUnused
  <2> QED
    BY <1>y, <1>1, <2>1 DEF DeleteRows
<1>2. ASSUME NEW g \in Files, PresignMedia(g) \/ FetchedImage(g) \/ CompleteMedia(g)
      PROVE  media'[f].status # "deleted"
  BY <1>y, <1>2 DEF PresignMedia, FetchedImage, CompleteMedia, MediaRows
<1>3. ASSUME NEW g \in Files, MediaAges(g)
      PROVE  media'[f].status # "deleted"
  BY <1>y, <1>3 DEF MediaAges, MediaRows
<1>4. ASSUME NEW c \in Cleaners, StartCollection(c) \/ StartDeletion(c) \/ DeleteObjects(c) \/ CleanerDies(c)
      PROVE  media' = media
  BY <1>4 DEF StartCollection, StartDeletion, StartCleaning, DeleteObjects, CleanerDies
<1>5. ASSUME NEW g \in Files,
             BrowserUploads(g) \/ \E kind \in UseKinds : AttachMedia(g, kind) \/ DetachMedia(g, kind)
      PROVE  media' = media
  BY <1>5 DEF BrowserUploads, AttachMedia, DetachMedia
<1> QED
  BY <1>y, <1>1, <1>2, <1>3, <1>4, <1>5 DEF MediaNext

-----------------------------------------------------------------------------
(* Imports: the commit, the batches and the job's status take turns.       *)

TaskRow == [status : TaskStatuses, tries : 0..MaxTries]

RunnerType == [at : {"idle", "claim", "fetch"}, listed : SUBSET Products]

CommitType == [at : {"idle", "products"}, rest : SUBSET Products, queued : Nat]

\* Every product of the file shows an image of its own.
OneImageEach == \A p, q \in Products : SameImage(p, q) => p = q

LEMMA RunnerAtRest == IdleRunner \in RunnerType /\ IdleRunner.at = "idle" /\ IdleRunner.listed = {}
BY DEF IdleRunner, RunnerType

LEMMA NoCommitAtWork == NoCommit \in CommitType /\ NoCommit.at = "idle"
BY DEF NoCommit, CommitType

LEMMA RunnerMoved ==
    ASSUME ImportTypeOK, NEW r \in Runners, NEW call \in RunnerType, runner' = [runner EXCEPT ![r] = call]
    PROVE  /\ runner' \in [Runners -> RunnerType] /\ runner'[r] = call
           /\ \A s \in Runners : s # r => runner'[s] = runner[s]
BY DEF ImportTypeOK, RunnerType

LEMMA TaskMoved ==
    ASSUME ImportTypeOK, NEW p \in Products, NEW row \in TaskRow, task' = [task EXCEPT ![p] = row]
    PROVE  /\ task' \in [Products -> TaskRow] /\ task'[p] = row
           /\ \A q \in Products : q # p => task'[q] = task[q]
BY DEF ImportTypeOK, TaskRow

\* Some tasks are given a status, the others left.
LEMMA TasksMarked ==
    ASSUME ImportTypeOK, NEW some, NEW status \in TaskStatuses,
           task' = [p \in Products |-> IF p \in some THEN [task[p] EXCEPT !.status = status] ELSE task[p]]
    PROVE  /\ task' \in [Products -> TaskRow]
           /\ \A p \in Products : /\ p \notin some => task'[p] = task[p]
                                  /\ p \in some => task'[p].status = status
                                  /\ task'[p].tries = task[p].tries
<1>1. task \in [Products -> TaskRow]
  BY DEF ImportTypeOK, TaskRow
<1>2. ASSUME NEW p \in Products
      PROVE  /\ task'[p] \in TaskRow
             /\ p \notin some => task'[p] = task[p]
             /\ p \in some => task'[p].status = status
             /\ task'[p].tries = task[p].tries
  <2> DEFINE row == [task[p] EXCEPT !.status = status]
  <2>1. row \in TaskRow /\ row.status = status /\ row.tries = task[p].tries
    BY <1>1 DEF TaskRow
  <2>2. task'[p] = IF p \in some THEN row ELSE task[p]
    OBVIOUS
  <2> HIDE DEF row
  <2> QED
    BY <1>1, <2>1, <2>2
<1>3. task' = [p \in Products |-> task'[p]]
  OBVIOUS
<1>4. task' \in [Products -> TaskRow]
  BY <1>2, <1>3, Zenon
<1> QED
  BY <1>2, <1>4

\* The file is read.
LEMMA AnalysisBegun ==
    ASSUME ImportInv, ~ImportOverlap, ~Recommits, OneImageEach, StartAnalysis
    PROVE  ImportInv'
<1>c. MaxTries \in Nat \ {0}
  BY CatalogueImportAssumption
<1>k. IdleRunner.at = "idle" /\ IdleRunner.listed = {} /\ NoCommit.at = "idle" /\ NoCommit \in CommitType
  BY RunnerAtRest, NoCommitAtWork
<1>y. /\ task \in [Products -> TaskRow] /\ runner \in [Runners -> RunnerType] /\ commit \in CommitType
      /\ job \in JobStatuses /\ linked \subseteq Products /\ importFaults \in Nat
      /\ fetched \subseteq {ImageOf[q] : q \in Products}
  BY DEF ImportInv, ImportTypeOK, TaskRow, RunnerType, CommitType
<1>t. /\ \A q \in Products : task[q].status \in TaskStatuses /\ task[q].tries \in 0..MaxTries
      /\ \A s \in Runners : runner[s].listed \subseteq Products
  BY <1>y DEF TaskRow, RunnerType
<1>i. /\ ImportTypeOK /\ WaitingMayTry /\ TakingTurns /\ CommitAccounts /\ ImagesAccount /\ BatchHolds
      /\ CompletedMeansLinked
  BY DEF ImportInv
<1>e1. commit' = commit /\ task' = task /\ fetched' = fetched /\ linked' = linked /\ runner' = runner /\ importFaults' = importFaults /\ job = "UPLOADED" /\ job' = "PARSING"
  BY DEF StartAnalysis
<1>e2. job' \in JobStatuses
  BY <1>e1 DEF JobStatuses
<1>1. ImportTypeOK'
  BY <1>i, <1>e1, <1>e2 DEF ImportTypeOK, TaskRow, RunnerType, CommitType
<1>2. WaitingMayTry'
  BY <1>t, <1>i, <1>e1 DEF WaitingMayTry, Waiting
<1>3. TakingTurns'
  BY <1>i, <1>e1, <1>e2 DEF TakingTurns, RunnersIdle
<1>4. CommitAccounts'
  BY <1>i, <1>e1, <1>e2 DEF CommitAccounts
<1>5. ImagesAccount'
  BY <1>i, <1>e1, <1>e2 DEF ImagesAccount
<1>6. BatchHolds'
  BY <1>t, <1>i, <1>e1 DEF BatchHolds
<1>7. CompletedMeansLinked'
  BY <1>i, <1>e1, <1>e2 DEF CompletedMeansLinked
<1> QED
  BY <1>1, <1>2, <1>3, <1>4, <1>5, <1>6, <1>7 DEF ImportInv

\* The dry run is ready, or failed.
LEMMA AnalysisDone ==
    ASSUME ImportInv, ~ImportOverlap, ~Recommits, OneImageEach, FinishAnalysis
    PROVE  ImportInv'
<1>c. MaxTries \in Nat \ {0}
  BY CatalogueImportAssumption
<1>k. IdleRunner.at = "idle" /\ IdleRunner.listed = {} /\ NoCommit.at = "idle" /\ NoCommit \in CommitType
  BY RunnerAtRest, NoCommitAtWork
<1>y. /\ task \in [Products -> TaskRow] /\ runner \in [Runners -> RunnerType] /\ commit \in CommitType
      /\ job \in JobStatuses /\ linked \subseteq Products /\ importFaults \in Nat
      /\ fetched \subseteq {ImageOf[q] : q \in Products}
  BY DEF ImportInv, ImportTypeOK, TaskRow, RunnerType, CommitType
<1>t. /\ \A q \in Products : task[q].status \in TaskStatuses /\ task[q].tries \in 0..MaxTries
      /\ \A s \in Runners : runner[s].listed \subseteq Products
  BY <1>y DEF TaskRow, RunnerType
<1>i. /\ ImportTypeOK /\ WaitingMayTry /\ TakingTurns /\ CommitAccounts /\ ImagesAccount /\ BatchHolds
      /\ CompletedMeansLinked
  BY DEF ImportInv
<1>e1. commit' = commit /\ task' = task /\ fetched' = fetched /\ linked' = linked /\ runner' = runner /\ importFaults' = importFaults /\ job = "PARSING" /\ job' \in {"DRY_RUN_READY", "FAILED"}
  BY DEF FinishAnalysis
<1>e2. job' \in JobStatuses
  BY <1>e1 DEF JobStatuses
<1>1. ImportTypeOK'
  BY <1>i, <1>e1, <1>e2 DEF ImportTypeOK, TaskRow, RunnerType, CommitType
<1>2. WaitingMayTry'
  BY <1>t, <1>i, <1>e1 DEF WaitingMayTry, Waiting
<1>3. TakingTurns'
  BY <1>i, <1>e1, <1>e2 DEF TakingTurns, RunnersIdle
<1>4. CommitAccounts'
  BY <1>i, <1>e1, <1>e2 DEF CommitAccounts
<1>5. ImagesAccount'
  BY <1>i, <1>e1, <1>e2 DEF ImagesAccount
<1>6. BatchHolds'
  BY <1>t, <1>i, <1>e1 DEF BatchHolds
<1>7. CompletedMeansLinked'
  BY <1>i, <1>e1, <1>e2 DEF CompletedMeansLinked
<1> QED
  BY <1>1, <1>2, <1>3, <1>4, <1>5, <1>6, <1>7 DEF ImportInv

\* The commit begins, nobody else being at work.
LEMMA CommitBegun ==
    ASSUME ImportInv, ~ImportOverlap, ~Recommits, OneImageEach, StartCommit
    PROVE  ImportInv'
<1>c. MaxTries \in Nat \ {0}
  BY CatalogueImportAssumption
<1>k. IdleRunner.at = "idle" /\ IdleRunner.listed = {} /\ NoCommit.at = "idle" /\ NoCommit \in CommitType
  BY RunnerAtRest, NoCommitAtWork
<1>y. /\ task \in [Products -> TaskRow] /\ runner \in [Runners -> RunnerType] /\ commit \in CommitType
      /\ job \in JobStatuses /\ linked \subseteq Products /\ importFaults \in Nat
      /\ fetched \subseteq {ImageOf[q] : q \in Products}
  BY DEF ImportInv, ImportTypeOK, TaskRow, RunnerType, CommitType
<1>t. /\ \A q \in Products : task[q].status \in TaskStatuses /\ task[q].tries \in 0..MaxTries
      /\ \A s \in Runners : runner[s].listed \subseteq Products
  BY <1>y DEF TaskRow, RunnerType
<1>i. /\ ImportTypeOK /\ WaitingMayTry /\ TakingTurns /\ CommitAccounts /\ ImagesAccount /\ BatchHolds
      /\ CompletedMeansLinked
  BY DEF ImportInv
<1>e1. task' = task /\ fetched' = fetched /\ linked' = linked /\ runner' = runner /\ importFaults' = importFaults /\ job = "DRY_RUN_READY" /\ job' = "COMMITTING" /\ RunnersIdle
  BY DEF StartCommit
<1>e2. job' \in JobStatuses
  BY <1>e1 DEF JobStatuses
<1>e3. commit' \in CommitType /\ commit'.at = "products" /\ commit'.rest = Products /\ commit'.queued = 0
  BY DEF StartCommit, CommitType
<1>e4. \A r \in Runners : runner[r] = IdleRunner
  BY <1>e1 DEF RunnersIdle
<1>1. ImportTypeOK'
  BY <1>i, <1>e1, <1>e2, <1>e3 DEF ImportTypeOK, TaskRow, RunnerType, CommitType
<1>2. WaitingMayTry'
  BY <1>t, <1>i, <1>e1 DEF WaitingMayTry, Waiting
<1>3. TakingTurns'
  BY <1>e1, <1>e3, <1>e4 DEF TakingTurns, RunnersIdle
<1>4. CommitAccounts'
  BY <1>i, <1>e1, <1>e3 DEF CommitAccounts
<1>5. ImagesAccount'
  BY <1>i, <1>e1, <1>e2 DEF ImagesAccount
<1>6. BatchHolds'
  BY <1>i, <1>e1, <1>e4 DEF BatchHolds
<1>7. CompletedMeansLinked'
  BY <1>i, <1>e1, <1>e2 DEF CompletedMeansLinked
<1> QED
  BY <1>1, <1>2, <1>3, <1>4, <1>5, <1>6, <1>7 DEF ImportInv

\* A product lands, and its image is queued.
LEMMA ProductCommitted ==
    ASSUME ImportInv, ~ImportOverlap, ~Recommits, OneImageEach, NEW p \in Products, CommitProduct(p)
    PROVE  ImportInv'
<1>c. MaxTries \in Nat \ {0}
  BY CatalogueImportAssumption
<1>k. IdleRunner.at = "idle" /\ IdleRunner.listed = {} /\ NoCommit.at = "idle" /\ NoCommit \in CommitType
  BY RunnerAtRest, NoCommitAtWork
<1>y. /\ task \in [Products -> TaskRow] /\ runner \in [Runners -> RunnerType] /\ commit \in CommitType
      /\ job \in JobStatuses /\ linked \subseteq Products /\ importFaults \in Nat
      /\ fetched \subseteq {ImageOf[q] : q \in Products}
  BY DEF ImportInv, ImportTypeOK, TaskRow, RunnerType, CommitType
<1>t. /\ \A q \in Products : task[q].status \in TaskStatuses /\ task[q].tries \in 0..MaxTries
      /\ \A s \in Runners : runner[s].listed \subseteq Products
  BY <1>y DEF TaskRow, RunnerType
<1>i. /\ ImportTypeOK /\ WaitingMayTry /\ TakingTurns /\ CommitAccounts /\ ImagesAccount /\ BatchHolds
      /\ CompletedMeansLinked
  BY DEF ImportInv
<1>e1. job' = job /\ fetched' = fetched /\ runner' = runner /\ importFaults' = importFaults /\ commit.at = "products" /\ p \in commit.rest
  BY DEF CommitProduct
<1>e2. /\ fetched = {} /\ task[p].status = "none" /\ job = "COMMITTING" /\ \A r \in Runners : runner[r] = IdleRunner
  BY <1>i, <1>e1 DEF CommitAccounts, TakingTurns, RunnersIdle
<1>e3. ~ (ImageOf[p] \in fetched) /\ ~ AlreadyQueued(p)
  BY <1>e2 DEF AlreadyQueued, OneImageEach
<1>e4. /\ task' \in [Products -> TaskRow] /\ task'[p].status = "PENDING" /\ task'[p].tries = 0
       /\ \A q \in Products : q # p => task'[q] = task[q]
  <2> DEFINE row == [status |-> "PENDING", tries |-> 0]
  <2>1. row \in TaskRow /\ row.status = "PENDING" /\ row.tries = 0
    BY <1>c DEF TaskRow, TaskStatuses
  <2>2. task' = [task EXCEPT ![p] = row]
    BY <1>e3 DEF CommitProduct
  <2> HIDE DEF row
  <2> QED
    BY <1>i, <2>1, <2>2, TaskMoved
<1>e5. /\ commit' \in CommitType /\ commit'.at = "products" /\ commit'.rest = commit.rest \ {p}
       /\ commit'.queued > 0 /\ linked' = linked
  <2> DEFINE rest == commit.rest \ {p}
             queued == commit.queued + 1
  <2>1. commit' = [commit EXCEPT !.rest = rest, !.queued = queued] /\ linked' = linked
    BY <1>e3 DEF CommitProduct
  <2>2. rest \in SUBSET Products /\ queued \in Nat /\ queued > 0
    BY <1>y DEF CommitType
  <2> DEFINE less == [commit EXCEPT !.rest = rest]
  <2>3. /\ less \in CommitType /\ less.at = "products" /\ less.rest = rest
        /\ commit' = [less EXCEPT !.queued = queued]
    BY <1>y, <1>e1, <2>1 DEF CommitType
  <2> HIDE DEF rest, queued, less
  <2>5. /\ commit' \in CommitType /\ commit'.at = "products" /\ commit'.rest = rest
        /\ commit'.queued > 0 /\ linked' = linked
    BY <2>1, <2>2, <2>3 DEF CommitType
  <2> QED
    BY <2>5 DEF rest
<1>1. ImportTypeOK'
  BY <1>i, <1>e1, <1>e4, <1>e5 DEF ImportTypeOK, TaskRow, RunnerType, CommitType
<1>2. WaitingMayTry'
  BY <1>c, <1>i, <1>e4 DEF WaitingMayTry, Waiting
<1>3. TakingTurns'
  BY <1>e1, <1>e2, <1>e5 DEF TakingTurns, RunnersIdle
<1>4. CommitAccounts'
  <2>1. fetched' = {} /\ job' = "COMMITTING"
    BY <1>e1, <1>e2
  <2>2. ASSUME NEW q \in commit'.rest
        PROVE  task'[q].status = "none"
    BY <1>i, <1>e1, <1>e4, <1>e5 DEF CommitAccounts, CommitType
  <2>3. ASSUME NEW q \in Products \ commit'.rest
        PROVE  task'[q].status = "PENDING"
    BY <1>i, <1>e1, <1>e4, <1>e5 DEF CommitAccounts, CommitType
  <2> QED
    BY <1>e5, <2>1, <2>2, <2>3 DEF CommitAccounts
<1>5. ImagesAccount'
  BY <1>e1, <1>e2, <1>e5 DEF ImagesAccount
<1>6. BatchHolds'
  BY <1>t, <1>i, <1>e1, <1>e2, <1>e4 DEF BatchHolds
<1>7. CompletedMeansLinked'
  BY <1>e1, <1>e2, <1>e5 DEF CompletedMeansLinked
<1> QED
  BY <1>1, <1>2, <1>3, <1>4, <1>5, <1>6, <1>7 DEF ImportInv

\* The commit is over: images are on their way, or there are none.
LEMMA CommitDone ==
    ASSUME ImportInv, ~ImportOverlap, ~Recommits, OneImageEach, FinishCommit
    PROVE  ImportInv'
<1>c. MaxTries \in Nat \ {0}
  BY CatalogueImportAssumption
<1>k. IdleRunner.at = "idle" /\ IdleRunner.listed = {} /\ NoCommit.at = "idle" /\ NoCommit \in CommitType
  BY RunnerAtRest, NoCommitAtWork
<1>y. /\ task \in [Products -> TaskRow] /\ runner \in [Runners -> RunnerType] /\ commit \in CommitType
      /\ job \in JobStatuses /\ linked \subseteq Products /\ importFaults \in Nat
      /\ fetched \subseteq {ImageOf[q] : q \in Products}
  BY DEF ImportInv, ImportTypeOK, TaskRow, RunnerType, CommitType
<1>t. /\ \A q \in Products : task[q].status \in TaskStatuses /\ task[q].tries \in 0..MaxTries
      /\ \A s \in Runners : runner[s].listed \subseteq Products
  BY <1>y DEF TaskRow, RunnerType
<1>i. /\ ImportTypeOK /\ WaitingMayTry /\ TakingTurns /\ CommitAccounts /\ ImagesAccount /\ BatchHolds
      /\ CompletedMeansLinked
  BY DEF ImportInv
<1>e1. task' = task /\ fetched' = fetched /\ linked' = linked /\ runner' = runner /\ importFaults' = importFaults /\ commit' = NoCommit
  BY DEF FinishCommit
<1>e2. commit.at = "products" /\ commit.rest = {}
  BY DEF FinishCommit
<1>e3. /\ job' \in {"IMPORTING_IMAGES", "COMPLETED"} /\ job' \in JobStatuses
       /\ job' = "COMPLETED" => ~ (commit.queued > 0)
  BY DEF FinishCommit, JobStatuses
<1>e4. \A p \in Products : task[p].status = "PENDING" /\ job' # "COMPLETED"
  BY <1>i, <1>e2, <1>e3 DEF CommitAccounts
<1>e5. \A r \in Runners : runner[r] = IdleRunner
  BY <1>i, <1>e2 DEF TakingTurns, RunnersIdle
<1>1. ImportTypeOK'
  BY <1>k, <1>i, <1>e1, <1>e3 DEF ImportTypeOK, TaskRow, RunnerType, CommitType
<1>2. WaitingMayTry'
  BY <1>i, <1>e1, <1>e4 DEF WaitingMayTry, Waiting
<1>3. TakingTurns'
  BY <1>k, <1>e1, <1>e5 DEF TakingTurns, RunnersIdle
<1>4. CommitAccounts'
  BY <1>k, <1>e1, <1>e3 DEF CommitAccounts
<1>5. ImagesAccount'
  BY <1>e1, <1>e3, <1>e4 DEF ImagesAccount
<1>6. BatchHolds'
  BY <1>i, <1>e1, <1>e5 DEF BatchHolds
<1>7. CompletedMeansLinked'
  BY <1>e1, <1>e3, <1>e4 DEF CompletedMeansLinked
<1> QED
  BY <1>1, <1>2, <1>3, <1>4, <1>5, <1>6, <1>7 DEF ImportInv

\* A throw is told on the job; a death is not.
LEMMA CommitFailed ==
    ASSUME ImportInv, ~ImportOverlap, ~Recommits, OneImageEach, CommitFails
    PROVE  ImportInv'
<1>c. MaxTries \in Nat \ {0}
  BY CatalogueImportAssumption
<1>k. IdleRunner.at = "idle" /\ IdleRunner.listed = {} /\ NoCommit.at = "idle" /\ NoCommit \in CommitType
  BY RunnerAtRest, NoCommitAtWork
<1>y. /\ task \in [Products -> TaskRow] /\ runner \in [Runners -> RunnerType] /\ commit \in CommitType
      /\ job \in JobStatuses /\ linked \subseteq Products /\ importFaults \in Nat
      /\ fetched \subseteq {ImageOf[q] : q \in Products}
  BY DEF ImportInv, ImportTypeOK, TaskRow, RunnerType, CommitType
<1>t. /\ \A q \in Products : task[q].status \in TaskStatuses /\ task[q].tries \in 0..MaxTries
      /\ \A s \in Runners : runner[s].listed \subseteq Products
  BY <1>y DEF TaskRow, RunnerType
<1>i. /\ ImportTypeOK /\ WaitingMayTry /\ TakingTurns /\ CommitAccounts /\ ImagesAccount /\ BatchHolds
      /\ CompletedMeansLinked
  BY DEF ImportInv
<1>e1. task' = task /\ fetched' = fetched /\ linked' = linked /\ runner' = runner /\ commit' = NoCommit /\ importFaults' \in Nat /\ job' \in {job, "FAILED"}
  BY <1>y DEF CommitFails, ImportFault
<1>e2. job' \in JobStatuses
  BY <1>y, <1>e1 DEF JobStatuses
<1>e3. \A r \in Runners : runner[r] # IdleRunner => commit.at = "idle" /\ job = "IMPORTING_IMAGES"
  BY <1>i DEF TakingTurns
<1>e4. commit.at = "products" /\ job = "COMMITTING" /\ \A r \in Runners : runner[r] = IdleRunner
  BY <1>i, <1>y DEF TakingTurns, CommitFails, RunnersIdle, CommitType
<1>1. ImportTypeOK'
  BY <1>c, <1>k, <1>y, <1>t, <1>i, <1>e1, <1>e2, <1>e3, <1>e4 DEF ImportTypeOK, TaskRow, RunnerType, CommitType
<1>2. WaitingMayTry'
  BY <1>t, <1>i, <1>e1 DEF WaitingMayTry, Waiting
<1>3. TakingTurns'
  BY <1>k, <1>e1, <1>e4 DEF TakingTurns, RunnersIdle
<1>4. CommitAccounts'
  BY <1>k, <1>e1, <1>e4 DEF CommitAccounts
<1>5. ImagesAccount'
  BY <1>e1, <1>e3, <1>e4 DEF ImagesAccount
<1>6. BatchHolds'
  BY <1>i, <1>e1, <1>e4 DEF BatchHolds
<1>7. CompletedMeansLinked'
  BY <1>e1, <1>e3, <1>e4 DEF CompletedMeansLinked
<1> QED
  BY <1>1, <1>2, <1>3, <1>4, <1>5, <1>6, <1>7 DEF ImportInv

\* The job is called off, nobody being at work.
LEMMA ImportCancelled ==
    ASSUME ImportInv, ~ImportOverlap, ~Recommits, OneImageEach, CancelImport
    PROVE  ImportInv'
<1>c. MaxTries \in Nat \ {0}
  BY CatalogueImportAssumption
<1>k. IdleRunner.at = "idle" /\ IdleRunner.listed = {} /\ NoCommit.at = "idle" /\ NoCommit \in CommitType
  BY RunnerAtRest, NoCommitAtWork
<1>y. /\ task \in [Products -> TaskRow] /\ runner \in [Runners -> RunnerType] /\ commit \in CommitType
      /\ job \in JobStatuses /\ linked \subseteq Products /\ importFaults \in Nat
      /\ fetched \subseteq {ImageOf[q] : q \in Products}
  BY DEF ImportInv, ImportTypeOK, TaskRow, RunnerType, CommitType
<1>t. /\ \A q \in Products : task[q].status \in TaskStatuses /\ task[q].tries \in 0..MaxTries
      /\ \A s \in Runners : runner[s].listed \subseteq Products
  BY <1>y DEF TaskRow, RunnerType
<1>i. /\ ImportTypeOK /\ WaitingMayTry /\ TakingTurns /\ CommitAccounts /\ ImagesAccount /\ BatchHolds
      /\ CompletedMeansLinked
  BY DEF ImportInv
<1>e1. commit' = commit /\ task' = task /\ fetched' = fetched /\ linked' = linked /\ runner' = runner /\ importFaults' = importFaults /\ job' = "CANCELLED"
  BY DEF CancelImport
<1>e2. job' \in JobStatuses
  BY <1>e1 DEF JobStatuses
<1>e3. commit.at = "idle" /\ \A r \in Runners : runner[r] = IdleRunner
  BY <1>k DEF CancelImport, ImportQuiet, RunnersIdle
<1>1. ImportTypeOK'
  BY <1>i, <1>e1, <1>e2 DEF ImportTypeOK, TaskRow, RunnerType, CommitType
<1>2. WaitingMayTry'
  BY <1>t, <1>i, <1>e1 DEF WaitingMayTry, Waiting
<1>3. TakingTurns'
  BY <1>i, <1>e1, <1>e3 DEF TakingTurns, RunnersIdle
<1>4. CommitAccounts'
  BY <1>e1, <1>e2, <1>e3 DEF CommitAccounts
<1>5. ImagesAccount'
  BY <1>i, <1>e1, <1>e2 DEF ImagesAccount
<1>6. BatchHolds'
  BY <1>i, <1>e1, <1>e3 DEF BatchHolds
<1>7. CompletedMeansLinked'
  BY <1>i, <1>e1, <1>e2 DEF CompletedMeansLinked
<1> QED
  BY <1>1, <1>2, <1>3, <1>4, <1>5, <1>6, <1>7 DEF ImportInv

\* A batch lists what is waiting, once what the dead held is let go.
LEMMA TasksListed ==
    ASSUME ImportInv, ~ImportOverlap, ~Recommits, OneImageEach, NEW r \in Runners, NEW tasks \in {task, Released}, ListFrom(r, tasks)
    PROVE  ImportInv'
<1>c. MaxTries \in Nat \ {0}
  BY CatalogueImportAssumption
<1>k. IdleRunner.at = "idle" /\ IdleRunner.listed = {} /\ NoCommit.at = "idle" /\ NoCommit \in CommitType
  BY RunnerAtRest, NoCommitAtWork
<1>y. /\ task \in [Products -> TaskRow] /\ runner \in [Runners -> RunnerType] /\ commit \in CommitType
      /\ job \in JobStatuses /\ linked \subseteq Products /\ importFaults \in Nat
      /\ fetched \subseteq {ImageOf[q] : q \in Products}
  BY DEF ImportInv, ImportTypeOK, TaskRow, RunnerType, CommitType
<1>t. /\ \A q \in Products : task[q].status \in TaskStatuses /\ task[q].tries \in 0..MaxTries
      /\ \A s \in Runners : runner[s].listed \subseteq Products
  BY <1>y DEF TaskRow, RunnerType
<1>i. /\ ImportTypeOK /\ WaitingMayTry /\ TakingTurns /\ CommitAccounts /\ ImagesAccount /\ BatchHolds
      /\ CompletedMeansLinked
  BY DEF ImportInv
<1>e1. job' = job /\ commit' = commit /\ fetched' = fetched /\ linked' = linked /\ importFaults' = importFaults /\ job = "IMPORTING_IMAGES" /\ commit = NoCommit
  BY DEF ListFrom, ImportQuiet
<1>e2. \A s \in Runners : runner[s] = IdleRunner
  BY DEF ListFrom, ImportQuiet, RunnersIdle
<1>e3. /\ task' = tasks /\ task' \in [Products -> TaskRow]
       /\ \A p \in Products : /\ task'[p].tries = task[p].tries
                              /\ (task'[p].status = task[p].status \/ (task[p].status = "RUNNING" /\ task'[p].status = "PENDING"))
  <2>1. task' = tasks
    BY DEF ListFrom
  <2>2. CASE tasks = task
    BY <1>y, <2>1, <2>2
  <2>3. CASE tasks = Released
    <3> DEFINE some == {p \in Products : task[p].status = "RUNNING" /\ (ImportOverlap \/ ~ Held(p))}
    <3>1. task' = [p \in Products |-> IF p \in some THEN [task[p] EXCEPT !.status = "PENDING"] ELSE task[p]]
      BY <2>1, <2>3 DEF Released, ReleaseStale
    <3>2. \A p \in some : task[p].status = "RUNNING"
      OBVIOUS
    <3>3. "PENDING" \in TaskStatuses
      BY DEF TaskStatuses
    <3> HIDE DEF some
    <3>4. /\ task' \in [Products -> TaskRow]
          /\ \A p \in Products : /\ p \notin some => task'[p] = task[p]
                                 /\ p \in some => task'[p].status = "PENDING"
                                 /\ task'[p].tries = task[p].tries
      BY <1>i, <3>1, <3>3, TasksMarked
    <3> QED
      BY <2>1, <3>2, <3>4
  <2> QED
    BY <2>2, <2>3
<1>e4. /\ runner' \in [Runners -> RunnerType]
       /\ \A s \in Runners : s # r => runner'[s] = runner[s]
       /\ runner'[r].at = "claim" /\ runner'[r].listed = ToFetch(task')
  <2> DEFINE call == [at |-> "claim", listed |-> ToFetch(tasks)]
  <2>1. call \in RunnerType /\ call.at = "claim" /\ call.listed = ToFetch(tasks)
    BY DEF RunnerType, ToFetch
  <2>2. runner' = [runner EXCEPT ![r] = call]
    BY DEF ListFrom
  <2> HIDE DEF call
  <2> QED
    BY <1>i, <1>e3, <2>1, <2>2, RunnerMoved
<1>e5. \A p \in runner'[r].listed : task'[p].status = "PENDING"
  BY <1>e4 DEF ToFetch
<1>1. ImportTypeOK'
  BY <1>i, <1>e1, <1>e3, <1>e4 DEF ImportTypeOK, TaskRow, RunnerType, CommitType
<1>2. WaitingMayTry'
  BY <1>i, <1>e3, <1>e5 DEF WaitingMayTry, Waiting
<1>3. TakingTurns'
  BY <1>k, <1>e1, <1>e2, <1>e4 DEF TakingTurns, RunnersIdle
<1>4. CommitAccounts'
  BY <1>k, <1>e1, <1>e5 DEF CommitAccounts
<1>5. ImagesAccount'
  BY <1>i, <1>e1, <1>e3 DEF ImagesAccount
<1>6. BatchHolds'
  BY <1>k, <1>e2, <1>e4, <1>e5 DEF BatchHolds
<1>7. CompletedMeansLinked'
  BY <1>e1, <1>e4, <1>e5 DEF CompletedMeansLinked
<1> QED
  BY <1>1, <1>2, <1>3, <1>4, <1>5, <1>6, <1>7 DEF ImportInv

\* What was listed is claimed.
LEMMA TasksClaimed ==
    ASSUME ImportInv, ~ImportOverlap, ~Recommits, OneImageEach, NEW r \in Runners, ClaimTasks(r)
    PROVE  ImportInv'
<1>c. MaxTries \in Nat \ {0}
  BY CatalogueImportAssumption
<1>k. IdleRunner.at = "idle" /\ IdleRunner.listed = {} /\ NoCommit.at = "idle" /\ NoCommit \in CommitType
  BY RunnerAtRest, NoCommitAtWork
<1>y. /\ task \in [Products -> TaskRow] /\ runner \in [Runners -> RunnerType] /\ commit \in CommitType
      /\ job \in JobStatuses /\ linked \subseteq Products /\ importFaults \in Nat
      /\ fetched \subseteq {ImageOf[q] : q \in Products}
  BY DEF ImportInv, ImportTypeOK, TaskRow, RunnerType, CommitType
<1>t. /\ \A q \in Products : task[q].status \in TaskStatuses /\ task[q].tries \in 0..MaxTries
      /\ \A s \in Runners : runner[s].listed \subseteq Products
  BY <1>y DEF TaskRow, RunnerType
<1>i. /\ ImportTypeOK /\ WaitingMayTry /\ TakingTurns /\ CommitAccounts /\ ImagesAccount /\ BatchHolds
      /\ CompletedMeansLinked
  BY DEF ImportInv
<1>e1. job' = job /\ commit' = commit /\ fetched' = fetched /\ linked' = linked /\ importFaults' = importFaults /\ runner[r].at = "claim"
  BY DEF ClaimTasks
<1>e2. job = "IMPORTING_IMAGES" /\ commit.at = "idle"
  BY <1>k, <1>i DEF ClaimTasks, TakingTurns
<1>e3. \A s \in Runners : s # r => runner[s] = IdleRunner
  BY <1>k, <1>i DEF ClaimTasks, TakingTurns
<1>e4. \A p \in runner[r].listed : task[p].status = "PENDING"
  BY <1>i, <1>e1 DEF BatchHolds
<1>e5. /\ task' \in [Products -> TaskRow]
       /\ \A p \in Products : /\ p \notin runner[r].listed => task'[p] = task[p]
                              /\ p \in runner[r].listed => task'[p].status = "RUNNING"
                              /\ task'[p].tries = task[p].tries
  BY <1>i, TasksMarked DEF ClaimTasks, TaskStatuses
<1>e6. /\ runner' \in [Runners -> RunnerType]
       /\ \A s \in Runners : s # r => runner'[s] = runner[s]
       /\ runner'[r].at = "fetch" /\ runner'[r].listed = runner[r].listed
  <2> DEFINE call == [runner[r] EXCEPT !.at = "fetch"]
  <2>1. call \in RunnerType /\ call.at = "fetch" /\ call.listed = runner[r].listed
    BY <1>y DEF RunnerType
  <2>2. runner' = [runner EXCEPT ![r] = call]
    BY <1>y DEF ClaimTasks
  <2> HIDE DEF call
  <2> QED
    BY <1>i, <2>1, <2>2, RunnerMoved
<1>e7. \A p \in Products : task'[p].status = task[p].status \/ (task[p].status = "PENDING" /\ task'[p].status = "RUNNING")
  BY <1>e4, <1>e5
<1>1. ImportTypeOK'
  BY <1>i, <1>e1, <1>e5, <1>e6 DEF ImportTypeOK, TaskRow, RunnerType, CommitType
<1>2. WaitingMayTry'
  BY <1>i, <1>e5, <1>e7 DEF WaitingMayTry, Waiting
<1>3. TakingTurns'
  BY <1>i, <1>e1, <1>e2, <1>e3, <1>e6 DEF TakingTurns, RunnersIdle
<1>4. CommitAccounts'
  BY <1>e1, <1>e2, <1>e7 DEF CommitAccounts
<1>5. ImagesAccount'
  BY <1>i, <1>e1, <1>e7 DEF ImagesAccount
<1>6. BatchHolds'
  BY <1>k, <1>t, <1>e3, <1>e5, <1>e6, <1>e7 DEF BatchHolds
<1>7. CompletedMeansLinked'
  BY <1>e1, <1>e2, <1>e7 DEF CompletedMeansLinked
<1> QED
  BY <1>1, <1>2, <1>3, <1>4, <1>5, <1>6, <1>7 DEF ImportInv

\* An image is fetched, and its product shows it.
LEMMA ImageLanded ==
    ASSUME ImportInv, ~ImportOverlap, ~Recommits, OneImageEach, NEW r \in Runners, NEW p \in Products, FetchOne(r, p)
    PROVE  ImportInv'
<1>c. MaxTries \in Nat \ {0}
  BY CatalogueImportAssumption
<1>k. IdleRunner.at = "idle" /\ IdleRunner.listed = {} /\ NoCommit.at = "idle" /\ NoCommit \in CommitType
  BY RunnerAtRest, NoCommitAtWork
<1>y. /\ task \in [Products -> TaskRow] /\ runner \in [Runners -> RunnerType] /\ commit \in CommitType
      /\ job \in JobStatuses /\ linked \subseteq Products /\ importFaults \in Nat
      /\ fetched \subseteq {ImageOf[q] : q \in Products}
  BY DEF ImportInv, ImportTypeOK, TaskRow, RunnerType, CommitType
<1>t. /\ \A q \in Products : task[q].status \in TaskStatuses /\ task[q].tries \in 0..MaxTries
      /\ \A s \in Runners : runner[s].listed \subseteq Products
  BY <1>y DEF TaskRow, RunnerType
<1>i. /\ ImportTypeOK /\ WaitingMayTry /\ TakingTurns /\ CommitAccounts /\ ImagesAccount /\ BatchHolds
      /\ CompletedMeansLinked
  BY DEF ImportInv
<1>e1. job' = job /\ commit' = commit /\ importFaults' = importFaults /\ runner[r].at = "fetch" /\ p \in runner[r].listed
  BY DEF FetchOne, Fetching
<1>e2. job = "IMPORTING_IMAGES" /\ commit.at = "idle"
  BY <1>k, <1>i DEF FetchOne, Fetching, TakingTurns
<1>e3. \A s \in Runners : s # r => runner[s] = IdleRunner
  BY <1>k, <1>i DEF FetchOne, Fetching, TakingTurns
<1>e4. linked' = linked \cup {p} /\ fetched' \subseteq {ImageOf[q] : q \in Products}
  BY <1>y DEF FetchOne
<1>e5. /\ task' \in [Products -> TaskRow] /\ task'[p].status = "DONE"
       /\ \A q \in Products : q # p => task'[q] = task[q]
  <2> DEFINE row == [task[p] EXCEPT !.status = "DONE"]
  <2>1. row \in TaskRow /\ row.status = "DONE"
    BY <1>y DEF TaskRow, TaskStatuses
  <2>2. task' = [task EXCEPT ![p] = row]
    BY <1>y DEF FetchOne
  <2> HIDE DEF row
  <2> QED
    BY <1>i, <2>1, <2>2, TaskMoved
<1>e6. /\ runner' \in [Runners -> RunnerType]
       /\ \A s \in Runners : s # r => runner'[s] = runner[s]
       /\ runner'[r].at = "fetch" /\ runner'[r].listed = runner[r].listed \ {p}
  <2> DEFINE call == [runner[r] EXCEPT !.listed = runner[r].listed \ {p}]
  <2>1. call \in RunnerType /\ call.at = "fetch" /\ call.listed = runner[r].listed \ {p}
    BY <1>y, <1>e1 DEF RunnerType
  <2>2. runner' = [runner EXCEPT ![r] = call]
    BY <1>y DEF FetchOne, Fetched
  <2> HIDE DEF call
  <2> QED
    BY <1>i, <2>1, <2>2, RunnerMoved
<1>e7. task[p].status = "RUNNING"
  BY <1>i, <1>e1 DEF BatchHolds
<1>1. ImportTypeOK'
  BY <1>i, <1>e1, <1>e4, <1>e5, <1>e6 DEF ImportTypeOK, TaskRow, RunnerType, CommitType
<1>2. WaitingMayTry'
  BY <1>i, <1>e5, <1>e7 DEF WaitingMayTry, Waiting
<1>3. TakingTurns'
  BY <1>i, <1>e1, <1>e2, <1>e3, <1>e6 DEF TakingTurns, RunnersIdle
<1>4. CommitAccounts'
  BY <1>e1, <1>e2, <1>e7 DEF CommitAccounts
<1>5. ImagesAccount'
  BY <1>i, <1>e2, <1>e4, <1>e5 DEF ImagesAccount
<1>6. BatchHolds'
  BY <1>k, <1>t, <1>i, <1>e1, <1>e3, <1>e5, <1>e6, <1>e7 DEF BatchHolds
<1>7. CompletedMeansLinked'
  BY <1>e1, <1>e2, <1>e7 DEF CompletedMeansLinked
<1> QED
  BY <1>1, <1>2, <1>3, <1>4, <1>5, <1>6, <1>7 DEF ImportInv

\* It is not, and is tried again or given up on.
LEMMA ImageMissed ==
    ASSUME ImportInv, ~ImportOverlap, ~Recommits, OneImageEach, NEW r \in Runners, NEW p \in Products, FetchFails(r, p)
    PROVE  ImportInv'
<1>c. MaxTries \in Nat \ {0}
  BY CatalogueImportAssumption
<1>k. IdleRunner.at = "idle" /\ IdleRunner.listed = {} /\ NoCommit.at = "idle" /\ NoCommit \in CommitType
  BY RunnerAtRest, NoCommitAtWork
<1>y. /\ task \in [Products -> TaskRow] /\ runner \in [Runners -> RunnerType] /\ commit \in CommitType
      /\ job \in JobStatuses /\ linked \subseteq Products /\ importFaults \in Nat
      /\ fetched \subseteq {ImageOf[q] : q \in Products}
  BY DEF ImportInv, ImportTypeOK, TaskRow, RunnerType, CommitType
<1>t. /\ \A q \in Products : task[q].status \in TaskStatuses /\ task[q].tries \in 0..MaxTries
      /\ \A s \in Runners : runner[s].listed \subseteq Products
  BY <1>y DEF TaskRow, RunnerType
<1>i. /\ ImportTypeOK /\ WaitingMayTry /\ TakingTurns /\ CommitAccounts /\ ImagesAccount /\ BatchHolds
      /\ CompletedMeansLinked
  BY DEF ImportInv
<1>e1. job' = job /\ commit' = commit /\ fetched' = fetched /\ linked' = linked /\ runner[r].at = "fetch" /\ p \in runner[r].listed /\ importFaults' \in Nat
  BY <1>y DEF FetchFails, Fetching, ImportFault
<1>e2. job = "IMPORTING_IMAGES" /\ commit.at = "idle"
  BY <1>k, <1>i DEF FetchFails, Fetching, TakingTurns
<1>e3. \A s \in Runners : s # r => runner[s] = IdleRunner
  BY <1>k, <1>i DEF FetchFails, Fetching, TakingTurns
<1>e4. task[p].status = "RUNNING" /\ task[p].tries \in 0..MaxTries /\ task[p].tries < MaxTries
  BY <1>t, <1>i, <1>e1 DEF BatchHolds, WaitingMayTry, Waiting
<1>e5. /\ task' \in [Products -> TaskRow] /\ task'[p].status \in {"PENDING", "FAILED"}
       /\ task'[p].status = "PENDING" => task'[p].tries < MaxTries
       /\ \A q \in Products : q # p => task'[q] = task[q]
  <2> DEFINE row == [status |-> IF TriesLeft(p) THEN "PENDING" ELSE "FAILED", tries |-> task[p].tries + 1]
  <2>1. /\ row \in TaskRow /\ row.status \in {"PENDING", "FAILED"}
        /\ row.status = "PENDING" => row.tries < MaxTries
    BY <1>c, <1>e4 DEF TaskRow, TaskStatuses, TriesLeft
  <2>2. task' = [task EXCEPT ![p] = row]
    BY <1>y DEF FetchFails
  <2> HIDE DEF row
  <2> QED
    BY <1>i, <2>1, <2>2, TaskMoved
<1>e6. /\ runner' \in [Runners -> RunnerType]
       /\ \A s \in Runners : s # r => runner'[s] = runner[s]
       /\ runner'[r].at = "fetch" /\ runner'[r].listed = runner[r].listed \ {p}
  <2> DEFINE call == [runner[r] EXCEPT !.listed = runner[r].listed \ {p}]
  <2>1. call \in RunnerType /\ call.at = "fetch" /\ call.listed = runner[r].listed \ {p}
    BY <1>y, <1>e1 DEF RunnerType
  <2>2. runner' = [runner EXCEPT ![r] = call]
    BY <1>y DEF FetchFails, Fetched
  <2> HIDE DEF call
  <2> QED
    BY <1>i, <2>1, <2>2, RunnerMoved
<1>1. ImportTypeOK'
  BY <1>i, <1>e1, <1>e5, <1>e6 DEF ImportTypeOK, TaskRow, RunnerType, CommitType
<1>2. WaitingMayTry'
  BY <1>i, <1>e4, <1>e5 DEF WaitingMayTry, Waiting
<1>3. TakingTurns'
  BY <1>i, <1>e1, <1>e2, <1>e3, <1>e6 DEF TakingTurns, RunnersIdle
<1>4. CommitAccounts'
  BY <1>e1, <1>e2, <1>e5 DEF CommitAccounts
<1>5. ImagesAccount'
  BY <1>i, <1>e1, <1>e5 DEF ImagesAccount
<1>6. BatchHolds'
  BY <1>k, <1>t, <1>i, <1>e1, <1>e3, <1>e5, <1>e6 DEF BatchHolds
<1>7. CompletedMeansLinked'
  BY <1>e1, <1>e2, <1>e5 DEF CompletedMeansLinked
<1> QED
  BY <1>1, <1>2, <1>3, <1>4, <1>5, <1>6, <1>7 DEF ImportInv

\* The batch is over, and the job with the last of its images.
LEMMA BatchFinished ==
    ASSUME ImportInv, ~ImportOverlap, ~Recommits, OneImageEach, NEW r \in Runners, FinishBatch(r)
    PROVE  ImportInv'
<1>c. MaxTries \in Nat \ {0}
  BY CatalogueImportAssumption
<1>k. IdleRunner.at = "idle" /\ IdleRunner.listed = {} /\ NoCommit.at = "idle" /\ NoCommit \in CommitType
  BY RunnerAtRest, NoCommitAtWork
<1>y. /\ task \in [Products -> TaskRow] /\ runner \in [Runners -> RunnerType] /\ commit \in CommitType
      /\ job \in JobStatuses /\ linked \subseteq Products /\ importFaults \in Nat
      /\ fetched \subseteq {ImageOf[q] : q \in Products}
  BY DEF ImportInv, ImportTypeOK, TaskRow, RunnerType, CommitType
<1>t. /\ \A q \in Products : task[q].status \in TaskStatuses /\ task[q].tries \in 0..MaxTries
      /\ \A s \in Runners : runner[s].listed \subseteq Products
  BY <1>y DEF TaskRow, RunnerType
<1>i. /\ ImportTypeOK /\ WaitingMayTry /\ TakingTurns /\ CommitAccounts /\ ImagesAccount /\ BatchHolds
      /\ CompletedMeansLinked
  BY DEF ImportInv
<1>e1. commit' = commit /\ task' = task /\ fetched' = fetched /\ linked' = linked /\ importFaults' = importFaults
  BY DEF FinishBatch
<1>e2. runner[r].at = "fetch"
  BY DEF FinishBatch
<1>e3. job = "IMPORTING_IMAGES" /\ commit.at = "idle"
  BY <1>k, <1>i, <1>e2 DEF TakingTurns
<1>e4. \A s \in Runners : s # r => runner[s] = IdleRunner
  BY <1>k, <1>i, <1>e2 DEF TakingTurns
<1>e5. /\ runner' \in [Runners -> RunnerType]
       /\ \A s \in Runners : s # r => runner'[s] = runner[s]
       /\ runner'[r] = IdleRunner
  BY <1>i, RunnerAtRest, RunnerMoved DEF FinishBatch
<1>e6. /\ job' \in {job, "COMPLETED"} /\ job' \in JobStatuses
       /\ job' = "COMPLETED" => \A p \in Products : task[p].status \notin {"PENDING", "RUNNING"}
  BY <1>y, <1>e3 DEF FinishBatch, RemainingTasks, Waiting, JobStatuses
<1>1. ImportTypeOK'
  BY <1>i, <1>e1, <1>e5, <1>e6 DEF ImportTypeOK, TaskRow, RunnerType, CommitType
<1>2. WaitingMayTry'
  BY <1>i, <1>e1, <1>e6 DEF WaitingMayTry, Waiting
<1>3. TakingTurns'
  BY <1>i, <1>e1, <1>e3, <1>e4, <1>e5 DEF TakingTurns, RunnersIdle
<1>4. CommitAccounts'
  BY <1>e1, <1>e3, <1>e6 DEF CommitAccounts
<1>5. ImagesAccount'
  BY <1>i, <1>e1, <1>e3 DEF ImagesAccount
<1>6. BatchHolds'
  BY <1>k, <1>e4, <1>e5 DEF BatchHolds
<1>7. CompletedMeansLinked'
  BY <1>i, <1>e1, <1>e3, <1>e6 DEF CompletedMeansLinked, ImagesAccount
<1> QED
  BY <1>1, <1>2, <1>3, <1>4, <1>5, <1>6, <1>7 DEF ImportInv

\* The batch dies.
LEMMA RunnerDied ==
    ASSUME ImportInv, ~ImportOverlap, ~Recommits, OneImageEach, NEW r \in Runners, RunnerDies(r)
    PROVE  ImportInv'
<1>c. MaxTries \in Nat \ {0}
  BY CatalogueImportAssumption
<1>k. IdleRunner.at = "idle" /\ IdleRunner.listed = {} /\ NoCommit.at = "idle" /\ NoCommit \in CommitType
  BY RunnerAtRest, NoCommitAtWork
<1>y. /\ task \in [Products -> TaskRow] /\ runner \in [Runners -> RunnerType] /\ commit \in CommitType
      /\ job \in JobStatuses /\ linked \subseteq Products /\ importFaults \in Nat
      /\ fetched \subseteq {ImageOf[q] : q \in Products}
  BY DEF ImportInv, ImportTypeOK, TaskRow, RunnerType, CommitType
<1>t. /\ \A q \in Products : task[q].status \in TaskStatuses /\ task[q].tries \in 0..MaxTries
      /\ \A s \in Runners : runner[s].listed \subseteq Products
  BY <1>y DEF TaskRow, RunnerType
<1>i. /\ ImportTypeOK /\ WaitingMayTry /\ TakingTurns /\ CommitAccounts /\ ImagesAccount /\ BatchHolds
      /\ CompletedMeansLinked
  BY DEF ImportInv
<1>e1. job' = job /\ commit' = commit /\ task' = task /\ fetched' = fetched /\ linked' = linked /\ importFaults' \in Nat
  BY <1>y DEF RunnerDies, ImportFault
<1>e2. /\ runner' \in [Runners -> RunnerType]
       /\ \A s \in Runners : s # r => runner'[s] = runner[s]
       /\ runner'[r] = IdleRunner
  BY <1>i, RunnerAtRest, RunnerMoved DEF RunnerDies
<1>1. ImportTypeOK'
  BY <1>i, <1>e1, <1>e2 DEF ImportTypeOK, TaskRow, RunnerType, CommitType
<1>2. WaitingMayTry'
  BY <1>t, <1>i, <1>e1 DEF WaitingMayTry, Waiting
<1>3. TakingTurns'
  BY <1>i, <1>e1, <1>e2 DEF TakingTurns, RunnersIdle
<1>4. CommitAccounts'
  BY <1>t, <1>i, <1>e1 DEF CommitAccounts
<1>5. ImagesAccount'
  BY <1>t, <1>i, <1>e1 DEF ImagesAccount
<1>6. BatchHolds'
  BY <1>k, <1>i, <1>e1, <1>e2 DEF BatchHolds
<1>7. CompletedMeansLinked'
  BY <1>t, <1>i, <1>e1 DEF CompletedMeansLinked
<1> QED
  BY <1>1, <1>2, <1>3, <1>4, <1>5, <1>6, <1>7 DEF ImportInv

LEMMA ImportStep ==
    ASSUME ImportInv, ~ImportOverlap, ~Recommits, OneImageEach, ImportNext \/ UNCHANGED importVars
    PROVE  ImportInv'
<1>1. CASE ImportNext
  BY <1>1, AnalysisBegun, AnalysisDone, CommitBegun, ProductCommitted, CommitDone, CommitFailed, ImportCancelled,
     TasksListed, TasksClaimed, ImageLanded, ImageMissed, BatchFinished, RunnerDied
     DEF ImportNext, ListTasks, RunnerMoves
<1>2. CASE UNCHANGED importVars
  BY <1>2 DEF importVars, ImportInv, ImportTypeOK, WaitingMayTry, Waiting, TakingTurns, RunnersIdle, CommitAccounts,
     ImagesAccount, BatchHolds, CompletedMeansLinked
<1> QED
  BY <1>1, <1>2

LEMMA ImportBegins == ImportInit => ImportInv
<1> SUFFICES ASSUME ImportInit PROVE ImportInv
  OBVIOUS
<1>1. /\ job = "UPLOADED" /\ commit = NoCommit /\ fetched = {} /\ linked = {} /\ importFaults = 0
      /\ \A p \in Products : task[p].status = "none"
      /\ \A r \in Runners : runner[r] = IdleRunner
  BY DEF ImportInit
<1>2. task \in [Products -> TaskRow]
  BY CatalogueImportAssumption DEF ImportInit, TaskRow, TaskStatuses
<1>3. runner \in [Runners -> RunnerType]
  BY RunnerAtRest DEF ImportInit
<1>4. ImportTypeOK
  BY <1>1, <1>2, <1>3, NoCommitAtWork DEF ImportTypeOK, TaskRow, RunnerType, CommitType, JobStatuses
<1>5. commit.at = "idle" /\ \A r \in Runners : runner[r].listed = {}
  BY <1>1, RunnerAtRest, NoCommitAtWork
<1>6. WaitingMayTry
  BY <1>1 DEF WaitingMayTry, Waiting
<1> QED
  BY <1>1, <1>4, <1>5, <1>6 DEF ImportInv, TakingTurns, RunnersIdle, CommitAccounts, ImagesAccount, BatchHolds,
     CompletedMeansLinked

LEMMA LinkedWhenCompleted == ImportInv => CompletedMeansLinked
BY DEF ImportInv

\* What is DONE is not fetched again.
LEMMA DoneStays ==
    ASSUME ImportInv, ~ImportOverlap, OneImageEach, ImportNext, NEW p \in Products, task[p].status = "DONE"
    PROVE  task'[p].status = "DONE"
<1>y. /\ task \in [Products -> TaskRow] /\ task[p] \in TaskRow
      /\ ImportTypeOK /\ CommitAccounts /\ BatchHolds
      /\ \A r \in Runners : p \notin runner[r].listed \/ runner[r].at = "idle"
  <2>1. task \in [Products -> TaskRow] /\ ImportTypeOK /\ CommitAccounts /\ BatchHolds
    BY DEF ImportInv, ImportTypeOK, TaskRow
  <2>2. \A r \in Runners : runner[r].at \in {"idle", "claim", "fetch"}
    BY <2>1 DEF ImportTypeOK
  <2> QED
    BY <2>1, <2>2 DEF BatchHolds
<1>1. ASSUME NEW q \in Products, CommitProduct(q)
      PROVE  task'[p] = task[p]
  <2>1. task[q].status = "none" /\ q # p
    BY <1>y, <1>1 DEF CommitProduct, CommitAccounts
  <2> QED
    BY <1>y, <1>1, <2>1 DEF CommitProduct
<1>2. ASSUME NEW r \in Runners, ListTasks(r)
      PROVE  task'[p] = task[p]
  BY <1>2 DEF ListTasks, ListFrom, Released, ReleaseStale
<1>3. ASSUME NEW r \in Runners, ClaimTasks(r)
      PROVE  task'[p] = task[p]
  BY <1>y, <1>3 DEF ClaimTasks
<1>4. ASSUME NEW r \in Runners, NEW q \in Products, FetchOne(r, q) \/ FetchFails(r, q)
      PROVE  task'[p] = task[p]
  <2>1. q # p
    BY <1>y, <1>4 DEF FetchOne, FetchFails, Fetching
  <2> QED
    BY <1>y, <1>4, <2>1 DEF FetchOne, FetchFails
<1>5. ASSUME StartAnalysis \/ FinishAnalysis \/ StartCommit \/ FinishCommit \/ CommitFails \/ CancelImport
      PROVE  task' = task
  BY <1>5 DEF StartAnalysis, FinishAnalysis, StartCommit, FinishCommit, CommitFails, CancelImport
<1>6. ASSUME NEW r \in Runners, FinishBatch(r) \/ RunnerDies(r)
      PROVE  task' = task
  BY <1>6 DEF FinishBatch, RunnerDies
<1> QED
  BY <1>1, <1>2, <1>3, <1>4, <1>5, <1>6 DEF ImportNext, RunnerMoves

-----------------------------------------------------------------------------
(* The components side by side.                                            *)

\* A step is of one component, and leaves what the others keep alone.
LEMMA OneJobMoves ==
    ASSUME [Next]_vars
    PROVE  /\ NotifyNext \/ UNCHANGED notifyVars
           /\ ConversionNext \/ UNCHANGED conversionVars
           /\ MediaNext \/ UNCHANGED mediaVars
           /\ ImportNext \/ UNCHANGED importVars
BY DEF Next, Elsewhere, vars

\* One moment, one message: marked sent only when AiSensy took it, sent again
\* only for a fault, a code never again, and each tried a bounded number of
\* times, as long as no pass of the job runs beside another or beside a first
\* attempt older than its minute.
THEOREM MomentsToldOnce ==
    ASSUME ~NotifyOverlap
    PROVE  Spec => []EachMomentTellsOnce
<1>1. Init => NotifyInv
  BY NotifyBegins DEF Init
<1>2. NotifyInv /\ [Next]_vars => NotifyInv'
  BY OneJobMoves, NotifyStep
<1>3. NotifyInv => EachMomentTellsOnce
  <2> SUFFICES ASSUME NotifyInv PROVE SentWasAccepted /\ OneMessagePerMoment
    BY DEF NotifyInv, EachMomentTellsOnce
  <2>1. notifyFaults \in Nat /\ \A m \in Moments : accepted[m] \in Nat
    BY DEF NotifyInv, NotifyTypeOK
  <2> QED
    BY <2>1 DEF NotifyInv, TakenOnce, KnownTaken, SentWasAccepted, OneMessagePerMoment
<1> QED
  BY <1>1, <1>2, <1>3, PTL DEF Spec

\* What is recorded as sent stays so, and is not sent again.
THEOREM SentForGood ==
    ASSUME ~NotifyOverlap
    PROVE  Spec => SentIsFinal
<1>1. Init => NotifyInv
  BY NotifyBegins DEF Init
<1>2. NotifyInv /\ [Next]_vars => NotifyInv'
  BY OneJobMoves, NotifyStep
<1>3. NotifyInv /\ [Next]_vars =>
        [\A m \in Moments : messages[m].status = "SENT" =>
            messages'[m].status = "SENT" /\ accepted'[m] = accepted[m]]_notifyVars
  BY OneJobMoves, SentStays
<1> QED
  BY <1>1, <1>2, <1>3, PTL DEF Spec, SentIsFinal

\* A sale is reported with its customer's yes only, once but for faults, and in
\* a bounded number of tries, as long as no pass runs beside another or beside a
\* report it lists.
THEOREM ReportedOnceWithConsent ==
    ASSUME ~ReportOverlap
    PROVE  Spec => []SalesReportedOnce
<1>1. Init => ReportInv
  BY ReportInit DEF Init
<1>2. ReportInv /\ [Next]_vars => ReportInv'
  BY OneJobMoves, ReportStep
<1>3. ReportInv => SalesReportedOnce
  <2> SUFFICES ASSUME ReportInv PROVE ReportedOnce
    BY DEF ReportInv, SalesReportedOnce
  <2>1. reportFaults \in Nat /\ \A o \in Sales : received[o] \in Nat
    BY DEF ReportInv, ConversionTypeOK
  <2> QED
    BY <2>1 DEF ReportInv, CountedOnce, ReportedOnce
<1> QED
  BY <1>1, <1>2, <1>3, PTL DEF Spec

\* What was reported stays reported, and is not sent again.
THEOREM ReportedForGood ==
    ASSUME ~ReportOverlap
    PROVE  Spec => ReportIsFinal
<1>1. Init => ReportInv
  BY ReportInit DEF Init
<1>2. ReportInv /\ [Next]_vars => ReportInv'
  BY OneJobMoves, ReportStep
<1>3. ReportInv /\ [Next]_vars =>
        [\A o \in Sales : event[o].status = "SENT" =>
            event'[o].status = "SENT" /\ received'[o] = received[o]]_conversionVars
  BY OneJobMoves, ReportStays
<1> QED
  BY <1>1, <1>2, <1>3, PTL DEF Spec, ReportIsFinal

\* An import that is done shows its pictures, or has given up on them, and no
\* picture that is shown is without its bytes: batches, the commit and the
\* cleaners following one another, each product with an image of its own, and
\* every use of a file among those the cleaner counts.
THEOREM PicturesShown ==
    ASSUME ~ImportOverlap, ~Recommits, OneImageEach, ~MediaOverlap, UseKinds \subseteq CountedUses
    PROVE  Spec => []PicturesArrive
<1>1. Init => ImportInv /\ MediaInv
  BY ImportBegins, MediaBegins DEF Init
<1>2. ImportInv /\ MediaInv /\ [Next]_vars => ImportInv' /\ MediaInv'
  BY OneJobMoves, ImportStep, MediaStep
<1>3. ImportInv /\ MediaInv => PicturesArrive
  BY LinkedWhenCompleted, NothingIsBroken DEF PicturesArrive
<1> QED
  BY <1>1, <1>2, <1>3, PTL DEF Spec

\* A file that is used is not deleted, and an image that was fetched is not
\* fetched again.
THEOREM PicturesStay ==
    ASSUME ~ImportOverlap, ~Recommits, OneImageEach, ~MediaOverlap, UseKinds \subseteq CountedUses
    PROVE  Spec => ReferencedIsKept /\ DoneIsFinal
<1>1. Init => ImportInv /\ MediaInv
  BY ImportBegins, MediaBegins DEF Init
<1>2. ImportInv /\ MediaInv /\ [Next]_vars => ImportInv' /\ MediaInv'
  BY OneJobMoves, ImportStep, MediaStep
<1>3. ImportInv /\ MediaInv /\ [Next]_vars =>
        /\ [\A f \in Files : Present(f) /\ uses[f] # {} => media'[f].status # "deleted"]_mediaVars
        /\ [\A p \in Products : task[p].status = "DONE" => task'[p].status = "DONE"]_importVars
  BY OneJobMoves, UsedIsKept, DoneStays
<1> QED
  BY <1>1, <1>2, <1>3, PTL DEF Spec, ReferencedIsKept, DoneIsFinal

-----------------------------------------------------------------------------
(* Erasure: one eraser at a time, and the account as it found it.          *)

RequestRow == [status : {"none"} \cup StandingStatuses \cup ClosedStatuses, due : BOOLEAN]

EraserType ==
    [at : {"idle", "schedule", "update", "read", "erase", "photos"}, request : Requests \cup {"none"},
     rest : SUBSET Requests, to : {"none"} \cup StandingStatuses \cup ClosedStatuses, sawPhoto : BOOLEAN]

LEMMA NotErasing == NoErasing \in EraserType /\ NoErasing.at = "idle" /\ NoErasing.rest = {}
BY DEF NoErasing, EraserType

LEMMA EraserMoved ==
    ASSUME ErasureTypeOK, NEW e \in Erasers, NEW call \in EraserType, eraser' = [eraser EXCEPT ![e] = call]
    PROVE  /\ eraser' \in [Erasers -> EraserType] /\ eraser'[e] = call
           /\ \A f \in Erasers : f # e => eraser'[f] = eraser[f]
BY DEF ErasureTypeOK, EraserType

LEMMA EraserDone ==
    ASSUME ErasureTypeOK, NEW e \in Erasers, eraser' = [eraser EXCEPT ![e] = NoErasing]
    PROVE  /\ eraser' \in [Erasers -> EraserType] /\ eraser'[e].at = "idle" /\ eraser'[e].rest = {}
           /\ \A f \in Erasers : f # e => eraser'[f] = eraser[f]
BY NotErasing, EraserMoved

\* The next of the list, or nothing.
LEMMA EraserWentOn ==
    ASSUME ErasureTypeOK, NEW e \in Erasers, NEW list \in SUBSET Requests,
           NEW step \in NextErasure(list), eraser' = [eraser EXCEPT ![e] = step]
    PROVE  /\ eraser' \in [Erasers -> EraserType]
           /\ \A f \in Erasers : f # e => eraser'[f] = eraser[f]
           /\ \/ eraser'[e].at = "idle" /\ eraser'[e].rest = {}
              \/ /\ eraser'[e].at = "read" /\ eraser'[e].request \in list
                 /\ eraser'[e].rest \subseteq list
<1>1. CASE list = {}
  <2>1. step = NoErasing
    BY <1>1 DEF NextErasure
  <2> QED
    BY <2>1, EraserDone
<1>2. CASE list # {}
  <2>1. PICK r \in list : step = [NoErasing EXCEPT !.at = "read", !.request = r, !.rest = list \ {r}]
    BY <1>2 DEF NextErasure
  <2> DEFINE next == [[[NoErasing EXCEPT !.at = "read"] EXCEPT !.request = r] EXCEPT !.rest = list \ {r}]
  <2>2. next \in EraserType /\ next.at = "read" /\ next.request = r /\ next.rest = list \ {r}
    BY NotErasing DEF EraserType
  <2>3. step = next
    BY <2>1
  <2> HIDE DEF next
  <2> QED
    BY <2>2, <2>3, EraserMoved
<1> QED
  BY <1>1, <1>2

\* A request is given a status.
LEMMA RequestMoved ==
    ASSUME ErasureTypeOK, NEW r \in Requests, NEW status \in {"none"} \cup StandingStatuses \cup ClosedStatuses,
           request' = [request EXCEPT ![r].status = status]
    PROVE  /\ request' \in [Requests -> RequestRow] /\ request'[r].status = status
           /\ \A q \in Requests : q # r => request'[q] = request[q]
BY DEF ErasureTypeOK, RequestRow

\* Orders and payments begin and end.
LEMMA OwedOrPaid ==
    ASSUME ErasureInv, ~ErasureOverlap, OwingChanges
    PROVE  ErasureInv'
<1>y. /\ request \in [Requests -> RequestRow] /\ eraser \in [Erasers -> EraserType]
      /\ erased \in BOOLEAN /\ owing \in BOOLEAN /\ photo \in {"none", "named", "loose"} /\ erasureFaults \in Nat
  BY DEF ErasureInv, ErasureTypeOK, RequestRow, EraserType
<1>i. /\ ErasureTypeOK /\ ErasingStands /\ ListsAreOfTheJob /\ PhotoSeen /\ LooseWasSeen
      /\ UpdatesByHand /\ ErasedOwesNothing
  BY DEF ErasureInv
<1>l. \A f \in Erasers : eraser[f].rest \subseteq Requests
  BY <1>y DEF EraserType
<1>e1. request' = request /\ erased' = erased /\ photo' = photo /\ eraser' = eraser /\ erasureFaults' = erasureFaults
  BY DEF OwingChanges
<1>e2. \A f \in Erasers : eraser[f].at \notin {"read", "erase"}
  BY DEF OwingChanges, ErasureQuiet
<1>e3. owing' = ~ owing /\ (~ erased \/ owing)
  BY DEF OwingChanges
<1>e4. owing' \in BOOLEAN
  BY <1>e3
<1>1. ErasureTypeOK'
  BY <1>i, <1>e1, <1>e4 DEF ErasureTypeOK, RequestRow, EraserType
<1>2. ErasingStands'
  BY <1>i, <1>e1, <1>e2 DEF ErasingStands, Standing, StandingStatuses
<1>3. ListsAreOfTheJob'
  BY <1>i, <1>e1, <1>e2 DEF ListsAreOfTheJob
<1>4. PhotoSeen'
  BY <1>l, <1>e1, <1>e2 DEF PhotoSeen
<1>5. LooseWasSeen'
  BY <1>i, <1>e1, <1>e2 DEF LooseWasSeen
<1>6. UpdatesByHand'
  BY <1>i, <1>e1, <1>e2 DEF UpdatesByHand
<1>7. ErasedOwesNothing'
  BY <1>e1, <1>e3, <1>e4 DEF ErasedOwesNothing, ErasingStands
<1> QED
  BY <1>1, <1>2, <1>3, <1>4, <1>5, <1>6, <1>7 DEF ErasureInv

\* A photo is sent to support.
LEMMA PhotoSent ==
    ASSUME ErasureInv, ~ErasureOverlap, SendPhoto
    PROVE  ErasureInv'
<1>y. /\ request \in [Requests -> RequestRow] /\ eraser \in [Erasers -> EraserType]
      /\ erased \in BOOLEAN /\ owing \in BOOLEAN /\ photo \in {"none", "named", "loose"} /\ erasureFaults \in Nat
  BY DEF ErasureInv, ErasureTypeOK, RequestRow, EraserType
<1>i. /\ ErasureTypeOK /\ ErasingStands /\ ListsAreOfTheJob /\ PhotoSeen /\ LooseWasSeen
      /\ UpdatesByHand /\ ErasedOwesNothing
  BY DEF ErasureInv
<1>l. \A f \in Erasers : eraser[f].rest \subseteq Requests
  BY <1>y DEF EraserType
<1>e1. request' = request /\ erased' = erased /\ owing' = owing /\ eraser' = eraser /\ erasureFaults' = erasureFaults /\ photo' = "named"
  BY DEF SendPhoto
<1>e2. \A f \in Erasers : eraser[f].at \notin {"read", "erase"}
  BY DEF SendPhoto, ErasureQuiet
<1>1. ErasureTypeOK'
  BY <1>i, <1>e1, <1>e2 DEF ErasureTypeOK, RequestRow, EraserType
<1>2. ErasingStands'
  BY <1>i, <1>e1, <1>e2 DEF ErasingStands, Standing, StandingStatuses
<1>3. ListsAreOfTheJob'
  BY <1>i, <1>e1, <1>e2 DEF ListsAreOfTheJob
<1>4. PhotoSeen'
  BY <1>y, <1>i, <1>l, <1>e1, <1>e2 DEF PhotoSeen
<1>5. LooseWasSeen'
  BY <1>l, <1>e1, <1>e2 DEF LooseWasSeen
<1>6. UpdatesByHand'
  BY <1>i, <1>e1, <1>e2 DEF UpdatesByHand
<1>7. ErasedOwesNothing'
  BY <1>i, <1>e1, <1>e2 DEF ErasedOwesNothing, ErasingStands
<1> QED
  BY <1>1, <1>2, <1>3, <1>4, <1>5, <1>6, <1>7 DEF ErasureInv

\* The customer confirms with a code.
LEMMA ConfirmationOpened ==
    ASSUME ErasureInv, ~ErasureOverlap, NEW e \in Erasers, OpenConfirmation(e)
    PROVE  ErasureInv'
<1>y. /\ request \in [Requests -> RequestRow] /\ eraser \in [Erasers -> EraserType]
      /\ erased \in BOOLEAN /\ owing \in BOOLEAN /\ photo \in {"none", "named", "loose"} /\ erasureFaults \in Nat
  BY DEF ErasureInv, ErasureTypeOK, RequestRow, EraserType
<1>i. /\ ErasureTypeOK /\ ErasingStands /\ ListsAreOfTheJob /\ PhotoSeen /\ LooseWasSeen
      /\ UpdatesByHand /\ ErasedOwesNothing
  BY DEF ErasureInv
<1>l. \A f \in Erasers : eraser[f].rest \subseteq Requests
  BY <1>y DEF EraserType
<1>e1. request' = request /\ erased' = erased /\ owing' = owing /\ photo' = photo /\ erasureFaults' = erasureFaults
  BY DEF OpenConfirmation
<1>e2. \A f \in Erasers : eraser[f].at \notin {"read", "erase"}
  BY DEF OpenConfirmation, ErasureQuiet
<1>e3. /\ eraser' \in [Erasers -> EraserType]
       /\ \A f \in Erasers : f # e => eraser'[f] = eraser[f]
       /\ eraser'[e].at = "schedule" /\ eraser'[e].rest = eraser[e].rest
  <2> DEFINE call == [eraser[e] EXCEPT !.at = "schedule"]
  <2>1. call \in EraserType /\ call.at = "schedule" /\ call.rest = eraser[e].rest
    BY <1>y DEF EraserType
  <2>2. eraser' = [eraser EXCEPT ![e] = call]
    BY <1>y DEF OpenConfirmation
  <2> HIDE DEF call
  <2> QED
    BY <1>i, <2>1, <2>2, EraserMoved
<1>e4. eraser[e].rest = {} /\ eraser[e].at # "photos"
  BY DEF OpenConfirmation, NoErasing
<1>1. ErasureTypeOK'
  BY <1>i, <1>e1, <1>e3 DEF ErasureTypeOK, RequestRow, EraserType
<1>2. ErasingStands'
  BY <1>i, <1>e1, <1>e3 DEF ErasingStands, Standing, StandingStatuses
<1>3. ListsAreOfTheJob'
  BY <1>i, <1>e3, <1>e4 DEF ListsAreOfTheJob
<1>4. PhotoSeen'
  BY <1>e2, <1>e3, <1>e4 DEF PhotoSeen
<1>5. LooseWasSeen'
  <2>1. \A f \in Erasers : eraser[f].at = "photos" => eraser'[f] = eraser[f]
    BY <1>e2, <1>e3, <1>e4
  <2>2. photo' = "loose" => photo = "loose"
    BY <1>e1
  <2> QED
    BY <1>e1, <1>e2, <1>e3, <1>e4, <1>i, <2>1, <2>2 DEF LooseWasSeen
<1>6. UpdatesByHand'
  BY <1>i, <1>e1, <1>e3 DEF UpdatesByHand
<1>7. ErasedOwesNothing'
  BY <1>i, <1>e1, <1>e4 DEF ErasedOwesNothing, ErasingStands
<1> QED
  BY <1>1, <1>2, <1>3, <1>4, <1>5, <1>6, <1>7 DEF ErasureInv

\* A deletion is scheduled.
LEMMA ErasureScheduled ==
    ASSUME ErasureInv, ~ErasureOverlap, NEW e \in Erasers, NEW r \in Requests, ScheduleErasure(e, r)
    PROVE  ErasureInv'
<1>y. /\ request \in [Requests -> RequestRow] /\ eraser \in [Erasers -> EraserType]
      /\ erased \in BOOLEAN /\ owing \in BOOLEAN /\ photo \in {"none", "named", "loose"} /\ erasureFaults \in Nat
  BY DEF ErasureInv, ErasureTypeOK, RequestRow, EraserType
<1>i. /\ ErasureTypeOK /\ ErasingStands /\ ListsAreOfTheJob /\ PhotoSeen /\ LooseWasSeen
      /\ UpdatesByHand /\ ErasedOwesNothing
  BY DEF ErasureInv
<1>l. \A f \in Erasers : eraser[f].rest \subseteq Requests
  BY <1>y DEF EraserType
<1>e1. erased' = erased /\ owing' = owing /\ photo' = photo /\ erasureFaults' = erasureFaults /\ request[r].status = "none"
  BY DEF ScheduleErasure
<1>e2. \A f \in Erasers : eraser[f].at \notin {"read", "erase"}
  BY DEF ScheduleErasure, ErasureQuiet
<1>e3. /\ eraser' \in [Erasers -> EraserType]
       /\ \A f \in Erasers : f # e => eraser'[f] = eraser[f]
       /\ eraser'[e].at = "idle" /\ eraser'[e].rest = {}
  BY <1>i, EraserDone DEF ScheduleErasure
<1>e4. /\ request' \in [Requests -> RequestRow] /\ request'[r].status = "SCHEDULED"
       /\ \A p \in Requests : p # r => request'[p] = request[p]
  BY <1>i, RequestMoved DEF ScheduleErasure, StandingStatuses
<1>e5. eraser[e].at # "photos"
  BY DEF ScheduleErasure
<1>1. ErasureTypeOK'
  BY <1>i, <1>e1, <1>e3, <1>e4 DEF ErasureTypeOK, RequestRow, EraserType
<1>2. ErasingStands'
  BY <1>i, <1>e1, <1>e2, <1>e3 DEF ErasingStands, Standing, StandingStatuses
<1>3. ListsAreOfTheJob'
  BY <1>i, <1>e3, <1>e5 DEF ListsAreOfTheJob
<1>4. PhotoSeen'
  BY <1>e2, <1>e3, <1>e5 DEF PhotoSeen
<1>5. LooseWasSeen'
  <2>1. \A f \in Erasers : eraser[f].at = "photos" => eraser'[f] = eraser[f]
    BY <1>e2, <1>e3, <1>e5
  <2>2. photo' = "loose" => photo = "loose"
    BY <1>e1
  <2> QED
    BY <1>e1, <1>e2, <1>e3, <1>e4, <1>e5, <1>i, <2>1, <2>2 DEF LooseWasSeen
<1>6. UpdatesByHand'
  BY <1>i, <1>e1, <1>e3, <1>e4 DEF UpdatesByHand
<1>7. ErasedOwesNothing'
  BY <1>i, <1>e1, <1>e5 DEF ErasedOwesNothing, ErasingStands
<1> QED
  BY <1>1, <1>2, <1>3, <1>4, <1>5, <1>6, <1>7 DEF ErasureInv

\* What is scheduled is called off.
LEMMA ErasureCancelled ==
    ASSUME ErasureInv, ~ErasureOverlap, CancelMyErasure
    PROVE  ErasureInv'
<1>y. /\ request \in [Requests -> RequestRow] /\ eraser \in [Erasers -> EraserType]
      /\ erased \in BOOLEAN /\ owing \in BOOLEAN /\ photo \in {"none", "named", "loose"} /\ erasureFaults \in Nat
  BY DEF ErasureInv, ErasureTypeOK, RequestRow, EraserType
<1>i. /\ ErasureTypeOK /\ ErasingStands /\ ListsAreOfTheJob /\ PhotoSeen /\ LooseWasSeen
      /\ UpdatesByHand /\ ErasedOwesNothing
  BY DEF ErasureInv
<1>l. \A f \in Erasers : eraser[f].rest \subseteq Requests
  BY <1>y DEF EraserType
<1>e1. erased' = erased /\ owing' = owing /\ photo' = photo /\ eraser' = eraser /\ erasureFaults' = erasureFaults
  BY DEF CancelMyErasure
<1>e2. \A f \in Erasers : eraser[f].at \notin {"read", "erase"}
  BY DEF CancelMyErasure, ErasureQuiet
<1>e3. /\ request' \in [Requests -> RequestRow]
       /\ \A p \in Requests :
             request'[p] = request[p] \/ (request[p].status = "SCHEDULED" /\ request'[p].status = "CANCELLED")
  <2>1. ASSUME NEW p \in Requests
        PROVE  /\ request'[p] \in RequestRow
               /\ \/ request'[p] = request[p]
                  \/ request[p].status = "SCHEDULED" /\ request'[p].status = "CANCELLED"
    <3> DEFINE row == [request[p] EXCEPT !.status = "CANCELLED"]
    <3>1. row \in RequestRow /\ row.status = "CANCELLED"
      BY <1>y DEF RequestRow, ClosedStatuses
    <3>2. request'[p] = IF request[p].status = "SCHEDULED" THEN row ELSE request[p]
      BY DEF CancelMyErasure
    <3> HIDE DEF row
    <3> QED
      BY <1>y, <3>1, <3>2
  <2>2. request' = [p \in Requests |-> request'[p]]
    BY DEF CancelMyErasure
  <2>3. request' \in [Requests -> RequestRow]
    BY <2>1, <2>2, Zenon
  <2> QED
    BY <2>1, <2>3
<1>1. ErasureTypeOK'
  BY <1>i, <1>e1, <1>e3 DEF ErasureTypeOK, RequestRow, EraserType
<1>2. ErasingStands'
  BY <1>i, <1>e1, <1>e2 DEF ErasingStands, Standing, StandingStatuses
<1>3. ListsAreOfTheJob'
  BY <1>i, <1>e1, <1>e2 DEF ListsAreOfTheJob
<1>4. PhotoSeen'
  BY <1>l, <1>e1, <1>e2 DEF PhotoSeen
<1>5. LooseWasSeen'
  BY <1>i, <1>e1, <1>e2 DEF LooseWasSeen
<1>6. UpdatesByHand'
  BY <1>i, <1>e1, <1>e3 DEF UpdatesByHand
<1>7. ErasedOwesNothing'
  BY <1>i, <1>e1, <1>e3 DEF ErasedOwesNothing, ErasingStands
<1> QED
  BY <1>1, <1>2, <1>3, <1>4, <1>5, <1>6, <1>7 DEF ErasureInv

\* One the shop has not started on is withdrawn.
LEMMA RequestWithdrawn ==
    ASSUME ErasureInv, ~ErasureOverlap, NEW r \in Requests, WithdrawRequest(r)
    PROVE  ErasureInv'
<1>y. /\ request \in [Requests -> RequestRow] /\ eraser \in [Erasers -> EraserType]
      /\ erased \in BOOLEAN /\ owing \in BOOLEAN /\ photo \in {"none", "named", "loose"} /\ erasureFaults \in Nat
  BY DEF ErasureInv, ErasureTypeOK, RequestRow, EraserType
<1>i. /\ ErasureTypeOK /\ ErasingStands /\ ListsAreOfTheJob /\ PhotoSeen /\ LooseWasSeen
      /\ UpdatesByHand /\ ErasedOwesNothing
  BY DEF ErasureInv
<1>l. \A f \in Erasers : eraser[f].rest \subseteq Requests
  BY <1>y DEF EraserType
<1>e1. erased' = erased /\ owing' = owing /\ photo' = photo /\ eraser' = eraser /\ erasureFaults' = erasureFaults
  BY DEF WithdrawRequest
<1>e2. \A f \in Erasers : eraser[f].at \notin {"read", "erase"}
  BY DEF WithdrawRequest, ErasureQuiet
<1>e3. /\ request' \in [Requests -> RequestRow] /\ request'[r].status = "CANCELLED"
       /\ \A p \in Requests : p # r => request'[p] = request[p]
  BY <1>i, RequestMoved DEF WithdrawRequest, ClosedStatuses
<1>1. ErasureTypeOK'
  BY <1>i, <1>e1, <1>e3 DEF ErasureTypeOK, RequestRow, EraserType
<1>2. ErasingStands'
  BY <1>i, <1>e1, <1>e2 DEF ErasingStands, Standing, StandingStatuses
<1>3. ListsAreOfTheJob'
  BY <1>i, <1>e1, <1>e2 DEF ListsAreOfTheJob
<1>4. PhotoSeen'
  BY <1>l, <1>e1, <1>e2 DEF PhotoSeen
<1>5. LooseWasSeen'
  BY <1>i, <1>e1, <1>e2 DEF LooseWasSeen
<1>6. UpdatesByHand'
  BY <1>i, <1>e1, <1>e3 DEF UpdatesByHand
<1>7. ErasedOwesNothing'
  BY <1>i, <1>e1, <1>e3 DEF ErasedOwesNothing, ErasingStands
<1> QED
  BY <1>1, <1>2, <1>3, <1>4, <1>5, <1>6, <1>7 DEF ErasureInv

\* The shop records one.
LEMMA RequestRecorded ==
    ASSUME ErasureInv, ~ErasureOverlap, NEW r \in Requests, RecordRequest(r)
    PROVE  ErasureInv'
<1>y. /\ request \in [Requests -> RequestRow] /\ eraser \in [Erasers -> EraserType]
      /\ erased \in BOOLEAN /\ owing \in BOOLEAN /\ photo \in {"none", "named", "loose"} /\ erasureFaults \in Nat
  BY DEF ErasureInv, ErasureTypeOK, RequestRow, EraserType
<1>i. /\ ErasureTypeOK /\ ErasingStands /\ ListsAreOfTheJob /\ PhotoSeen /\ LooseWasSeen
      /\ UpdatesByHand /\ ErasedOwesNothing
  BY DEF ErasureInv
<1>l. \A f \in Erasers : eraser[f].rest \subseteq Requests
  BY <1>y DEF EraserType
<1>e1. erased' = erased /\ owing' = owing /\ photo' = photo /\ eraser' = eraser /\ erasureFaults' = erasureFaults
  BY DEF RecordRequest
<1>e2. \A f \in Erasers : eraser[f].at \notin {"read", "erase"}
  BY DEF RecordRequest, ErasureQuiet
<1>e3. /\ request' \in [Requests -> RequestRow] /\ request'[r].status = "OPEN"
       /\ \A p \in Requests : p # r => request'[p] = request[p]
  BY <1>i, RequestMoved DEF RecordRequest, StandingStatuses
<1>1. ErasureTypeOK'
  BY <1>i, <1>e1, <1>e3 DEF ErasureTypeOK, RequestRow, EraserType
<1>2. ErasingStands'
  BY <1>i, <1>e1, <1>e2 DEF ErasingStands, Standing, StandingStatuses
<1>3. ListsAreOfTheJob'
  BY <1>i, <1>e1, <1>e2 DEF ListsAreOfTheJob
<1>4. PhotoSeen'
  BY <1>l, <1>e1, <1>e2 DEF PhotoSeen
<1>5. LooseWasSeen'
  BY <1>i, <1>e1, <1>e2 DEF LooseWasSeen
<1>6. UpdatesByHand'
  BY <1>i, <1>e1, <1>e3 DEF UpdatesByHand
<1>7. ErasedOwesNothing'
  BY <1>i, <1>e1, <1>e3 DEF ErasedOwesNothing, ErasingStands
<1> QED
  BY <1>1, <1>2, <1>3, <1>4, <1>5, <1>6, <1>7 DEF ErasureInv

\* The shop moves a request along by hand.
LEMMA UpdateOpened ==
    ASSUME ErasureInv, ~ErasureOverlap, NEW e \in Erasers, NEW r \in Requests, NEW status \in HandStatuses, OpenUpdate(e, r, status)
    PROVE  ErasureInv'
<1>y. /\ request \in [Requests -> RequestRow] /\ eraser \in [Erasers -> EraserType]
      /\ erased \in BOOLEAN /\ owing \in BOOLEAN /\ photo \in {"none", "named", "loose"} /\ erasureFaults \in Nat
  BY DEF ErasureInv, ErasureTypeOK, RequestRow, EraserType
<1>i. /\ ErasureTypeOK /\ ErasingStands /\ ListsAreOfTheJob /\ PhotoSeen /\ LooseWasSeen
      /\ UpdatesByHand /\ ErasedOwesNothing
  BY DEF ErasureInv
<1>l. \A f \in Erasers : eraser[f].rest \subseteq Requests
  BY <1>y DEF EraserType
<1>e1. request' = request /\ erased' = erased /\ owing' = owing /\ photo' = photo /\ erasureFaults' = erasureFaults
  BY DEF OpenUpdate
<1>e2. \A f \in Erasers : eraser[f].at \notin {"read", "erase"}
  BY DEF OpenUpdate, ErasureQuiet
<1>e3. /\ eraser' \in [Erasers -> EraserType]
       /\ \A f \in Erasers : f # e => eraser'[f] = eraser[f]
       /\ eraser'[e].at = "update" /\ eraser'[e].request = r /\ eraser'[e].to = status /\ eraser'[e].rest = {}
  <2> DEFINE call == [[[NoErasing EXCEPT !.at = "update"] EXCEPT !.request = r] EXCEPT !.to = status]
  <2>1. call \in EraserType /\ call.at = "update" /\ call.request = r /\ call.to = status /\ call.rest = {}
    BY NotErasing, ErasureAssumption DEF EraserType
  <2>2. eraser' = [eraser EXCEPT ![e] = call]
    BY <1>y DEF OpenUpdate
  <2> HIDE DEF call
  <2> QED
    BY <1>i, <2>1, <2>2, EraserMoved
<1>e4. request[r].status \notin {"none", "SCHEDULED"} /\ status \notin {"none", "SCHEDULED"}
  BY ErasureAssumption DEF OpenUpdate, MovedByHand, StandingStatuses, ClosedStatuses
<1>e5. eraser[e].at # "photos"
  BY DEF OpenUpdate, NoErasing
<1>1. ErasureTypeOK'
  BY <1>i, <1>e1, <1>e3 DEF ErasureTypeOK, RequestRow, EraserType
<1>2. ErasingStands'
  BY <1>i, <1>e1, <1>e3 DEF ErasingStands, Standing, StandingStatuses
<1>3. ListsAreOfTheJob'
  BY <1>i, <1>e3, <1>e5 DEF ListsAreOfTheJob
<1>4. PhotoSeen'
  BY <1>e2, <1>e3, <1>e5 DEF PhotoSeen
<1>5. LooseWasSeen'
  <2>1. \A f \in Erasers : eraser[f].at = "photos" => eraser'[f] = eraser[f]
    BY <1>e2, <1>e3, <1>e5
  <2>2. photo' = "loose" => photo = "loose"
    BY <1>e1
  <2> QED
    BY <1>e1, <1>e2, <1>e3, <1>e4, <1>e5, <1>i, <2>1, <2>2 DEF LooseWasSeen
<1>6. UpdatesByHand'
  BY <1>i, <1>e1, <1>e3, <1>e4 DEF UpdatesByHand
<1>7. ErasedOwesNothing'
  BY <1>i, <1>e1, <1>e5 DEF ErasedOwesNothing, ErasingStands
<1> QED
  BY <1>1, <1>2, <1>3, <1>4, <1>5, <1>6, <1>7 DEF ErasureInv

\* It is written, whatever it is by then.
LEMMA RequestUpdated ==
    ASSUME ErasureInv, ~ErasureOverlap, NEW e \in Erasers, UpdateRequest(e)
    PROVE  ErasureInv'
<1>y. /\ request \in [Requests -> RequestRow] /\ eraser \in [Erasers -> EraserType]
      /\ erased \in BOOLEAN /\ owing \in BOOLEAN /\ photo \in {"none", "named", "loose"} /\ erasureFaults \in Nat
  BY DEF ErasureInv, ErasureTypeOK, RequestRow, EraserType
<1>i. /\ ErasureTypeOK /\ ErasingStands /\ ListsAreOfTheJob /\ PhotoSeen /\ LooseWasSeen
      /\ UpdatesByHand /\ ErasedOwesNothing
  BY DEF ErasureInv
<1>l. \A f \in Erasers : eraser[f].rest \subseteq Requests
  BY <1>y DEF EraserType
<1>e1. erased' = erased /\ owing' = owing /\ photo' = photo /\ erasureFaults' = erasureFaults
  BY DEF UpdateRequest
<1>e2. \A f \in Erasers : eraser[f].at \notin {"read", "erase"}
  BY DEF UpdateRequest, ErasureQuiet
<1>e3. /\ eraser' \in [Erasers -> EraserType]
       /\ \A f \in Erasers : f # e => eraser'[f] = eraser[f]
       /\ eraser'[e].at = "idle" /\ eraser'[e].rest = {}
  BY <1>i, EraserDone DEF UpdateRequest
<1>e4. eraser[e].request \in Requests /\ eraser[e].to \notin {"none", "SCHEDULED"} /\ eraser[e].to \in {"none"} \cup StandingStatuses \cup ClosedStatuses
  BY <1>y, <1>i DEF UpdateRequest, UpdatesByHand, EraserType
<1>e5. /\ request' \in [Requests -> RequestRow] /\ request'[eraser[e].request].status = eraser[e].to
       /\ \A p \in Requests : p # eraser[e].request => request'[p] = request[p]
  BY <1>i, <1>e4, RequestMoved DEF UpdateRequest
<1>e6. eraser[e].at # "photos"
  BY DEF UpdateRequest
<1>1. ErasureTypeOK'
  BY <1>i, <1>e1, <1>e3, <1>e5 DEF ErasureTypeOK, RequestRow, EraserType
<1>2. ErasingStands'
  BY <1>i, <1>e1, <1>e2, <1>e3 DEF ErasingStands, Standing, StandingStatuses
<1>3. ListsAreOfTheJob'
  BY <1>i, <1>e3, <1>e6 DEF ListsAreOfTheJob
<1>4. PhotoSeen'
  BY <1>e2, <1>e3, <1>e6 DEF PhotoSeen
<1>5. LooseWasSeen'
  <2>1. \A f \in Erasers : eraser[f].at = "photos" => eraser'[f] = eraser[f]
    BY <1>e3, <1>e5, <1>e6
  <2>2. photo' = "loose" => photo = "loose"
    BY <1>e1
  <2> QED
    BY <1>e1, <1>e2, <1>e3, <1>e4, <1>e5, <1>e6, <1>i, <2>1, <2>2 DEF LooseWasSeen
<1>6. UpdatesByHand'
  BY <1>i, <1>e3, <1>e4, <1>e5 DEF UpdatesByHand
<1>7. ErasedOwesNothing'
  BY <1>i, <1>e1, <1>e6 DEF ErasedOwesNothing, ErasingStands
<1> QED
  BY <1>1, <1>2, <1>3, <1>4, <1>5, <1>6, <1>7 DEF ErasureInv

\* The shop erases at once.
LEMMA ErasedNow ==
    ASSUME ErasureInv, ~ErasureOverlap, NEW e \in Erasers, NEW r \in Requests, EraseNow(e, r)
    PROVE  ErasureInv'
<1>y. /\ request \in [Requests -> RequestRow] /\ eraser \in [Erasers -> EraserType]
      /\ erased \in BOOLEAN /\ owing \in BOOLEAN /\ photo \in {"none", "named", "loose"} /\ erasureFaults \in Nat
  BY DEF ErasureInv, ErasureTypeOK, RequestRow, EraserType
<1>i. /\ ErasureTypeOK /\ ErasingStands /\ ListsAreOfTheJob /\ PhotoSeen /\ LooseWasSeen
      /\ UpdatesByHand /\ ErasedOwesNothing
  BY DEF ErasureInv
<1>l. \A f \in Erasers : eraser[f].rest \subseteq Requests
  BY <1>y DEF EraserType
<1>e1. request' = request /\ erased' = erased /\ owing' = owing /\ photo' = photo /\ erasureFaults' = erasureFaults /\ Standing(r)
  BY DEF EraseNow
<1>e2. \A f \in Erasers : eraser[f].at \notin {"read", "erase"}
  BY DEF EraseNow, ErasureQuiet
<1>e3. /\ eraser' \in [Erasers -> EraserType]
       /\ \A f \in Erasers : f # e => eraser'[f] = eraser[f]
       /\ eraser'[e].at = "read" /\ eraser'[e].request = r /\ eraser'[e].rest = {}
  <2> DEFINE call == [[NoErasing EXCEPT !.at = "read"] EXCEPT !.request = r]
  <2>1. call \in EraserType /\ call.at = "read" /\ call.request = r /\ call.rest = {}
    BY NotErasing DEF EraserType
  <2>2. eraser' = [eraser EXCEPT ![e] = call]
    BY <1>y DEF EraseNow
  <2> HIDE DEF call
  <2> QED
    BY <1>i, <2>1, <2>2, EraserMoved
<1>e4. eraser[e].at # "photos"
  BY DEF EraseNow, NoErasing
<1>1. ErasureTypeOK'
  BY <1>i, <1>e1, <1>e3 DEF ErasureTypeOK, RequestRow, EraserType
<1>2. ErasingStands'
  BY <1>i, <1>e1, <1>e3 DEF ErasingStands, Standing, StandingStatuses
<1>3. ListsAreOfTheJob'
  BY <1>i, <1>e3, <1>e4 DEF ListsAreOfTheJob
<1>4. PhotoSeen'
  BY <1>e2, <1>e3, <1>e4 DEF PhotoSeen
<1>5. LooseWasSeen'
  <2>1. \A f \in Erasers : eraser[f].at = "photos" => eraser'[f] = eraser[f]
    BY <1>e2, <1>e3, <1>e4
  <2>2. photo' = "loose" => photo = "loose"
    BY <1>e1
  <2> QED
    BY <1>e1, <1>e2, <1>e3, <1>e4, <1>i, <2>1, <2>2 DEF LooseWasSeen
<1>6. UpdatesByHand'
  BY <1>i, <1>e1, <1>e3 DEF UpdatesByHand
<1>7. ErasedOwesNothing'
  BY <1>i, <1>e1, <1>e4 DEF ErasedOwesNothing, ErasingStands
<1> QED
  BY <1>1, <1>2, <1>3, <1>4, <1>5, <1>6, <1>7 DEF ErasureInv

\* The week is up.
LEMMA WeekPassed ==
    ASSUME ErasureInv, ~ErasureOverlap, NEW r \in Requests, WeekIsUp(r)
    PROVE  ErasureInv'
<1>y. /\ request \in [Requests -> RequestRow] /\ eraser \in [Erasers -> EraserType]
      /\ erased \in BOOLEAN /\ owing \in BOOLEAN /\ photo \in {"none", "named", "loose"} /\ erasureFaults \in Nat
  BY DEF ErasureInv, ErasureTypeOK, RequestRow, EraserType
<1>i. /\ ErasureTypeOK /\ ErasingStands /\ ListsAreOfTheJob /\ PhotoSeen /\ LooseWasSeen
      /\ UpdatesByHand /\ ErasedOwesNothing
  BY DEF ErasureInv
<1>l. \A f \in Erasers : eraser[f].rest \subseteq Requests
  BY <1>y DEF EraserType
<1>e1. erased' = erased /\ owing' = owing /\ photo' = photo /\ eraser' = eraser /\ erasureFaults' = erasureFaults
  BY DEF WeekIsUp
<1>e2. /\ request' \in [Requests -> RequestRow]
       /\ \A p \in Requests : request'[p].status = request[p].status
  BY <1>y DEF WeekIsUp, RequestRow
<1>e3. \A p \in Requests : Standing(p)' <=> Standing(p)
  BY <1>e2 DEF Standing
<1>1. ErasureTypeOK'
  BY <1>i, <1>e1, <1>e2 DEF ErasureTypeOK, RequestRow, EraserType
<1>2. ErasingStands'
  BY <1>e1, <1>e3, <1>i, <1>l DEF ErasingStands
<1>3. ListsAreOfTheJob'
  BY <1>i, <1>l, <1>e1 DEF ListsAreOfTheJob
<1>4. PhotoSeen'
  BY <1>i, <1>l, <1>e1 DEF PhotoSeen
<1>5. LooseWasSeen'
  BY <1>i, <1>l, <1>e1 DEF LooseWasSeen
<1>6. UpdatesByHand'
  BY <1>i, <1>e1, <1>e2 DEF UpdatesByHand
<1>7. ErasedOwesNothing'
  BY <1>i, <1>e1, <1>e2 DEF ErasedOwesNothing, ErasingStands
<1> QED
  BY <1>1, <1>2, <1>3, <1>4, <1>5, <1>6, <1>7 DEF ErasureInv

\* The daily job takes what is due.
LEMMA JobRun ==
    ASSUME ErasureInv, ~ErasureOverlap, NEW e \in Erasers, RunDueErasures(e)
    PROVE  ErasureInv'
<1>y. /\ request \in [Requests -> RequestRow] /\ eraser \in [Erasers -> EraserType]
      /\ erased \in BOOLEAN /\ owing \in BOOLEAN /\ photo \in {"none", "named", "loose"} /\ erasureFaults \in Nat
  BY DEF ErasureInv, ErasureTypeOK, RequestRow, EraserType
<1>i. /\ ErasureTypeOK /\ ErasingStands /\ ListsAreOfTheJob /\ PhotoSeen /\ LooseWasSeen
      /\ UpdatesByHand /\ ErasedOwesNothing
  BY DEF ErasureInv
<1>l. \A f \in Erasers : eraser[f].rest \subseteq Requests
  BY <1>y DEF EraserType
<1>e1. request' = request /\ erased' = erased /\ owing' = owing /\ photo' = photo /\ erasureFaults' = erasureFaults
  BY DEF RunDueErasures
<1>e2. \A f \in Erasers : eraser[f].at \notin {"read", "erase"}
  BY DEF RunDueErasures, ErasureQuiet
<1>e3. DueErasures \in SUBSET Requests /\ \A r \in DueErasures : Standing(r)
  BY DEF DueErasures, Standing, StandingStatuses
<1>e4. /\ eraser' \in [Erasers -> EraserType]
       /\ \A f \in Erasers : f # e => eraser'[f] = eraser[f]
       /\ \/ eraser'[e].at = "idle" /\ eraser'[e].rest = {}
          \/ /\ eraser'[e].at = "read" /\ eraser'[e].request \in DueErasures
             /\ eraser'[e].rest \subseteq DueErasures
  BY <1>i, <1>e3, EraserWentOn DEF RunDueErasures
<1>e5. eraser[e].at # "photos"
  BY DEF RunDueErasures, NoErasing
<1>1. ErasureTypeOK'
  BY <1>i, <1>e1, <1>e4 DEF ErasureTypeOK, RequestRow, EraserType
<1>2. ErasingStands'
  BY <1>i, <1>e1, <1>e3, <1>e4 DEF ErasingStands, Standing, StandingStatuses
<1>3. ListsAreOfTheJob'
  BY <1>i, <1>e4, <1>e5 DEF ListsAreOfTheJob
<1>4. PhotoSeen'
  BY <1>e2, <1>e4, <1>e5 DEF PhotoSeen
<1>5. LooseWasSeen'
  <2>1. \A f \in Erasers : eraser[f].at = "photos" => eraser'[f] = eraser[f]
    BY <1>e2, <1>e4, <1>e5
  <2>2. photo' = "loose" => photo = "loose"
    BY <1>e1
  <2> QED
    BY <1>e1, <1>e2, <1>e3, <1>e4, <1>e5, <1>i, <2>1, <2>2 DEF LooseWasSeen
<1>6. UpdatesByHand'
  BY <1>i, <1>e1, <1>e4 DEF UpdatesByHand
<1>7. ErasedOwesNothing'
  BY <1>i, <1>e1, <1>e5 DEF ErasedOwesNothing, ErasingStands
<1> QED
  BY <1>1, <1>2, <1>3, <1>4, <1>5, <1>6, <1>7 DEF ErasureInv

\* An account that is gone or in the way is left, and the next looked at.
LEMMA CustomerRead ==
    ASSUME ErasureInv, ~ErasureOverlap, NEW e \in Erasers, ReadCustomer(e), erased \/ ErasureBlocked
    PROVE  ErasureInv'
<1>y. /\ request \in [Requests -> RequestRow] /\ eraser \in [Erasers -> EraserType]
      /\ erased \in BOOLEAN /\ owing \in BOOLEAN /\ photo \in {"none", "named", "loose"} /\ erasureFaults \in Nat
  BY DEF ErasureInv, ErasureTypeOK, RequestRow, EraserType
<1>i. /\ ErasureTypeOK /\ ErasingStands /\ ListsAreOfTheJob /\ PhotoSeen /\ LooseWasSeen
      /\ UpdatesByHand /\ ErasedOwesNothing
  BY DEF ErasureInv
<1>l. \A f \in Erasers : eraser[f].rest \subseteq Requests
  BY <1>y DEF EraserType
<1>e1. request' = request /\ erased' = erased /\ owing' = owing /\ photo' = photo /\ erasureFaults' = erasureFaults /\ eraser[e].at = "read" /\ eraser[e].rest \in SUBSET Requests
  BY <1>y DEF ReadCustomer, EraserType
<1>e2. /\ eraser' \in [Erasers -> EraserType]
       /\ \A f \in Erasers : f # e => eraser'[f] = eraser[f]
       /\ \/ eraser'[e].at = "idle" /\ eraser'[e].rest = {}
          \/ /\ eraser'[e].at = "read" /\ eraser'[e].request \in eraser[e].rest
             /\ eraser'[e].rest \subseteq eraser[e].rest
  BY <1>i, <1>e1, EraserWentOn DEF ReadCustomer, EraserGoesOn
<1>1. ErasureTypeOK'
  BY <1>i, <1>e1, <1>e2 DEF ErasureTypeOK, RequestRow, EraserType
<1>2. ErasingStands'
  BY <1>i, <1>e1, <1>e2 DEF ErasingStands, Standing, StandingStatuses
<1>3. ListsAreOfTheJob'
  BY <1>i, <1>e1, <1>e2 DEF ListsAreOfTheJob
<1>4. PhotoSeen'
  BY <1>i, <1>e1, <1>e2 DEF PhotoSeen
<1>5. LooseWasSeen'
  <2>1. \A f \in Erasers : eraser[f].at = "photos" => eraser'[f] = eraser[f]
    BY <1>e1, <1>e2
  <2>2. photo' = "loose" => photo = "loose"
    BY <1>e1, <1>e2
  <2> QED
    BY <1>e1, <1>e2, <1>i, <2>1, <2>2 DEF LooseWasSeen
<1>6. UpdatesByHand'
  BY <1>i, <1>e1, <1>e2 DEF UpdatesByHand
<1>7. ErasedOwesNothing'
  BY <1>i, <1>e1, <1>e2 DEF ErasedOwesNothing, ErasingStands
<1> QED
  BY <1>1, <1>2, <1>3, <1>4, <1>5, <1>6, <1>7 DEF ErasureInv

\* Nothing is in the way.
LEMMA CustomerClear ==
    ASSUME ErasureInv, ~ErasureOverlap, NEW e \in Erasers, ReadCustomer(e), ~ (erased \/ ErasureBlocked)
    PROVE  ErasureInv'
<1>y. /\ request \in [Requests -> RequestRow] /\ eraser \in [Erasers -> EraserType]
      /\ erased \in BOOLEAN /\ owing \in BOOLEAN /\ photo \in {"none", "named", "loose"} /\ erasureFaults \in Nat
  BY DEF ErasureInv, ErasureTypeOK, RequestRow, EraserType
<1>i. /\ ErasureTypeOK /\ ErasingStands /\ ListsAreOfTheJob /\ PhotoSeen /\ LooseWasSeen
      /\ UpdatesByHand /\ ErasedOwesNothing
  BY DEF ErasureInv
<1>l. \A f \in Erasers : eraser[f].rest \subseteq Requests
  BY <1>y DEF EraserType
<1>e1. request' = request /\ erased' = erased /\ owing' = owing /\ photo' = photo /\ erasureFaults' = erasureFaults /\ eraser[e].at = "read" /\ ~ erased /\ ~ owing
  BY DEF ReadCustomer, ErasureBlocked
<1>e2. (photo = "named") \in BOOLEAN
  BY <1>y
<1>e3. /\ eraser' \in [Erasers -> EraserType]
       /\ \A f \in Erasers : f # e => eraser'[f] = eraser[f]
       /\ eraser'[e].at = "erase" /\ eraser'[e].request = eraser[e].request /\ eraser'[e].rest = eraser[e].rest /\ (eraser'[e].sawPhoto <=> photo = "named")
  <2> DEFINE call == [[eraser[e] EXCEPT !.at = "erase"] EXCEPT !.sawPhoto = (photo = "named")]
  <2>1. call \in EraserType /\ call.at = "erase" /\ call.request = eraser[e].request /\ call.rest = eraser[e].rest /\ (call.sawPhoto <=> photo = "named")
    BY <1>y, <1>e2 DEF EraserType
  <2>2. eraser' = [eraser EXCEPT ![e] = call]
    BY <1>y DEF ReadCustomer
  <2> HIDE DEF call
  <2> QED
    BY <1>i, <2>1, <2>2, EraserMoved
<1>1. ErasureTypeOK'
  BY <1>i, <1>e1, <1>e3 DEF ErasureTypeOK, RequestRow, EraserType
<1>2. ErasingStands'
  <2> SUFFICES ASSUME NEW f \in Erasers
               PROVE  /\ eraser'[f].at = "erase" => ~ owing'
                      /\ eraser'[f].at \in {"read", "erase"} /\ ~ erased' =>
                            /\ eraser'[f].request \in Requests /\ Standing(eraser[f].request)'
                            /\ \A r \in eraser'[f].rest : Standing(r)'
                      /\ eraser'[f].at \in {"read", "erase"} => eraser'[f].request \in Requests
                      /\ eraser'[f].at = "photos" => erased'
    BY DEF ErasingStands
  <2>1. CASE f = e
    BY <1>e1, <1>e3, <1>i DEF ErasingStands, Standing
  <2>2. CASE f # e
    <3>1. eraser'[f] = eraser[f]
      BY <1>e1, <1>e3, <2>2
    <3> QED
      BY <1>e1, <1>e2, <1>e3, <1>i, <3>1 DEF ErasingStands, Standing
  <2> QED
    BY <2>1, <2>2
<1>3. ListsAreOfTheJob'
  BY <1>i, <1>e1, <1>e3 DEF ListsAreOfTheJob
<1>4. PhotoSeen'
  BY <1>i, <1>e1, <1>e3 DEF PhotoSeen
<1>5. LooseWasSeen'
  BY <1>i, <1>e1, <1>e3 DEF LooseWasSeen
<1>6. UpdatesByHand'
  BY <1>i, <1>e1, <1>e3 DEF UpdatesByHand
<1>7. ErasedOwesNothing'
  BY <1>l, <1>e1, <1>e3 DEF ErasedOwesNothing, ErasingStands
<1> QED
  BY <1>1, <1>2, <1>3, <1>4, <1>5, <1>6, <1>7 DEF ErasureInv

\* Everything that names the customer goes, and the request is closed with it.
LEMMA CustomerErased ==
    ASSUME ErasureInv, ~ErasureOverlap, NEW e \in Erasers, EraseCustomer(e)
    PROVE  ErasureInv'
<1>y. /\ request \in [Requests -> RequestRow] /\ eraser \in [Erasers -> EraserType]
      /\ erased \in BOOLEAN /\ owing \in BOOLEAN /\ photo \in {"none", "named", "loose"} /\ erasureFaults \in Nat
  BY DEF ErasureInv, ErasureTypeOK, RequestRow, EraserType
<1>i. /\ ErasureTypeOK /\ ErasingStands /\ ListsAreOfTheJob /\ PhotoSeen /\ LooseWasSeen
      /\ UpdatesByHand /\ ErasedOwesNothing
  BY DEF ErasureInv
<1>l. \A f \in Erasers : eraser[f].rest \subseteq Requests
  BY <1>y DEF EraserType
<1>e1. owing' = owing /\ erasureFaults' = erasureFaults /\ erased' /\ ~ owing /\ erased' \in BOOLEAN
  BY <1>i DEF EraseCustomer, ErasingStands
<1>e2. /\ photo' \in {"none", "named", "loose"} /\ photo' # "named"
       /\ photo' = "loose" => photo = "named" \/ photo = "loose"
  BY <1>y DEF EraseCustomer
<1>e3. eraser[e].at = "erase" /\ eraser[e].request \in Requests
  BY <1>i DEF EraseCustomer, ErasingStands
<1>e4. /\ eraser' \in [Erasers -> EraserType]
       /\ \A f \in Erasers : f # e => eraser'[f] = eraser[f]
       /\ eraser'[e].at = "photos" /\ eraser'[e].sawPhoto = eraser[e].sawPhoto
  <2> DEFINE call == [eraser[e] EXCEPT !.at = "photos"]
  <2>1. call \in EraserType /\ call.at = "photos" /\ call.sawPhoto = eraser[e].sawPhoto
    BY <1>y DEF EraserType
  <2>2. eraser' = [eraser EXCEPT ![e] = call]
    BY <1>y DEF EraseCustomer
  <2> HIDE DEF call
  <2> QED
    BY <1>i, <2>1, <2>2, EraserMoved
<1>e5. photo = "named" => eraser[e].sawPhoto
  BY <1>i, <1>e3 DEF PhotoSeen
<1>e6. /\ request' \in [Requests -> RequestRow] /\ request'[eraser[e].request].status = "DONE"
       /\ \A p \in Requests : p # eraser[e].request => request'[p] = request[p]
  BY <1>i, <1>e3, RequestMoved DEF EraseCustomer, ClosedStatuses
<1>1. ErasureTypeOK'
  BY <1>i, <1>e1, <1>e2, <1>e4, <1>e6 DEF ErasureTypeOK, RequestRow, EraserType
<1>2. ErasingStands'
  BY <1>i, <1>e1, <1>e4 DEF ErasingStands, Standing, StandingStatuses
<1>3. ListsAreOfTheJob'
  BY <1>i, <1>e4, <1>e6 DEF ListsAreOfTheJob
<1>4. PhotoSeen'
  BY <1>e2, <1>e5, <1>e6 DEF PhotoSeen
<1>5. LooseWasSeen'
  <2>1. CASE photo = "named"
    BY <1>e4, <1>e5, <2>1 DEF LooseWasSeen
  <2>2. CASE photo = "loose"
    <3>1. erasureFaults > 0 \/ \E f \in Erasers : eraser[f].at = "photos" /\ eraser[f].sawPhoto
      BY <1>i, <2>2 DEF LooseWasSeen
    <3> QED
      BY <1>e1, <1>e2, <1>e3, <1>e4, <1>e5, <1>e6, <3>1 DEF LooseWasSeen
  <2> QED
    BY <1>e2, <2>1, <2>2 DEF LooseWasSeen
<1>6. UpdatesByHand'
  BY <1>i, <1>e4, <1>e6 DEF UpdatesByHand
<1>7. ErasedOwesNothing'
  BY <1>e1, <1>e5, <1>e6 DEF ErasedOwesNothing, ErasingStands
<1> QED
  BY <1>1, <1>2, <1>3, <1>4, <1>5, <1>6, <1>7 DEF ErasureInv

\* The photos it saw are removed from storage, and the next looked at.
LEMMA PhotosDeleted ==
    ASSUME ErasureInv, ~ErasureOverlap, NEW e \in Erasers, DeletePhotos(e)
    PROVE  ErasureInv'
<1>y. /\ request \in [Requests -> RequestRow] /\ eraser \in [Erasers -> EraserType]
      /\ erased \in BOOLEAN /\ owing \in BOOLEAN /\ photo \in {"none", "named", "loose"} /\ erasureFaults \in Nat
  BY DEF ErasureInv, ErasureTypeOK, RequestRow, EraserType
<1>i. /\ ErasureTypeOK /\ ErasingStands /\ ListsAreOfTheJob /\ PhotoSeen /\ LooseWasSeen
      /\ UpdatesByHand /\ ErasedOwesNothing
  BY DEF ErasureInv
<1>l. \A f \in Erasers : eraser[f].rest \subseteq Requests
  BY <1>y DEF EraserType
<1>e1. request' = request /\ erased' = erased /\ owing' = owing /\ eraser[e].at = "photos" /\ erased /\ eraser[e].rest \in SUBSET Requests
  BY <1>y, <1>i DEF DeletePhotos, EraserType, ErasingStands
<1>e2. /\ eraser' \in [Erasers -> EraserType]
       /\ \A f \in Erasers : f # e => eraser'[f] = eraser[f]
       /\ \/ eraser'[e].at = "idle" /\ eraser'[e].rest = {}
          \/ /\ eraser'[e].at = "read" /\ eraser'[e].request \in eraser[e].rest
             /\ eraser'[e].rest \subseteq eraser[e].rest
  BY <1>i, <1>e1, EraserWentOn DEF DeletePhotos, EraserGoesOn
<1>e3. /\ photo' = photo \/ photo' = "none"
       /\ erasureFaults' \in Nat /\ (erasureFaults > 0 => erasureFaults' > 0)
       /\ eraser[e].sawPhoto /\ photo' = photo => erasureFaults' > 0 \/ photo = "none"
  BY <1>y DEF DeletePhotos, ErasureFault
<1>1. ErasureTypeOK'
  BY <1>i, <1>e1, <1>e2, <1>e3 DEF ErasureTypeOK, RequestRow, EraserType
<1>2. ErasingStands'
  BY <1>i, <1>e1, <1>e2 DEF ErasingStands, Standing, StandingStatuses
<1>3. ListsAreOfTheJob'
  BY <1>i, <1>e2, <1>e3 DEF ListsAreOfTheJob
<1>4. PhotoSeen'
  BY <1>i, <1>e2, <1>e3 DEF PhotoSeen
<1>5. LooseWasSeen'
  BY <1>i, <1>e2, <1>e3 DEF LooseWasSeen
<1>6. UpdatesByHand'
  BY <1>i, <1>e1, <1>e2 DEF UpdatesByHand
<1>7. ErasedOwesNothing'
  BY <1>i, <1>e1, <1>e3 DEF ErasedOwesNothing, ErasingStands
<1> QED
  BY <1>1, <1>2, <1>3, <1>4, <1>5, <1>6, <1>7 DEF ErasureInv

\* The call dies.
LEMMA EraserDied ==
    ASSUME ErasureInv, ~ErasureOverlap, NEW e \in Erasers, EraserDies(e)
    PROVE  ErasureInv'
<1>y. /\ request \in [Requests -> RequestRow] /\ eraser \in [Erasers -> EraserType]
      /\ erased \in BOOLEAN /\ owing \in BOOLEAN /\ photo \in {"none", "named", "loose"} /\ erasureFaults \in Nat
  BY DEF ErasureInv, ErasureTypeOK, RequestRow, EraserType
<1>i. /\ ErasureTypeOK /\ ErasingStands /\ ListsAreOfTheJob /\ PhotoSeen /\ LooseWasSeen
      /\ UpdatesByHand /\ ErasedOwesNothing
  BY DEF ErasureInv
<1>l. \A f \in Erasers : eraser[f].rest \subseteq Requests
  BY <1>y DEF EraserType
<1>e1. request' = request /\ erased' = erased /\ owing' = owing /\ photo' = photo /\ erasureFaults' \in Nat /\ erasureFaults' > 0
  BY <1>y DEF EraserDies, ErasureFault
<1>e2. /\ eraser' \in [Erasers -> EraserType]
       /\ \A f \in Erasers : f # e => eraser'[f] = eraser[f]
       /\ eraser'[e].at = "idle" /\ eraser'[e].rest = {}
  BY <1>i, EraserDone DEF EraserDies
<1>1. ErasureTypeOK'
  BY <1>i, <1>e1, <1>e2 DEF ErasureTypeOK, RequestRow, EraserType
<1>2. ErasingStands'
  BY <1>i, <1>e1, <1>e2 DEF ErasingStands, Standing, StandingStatuses
<1>3. ListsAreOfTheJob'
  BY <1>i, <1>e1, <1>e2 DEF ListsAreOfTheJob
<1>4. PhotoSeen'
  BY <1>i, <1>e1, <1>e2 DEF PhotoSeen
<1>5. LooseWasSeen'
  BY <1>l, <1>e1, <1>e2 DEF LooseWasSeen
<1>6. UpdatesByHand'
  BY <1>i, <1>e1, <1>e2 DEF UpdatesByHand
<1>7. ErasedOwesNothing'
  BY <1>i, <1>e1, <1>e2 DEF ErasedOwesNothing, ErasingStands
<1> QED
  BY <1>1, <1>2, <1>3, <1>4, <1>5, <1>6, <1>7 DEF ErasureInv

LEMMA ErasureStep ==
    ASSUME ErasureInv, ~ErasureOverlap, ErasureNext \/ UNCHANGED erasureVars
    PROVE  ErasureInv'
<1>1. ASSUME NEW e \in Erasers, ReadCustomer(e)
      PROVE  ErasureInv'
  <2>1. CASE erased \/ ErasureBlocked
    BY <1>1, <2>1, CustomerRead
  <2>2. CASE ~ (erased \/ ErasureBlocked)
    BY <1>1, <2>2, CustomerClear
  <2> QED
    BY <2>1, <2>2
<1>2. CASE ErasureNext
  BY <1>1, <1>2, OwedOrPaid, PhotoSent, ConfirmationOpened, ErasureScheduled, ErasureCancelled,
     RequestWithdrawn, RequestRecorded, UpdateOpened, RequestUpdated, ErasedNow, WeekPassed, JobRun,
     CustomerErased, PhotosDeleted, EraserDied DEF ErasureNext, EraserMoves
<1>3. CASE UNCHANGED erasureVars
  BY <1>3 DEF erasureVars, ErasureInv, ErasureTypeOK, ErasingStands, Standing, ListsAreOfTheJob, PhotoSeen,
     LooseWasSeen, UpdatesByHand, ErasedOwesNothing
<1> QED
  BY <1>2, <1>3

LEMMA ErasureBegins == ErasureInit => ErasureInv
<1> SUFFICES ASSUME ErasureInit PROVE ErasureInv
  OBVIOUS
<1>1. /\ request \in [Requests -> RequestRow] /\ erased = FALSE /\ owing = FALSE /\ photo = "none"
      /\ erasureFaults = 0 /\ eraser \in [Erasers -> EraserType]
      /\ \A e \in Erasers : eraser[e].at = "idle" /\ eraser[e].rest = {}
  BY NotErasing DEF ErasureInit, RequestRow
<1>2. ErasureTypeOK
  BY <1>1 DEF ErasureTypeOK, RequestRow, EraserType
<1> QED
  BY <1>1, <1>2 DEF ErasureInv, ErasingStands, ListsAreOfTheJob, PhotoSeen, LooseWasSeen, UpdatesByHand,
     ErasedOwesNothing

LEMMA ErasureIsClear ==
    ASSUME ErasureInv
    PROVE  ErasedOwesNothing /\ LoosePhotosGo
BY DEF ErasureInv, LooseWasSeen, LoosePhotosGo

\* An account goes for a request that stands, and what was scheduled is done only
\* with it.
LEMMA ErasedForARequest ==
    ASSUME ErasureInv, ErasureNext
    PROVE  /\ erased' # erased => \E r \in Requests : Standing(r)
           /\ \A r \in Requests : request[r].status = "SCHEDULED" /\ request'[r].status = "DONE" => erased'
<1>i. /\ ErasureTypeOK /\ ErasingStands /\ UpdatesByHand
      /\ request \in [Requests -> RequestRow] /\ erased \in BOOLEAN
  BY DEF ErasureInv, ErasureTypeOK, RequestRow
<1>1. ASSUME NEW e \in Erasers, EraseCustomer(e)
      PROVE  erased' /\ \E r \in Requests : erased' # erased => Standing(r)
  BY <1>i, <1>1 DEF EraseCustomer, ErasingStands
<1>2. ASSUME NEW e \in Erasers, UpdateRequest(e)
      PROVE  /\ erased' = erased
             /\ \A r \in Requests : request[r].status = "SCHEDULED" => request'[r].status = "SCHEDULED"
  BY <1>i, <1>2 DEF UpdateRequest, UpdatesByHand, RequestRow
<1>3. ASSUME NEW e \in Erasers, NEW r \in Requests, ScheduleErasure(e, r)
      PROVE  /\ erased' = erased
             /\ \A q \in Requests : request[q].status = "SCHEDULED" => request'[q].status = "SCHEDULED"
  BY <1>i, <1>3 DEF ScheduleErasure, RequestRow
<1>4. ASSUME NEW r \in Requests, RecordRequest(r) \/ WithdrawRequest(r) \/ WeekIsUp(r)
      PROVE  /\ erased' = erased
             /\ \A q \in Requests : request[q].status = "SCHEDULED" => request'[q].status = "SCHEDULED"
  BY <1>i, <1>4 DEF RecordRequest, WithdrawRequest, WeekIsUp, RequestRow
<1>5. ASSUME CancelMyErasure
      PROVE  /\ erased' = erased
             /\ \A q \in Requests : request[q].status = "SCHEDULED" => request'[q].status # "DONE"
  <2> SUFFICES ASSUME NEW q \in Requests, request[q].status = "SCHEDULED"
               PROVE  erased' = erased /\ request'[q].status # "DONE"
    BY <1>5 DEF CancelMyErasure
  <2>1. request'[q] = [request[q] EXCEPT !.status = "CANCELLED"]
    BY <1>5 DEF CancelMyErasure
  <2> QED
    BY <1>i, <1>5, <2>1 DEF CancelMyErasure, RequestRow
<1>6. ASSUME NEW e \in Erasers,
             \/ OpenConfirmation(e) \/ RunDueErasures(e) \/ ReadCustomer(e) \/ DeletePhotos(e) \/ EraserDies(e)
             \/ OwingChanges \/ SendPhoto
             \/ \E r \in Requests : EraseNow(e, r) \/ \E status \in HandStatuses : OpenUpdate(e, r, status)
      PROVE  erased' = erased /\ request' = request
  BY <1>6 DEF OpenConfirmation, RunDueErasures, ReadCustomer, DeletePhotos, EraserDies, OwingChanges,
     SendPhoto, EraseNow, OpenUpdate
<1>7. CASE OwingChanges \/ SendPhoto
  BY <1>7 DEF OwingChanges, SendPhoto
<1> QED
  BY <1>1, <1>2, <1>3, <1>4, <1>5, <1>6, <1>7 DEF ErasureNext, EraserMoves

-----------------------------------------------------------------------------
(* One-time codes: a code is live, or somebody's.                          *)

CodeRow ==
    [purpose : CodePurposes, consumed : BOOLEAN, expired : BOOLEAN, attempts : Nat,
     used : Nat, usedFor : SUBSET CodePurposes]

CallerType ==
    [at : {"idle", "issue", "kill", "count", "spend"}, purpose : CodePurposes \cup {"none"}, code : Nat]

\* Callers at something are no more than callers, and one fewer when one is done.
LEMMA CallersCounted ==
    ASSUME NEW S \in SUBSET Callers
    PROVE  /\ Cardinality(S) \in Nat /\ Cardinality(S) <= Cardinality(Callers)
           /\ Cardinality(Callers) \in Nat \ {0}
           /\ \A T \in SUBSET S : Cardinality(T) \in Nat /\ Cardinality(T) <= Cardinality(S)
           /\ \A c \in S : Cardinality(S \ {c}) = Cardinality(S) - 1
<1>1. IsFiniteSet(Callers) /\ IsFiniteSet(S)
  BY FS_Subset, OneTimeCodesAssumption
<1>2. Cardinality(Callers) \in Nat /\ Cardinality(S) \in Nat
  BY <1>1, FS_CardinalityType
<1>3. Cardinality(Callers) # 0
  BY <1>1, FS_EmptySet, OneTimeCodesAssumption
<1>4. Cardinality(S) <= Cardinality(Callers)
  BY <1>1, FS_Subset
<1>5. \A T \in SUBSET S : Cardinality(T) \in Nat /\ Cardinality(T) <= Cardinality(S)
  BY <1>1, FS_Subset, FS_CardinalityType
<1>6. \A c \in S : Cardinality(S \ {c}) = Cardinality(S) - 1
  BY <1>1, FS_RemoveElement
<1> QED
  BY <1>2, <1>3, <1>4, <1>5, <1>6

\* One code's row is rewritten.
LEMMA CodeRewritten ==
    ASSUME CodesTypeOK, NEW i \in DOMAIN codes, NEW row \in CodeRow,
           codes' = [codes EXCEPT ![i] = row]
    PROVE  /\ codes' \in Seq(CodeRow)
           /\ Len(codes') = Len(codes) /\ DOMAIN codes' = DOMAIN codes
           /\ codes'[i] = row
           /\ \A j \in DOMAIN codes : j # i => codes'[j] = codes[j]
<1>1. codes \in Seq(CodeRow)
  BY DEF CodesTypeOK, CodeRow
<1> QED
  BY <1>1, ExceptSeq

\* The earlier codes are retired and a new one is the newest.
LEMMA CodeAppended ==
    ASSUME CodesTypeOK, NEW purpose \in CodePurposes,
           codes' = Append(Retired(purpose), NewCode(purpose))
    PROVE  /\ codes' \in Seq(CodeRow)
           /\ Len(codes') = Len(codes) + 1
           /\ DOMAIN codes' = 1..(Len(codes) + 1) /\ DOMAIN codes = 1..Len(codes)
           /\ codes'[Len(codes) + 1] = NewCode(purpose)
           /\ \A j \in DOMAIN codes : codes'[j] = Retired(purpose)[j]
<1>1. codes \in Seq(CodeRow)
  BY DEF CodesTypeOK, CodeRow
<1>2. \A j \in DOMAIN codes : Retired(purpose)[j] \in CodeRow
  <2> TAKE j \in DOMAIN codes
  <2>1. codes[j] \in CodeRow
    BY <1>1
  <2>2. [codes[j] EXCEPT !.consumed = TRUE] \in CodeRow
    BY <2>1 DEF CodeRow
  <2> QED
    BY <2>1, <2>2 DEF Retired
<1>3. Retired(purpose) \in Seq(CodeRow) /\ Len(Retired(purpose)) = Len(codes)
  BY <1>1, <1>2, SeqDef DEF Retired
<1>4. NewCode(purpose) \in CodeRow
  BY DEF NewCode, CodeRow
<1> QED
  BY <1>1, <1>3, <1>4, AppendProperties

\* A caller's request moves on.
LEMMA CallerMoved ==
    ASSUME CodesTypeOK, NEW c \in Callers, NEW row \in CallerType,
           caller' = [caller EXCEPT ![c] = row]
    PROVE  /\ caller' \in [Callers -> CallerType]
           /\ caller'[c] = row
           /\ \A d \in Callers : d # c => caller'[d] = caller[d]
BY DEF CodesTypeOK, CallerType
LEMMA CodesTyped ==
    ASSUME CodesTypeOK
    PROVE  /\ caller \in [Callers -> CallerType]
           /\ Len(codes) \in Nat /\ DOMAIN codes = 1..Len(codes)
           /\ \A i \in DOMAIN codes : /\ codes[i] \in CodeRow
                                      /\ codes[i].attempts \in Nat /\ codes[i].used \in Nat
<1>1. codes \in Seq(CodeRow)
  BY DEF CodesTypeOK, CodeRow
<1>2. caller \in [Callers -> CallerType]
  BY DEF CodesTypeOK, CallerType
<1>3. \A i \in DOMAIN codes : codes[i] \in CodeRow
  BY <1>1, LenProperties, ElementOfSeq
<1>4. \A row \in CodeRow : row.attempts \in Nat /\ row.used \in Nat
  BY DEF CodeRow
<1> QED
  BY <1>1, <1>2, <1>3, <1>4, LenProperties

\* A code is spent.
LEMMA RowSpent ==
    ASSUME NEW row \in CodeRow, NEW spent,
           spent = [[[row EXCEPT !.consumed = TRUE] EXCEPT !.used = row.used + 1]
                      EXCEPT !.usedFor = row.usedFor \cup {row.purpose}]
    PROVE  /\ spent \in CodeRow
           /\ spent.purpose = row.purpose /\ spent.expired = row.expired /\ spent.consumed
           /\ spent.attempts = row.attempts /\ spent.used = row.used + 1
           /\ spent.usedFor = row.usedFor \cup {row.purpose}
<1> DEFINE one == [row EXCEPT !.consumed = TRUE]
<1> DEFINE two == [one EXCEPT !.used = row.used + 1]
<1>1. one \in CodeRow
  BY DEF CodeRow
<1>2. row.used + 1 \in Nat
  BY DEF CodeRow
<1>3. one.used = row.used /\ one.usedFor = row.usedFor /\ one.purpose = row.purpose /\ one.consumed
      /\ one.expired = row.expired /\ one.attempts = row.attempts
  BY DEF CodeRow
<1>4. two \in CodeRow
  <2> HIDE DEF one
  <2> QED
    BY <1>1, <1>2 DEF CodeRow
<1>5. two.used = row.used + 1 /\ two.usedFor = row.usedFor /\ two.purpose = row.purpose /\ two.consumed
      /\ two.expired = row.expired /\ two.attempts = row.attempts
  <2> HIDE DEF one
  <2> QED
    BY <1>1, <1>3 DEF CodeRow
<1>6. row.usedFor \cup {row.purpose} \in SUBSET CodePurposes
  BY DEF CodeRow
<1>7. spent = [two EXCEPT !.usedFor = row.usedFor \cup {row.purpose}]
  OBVIOUS
<1> HIDE DEF two
<1>8. spent \in CodeRow
  BY <1>4, <1>6, <1>7 DEF CodeRow
<1> QED
  BY <1>4, <1>5, <1>7, <1>8 DEF CodeRow

LEMMA SpentTo ==
    ASSUME CodesTypeOK, NEW i \in DOMAIN codes, codes' = Spent(i, codes[i].purpose)
    PROVE  /\ codes' \in Seq(CodeRow) /\ Len(codes') = Len(codes) /\ DOMAIN codes' = DOMAIN codes
           /\ \A j \in DOMAIN codes : j # i => codes'[j] = codes[j]
           /\ codes'[i] \in CodeRow
           /\ codes'[i].purpose = codes[i].purpose /\ codes'[i].expired = codes[i].expired
           /\ codes'[i].consumed
           /\ codes'[i].attempts = codes[i].attempts /\ codes'[i].used = codes[i].used + 1
           /\ codes'[i].usedFor = codes[i].usedFor \cup {codes[i].purpose}
<1> DEFINE row == [[[codes[i] EXCEPT !.consumed = TRUE] EXCEPT !.used = codes[i].used + 1]
                     EXCEPT !.usedFor = codes[i].usedFor \cup {codes[i].purpose}]
<1>1. codes[i] \in CodeRow
  BY CodesTyped
<1>2. codes' = [codes EXCEPT ![i] = row]
  BY CodesTyped DEF Spent
<1>3. /\ row \in CodeRow
      /\ row.purpose = codes[i].purpose /\ row.expired = codes[i].expired /\ row.consumed
      /\ row.attempts = codes[i].attempts /\ row.used = codes[i].used + 1
      /\ row.usedFor = codes[i].usedFor \cup {codes[i].purpose}
  BY <1>1, RowSpent
<1> HIDE DEF row
<1> QED
  BY <1>1, <1>2, <1>3, CodeRewritten

\* A code is asked for, fewer than the limit having been sent.
LEMMA CodeAsked ==
    ASSUME CodesInv, NEW c \in Callers, NEW purpose \in CodePurposes, OpenIssue(c, purpose)
    PROVE  CodesInv'
<1>c. MaxGuesses \in Nat /\ MaxCodesSent \in Nat \ {0}
  BY OneTimeCodesAssumption
<1>y. /\ caller \in [Callers -> CallerType]
      /\ Len(codes) \in Nat /\ DOMAIN codes = 1..Len(codes)
      /\ \A j \in DOMAIN codes : /\ codes[j] \in CodeRow
                               /\ codes[j].attempts \in Nat /\ codes[j].used \in Nat
  BY CodesTyped DEF CodesInv
<1>i. /\ CallersHoldCodes /\ GoodOnceSpent /\ OneLive /\ Allowance
      /\ ConfirmsOnce /\ PurposesKeptApart /\ CodesTypeOK
  BY DEF CodesInv
<1>e1. codes' = codes /\ Len(codes) < MaxCodesSent /\ caller[c].at = "idle"
  BY DEF OpenIssue, CodesSent, IdleCaller
<1>e2. /\ caller' \in [Callers -> CallerType] /\ \A d \in Callers : d # c => caller'[d] = caller[d]
       /\ caller'[c].at = "issue" /\ caller'[c].purpose = purpose
  <2>1. [at |-> "issue", purpose |-> purpose, code |-> 0] \in CallerType
    BY DEF CallerType
  <2> QED
    BY <2>1, CallerMoved DEF OpenIssue, CodesInv
<1>1. CodesTypeOK'
  BY <1>i, <1>e1, <1>e2 DEF CodesTypeOK, CodeRow, CallerType
<1>2. CallersHoldCodes'
  BY <1>i, <1>e1, <1>e2 DEF CallersHoldCodes
<1>3. GoodOnceSpent'
  BY <1>y, <1>i, <1>e1 DEF GoodOnceSpent
<1>4. OneLive'
  BY <1>y, <1>i, <1>e1 DEF OneLive
<1>5. Allowance'
  <2>1. Len(codes') + Cardinality(Issuing') <= MaxCodesSent + Cardinality(Callers) - 1
    <3>1. Cardinality(Issuing') \in Nat /\ Cardinality(Issuing') <= Cardinality(Callers) /\ Cardinality(Callers) \in Nat
      BY CallersCounted DEF Issuing
    <3> QED
      BY <1>c, <1>y, <1>i, <1>e1, <3>1
  <2>2. ASSUME NEW i \in DOMAIN codes'
        PROVE  /\ codes'[i].attempts + Cardinality(Counting(i)') <= MaxGuesses + Cardinality(Callers) - 1
               /\ codes'[i].used + Cardinality(Spending(i)') <= Cardinality(Callers) \/ codes'[i].purpose # "LOGIN"
    <3>1. Counting(i)' \in SUBSET Counting(i) /\ Spending(i)' \in SUBSET Spending(i)
      BY <1>e1, <1>e2 DEF Counting, Spending
    <3>2. /\ Cardinality(Counting(i)') \in Nat /\ Cardinality(Counting(i)') <= Cardinality(Counting(i))
          /\ Cardinality(Spending(i)') \in Nat /\ Cardinality(Spending(i)') <= Cardinality(Spending(i))
          /\ Cardinality(Counting(i)) \in Nat /\ Cardinality(Spending(i)) \in Nat /\ Cardinality(Callers) \in Nat
      BY <3>1, CallersCounted DEF Counting, Spending
    <3>3. i \in DOMAIN codes /\ codes[i] \in CodeRow
      BY <1>y, <1>i, <1>e1
    <3>4. codes'[i].attempts = codes[i].attempts /\ codes'[i].used = codes[i].used /\ codes'[i].purpose = codes[i].purpose
      BY <1>i, <1>e1, <3>3
    <3>5. codes[i].attempts \in Nat /\ codes[i].used \in Nat
      BY <3>3 DEF CodeRow
    <3>6. codes'[i].attempts + Cardinality(Counting(i)') <= MaxGuesses + Cardinality(Callers) - 1
      BY <1>i, <1>c, <3>2, <3>3, <3>4, <3>5, SMTT(30) DEF Allowance
    <3>7. codes'[i].used + Cardinality(Spending(i)') <= Cardinality(Callers) \/ codes'[i].purpose # "LOGIN"
      BY <1>i, <3>2, <3>3, <3>4, <3>5 DEF Allowance
    <3> QED
      BY <3>6, <3>7
  <2> QED
    BY <2>1, <2>2 DEF Allowance
<1>6. ConfirmsOnce'
  BY <1>y, <1>i, <1>e1 DEF ConfirmsOnce, GoodOnceSpent
<1>7. PurposesKeptApart'
  BY <1>y, <1>i, <1>e1 DEF PurposesKeptApart
<1> QED
  BY <1>1, <1>2, <1>3, <1>4, <1>5, <1>6, <1>7 DEF CodesInv

\* The earlier codes are retired and the new one is written.
LEMMA CodeIssued ==
    ASSUME CodesInv, NEW c \in Callers, IssueCode(c)
    PROVE  CodesInv'
<1>c. MaxGuesses \in Nat /\ MaxCodesSent \in Nat \ {0}
  BY OneTimeCodesAssumption
<1>y. /\ caller \in [Callers -> CallerType]
      /\ Len(codes) \in Nat /\ DOMAIN codes = 1..Len(codes)
      /\ \A j \in DOMAIN codes : /\ codes[j] \in CodeRow
                               /\ codes[j].attempts \in Nat /\ codes[j].used \in Nat
  BY CodesTyped DEF CodesInv
<1>i. /\ CallersHoldCodes /\ GoodOnceSpent /\ OneLive /\ Allowance
      /\ ConfirmsOnce /\ PurposesKeptApart /\ CodesTypeOK
  BY DEF CodesInv
<1>e1. caller[c].at = "issue" /\ caller[c].purpose \in CodePurposes
  BY <1>i DEF IssueCode, CallersHoldCodes
<1>e2. /\ codes' \in Seq(CodeRow)
       /\ Len(codes') = Len(codes) + 1 /\ DOMAIN codes' = 1..(Len(codes) + 1)
       /\ codes'[Len(codes) + 1] = NewCode(caller[c].purpose)
       /\ \A j \in DOMAIN codes : codes'[j] = Retired(caller[c].purpose)[j]
  BY <1>e1, CodeAppended DEF IssueCode, CodesInv
<1>e3. /\ codes'[Len(codes) + 1].purpose = caller[c].purpose /\ ~ codes'[Len(codes) + 1].consumed
       /\ codes'[Len(codes) + 1].attempts = 0 /\ codes'[Len(codes) + 1].used = 0
       /\ codes'[Len(codes) + 1].usedFor = {}
  BY <1>e2 DEF NewCode
<1>e4. \A j \in DOMAIN codes :
          /\ codes'[j].purpose = codes[j].purpose /\ codes'[j].expired = codes[j].expired
          /\ codes'[j].attempts = codes[j].attempts /\ codes'[j].used = codes[j].used
          /\ codes'[j].usedFor = codes[j].usedFor
          /\ codes[j].consumed => codes'[j].consumed
          /\ codes[j].purpose = caller[c].purpose => codes'[j].consumed \/ codes'[j].expired
  BY <1>y, <1>e2 DEF Retired, CodeRow
<1>e5. /\ caller' \in [Callers -> CallerType] /\ caller'[c].at = "idle"
       /\ \A d \in Callers : d # c => caller'[d] = caller[d]
  <2>1. IdleCaller \in CallerType /\ IdleCaller.at = "idle"
    BY DEF IdleCaller, CallerType
  <2>2. caller' = [caller EXCEPT ![c] = IdleCaller]
    BY DEF IssueCode
  <2> QED
    BY <2>1, <2>2, CallerMoved DEF CodesInv
<1>e6. \A j \in DOMAIN codes' : j \in DOMAIN codes \/ j = Len(codes) + 1
  BY <1>y, <1>e2
<1>e7. \A d \in Callers : caller[d].at \in {"kill", "count", "spend"} => caller[d].code # Len(codes) + 1
  BY <1>y, <1>i DEF CallersHoldCodes
<1>1. CodesTypeOK'
  BY <1>e2, <1>e3, <1>e4, <1>e5, <1>e6, <1>e7 DEF CodesTypeOK, CodeRow, CallerType
<1>2. CallersHoldCodes'
  BY <1>y, <1>i, <1>e2, <1>e3, <1>e4, <1>e5, <1>e6, <1>e7 DEF CallersHoldCodes
<1>3. GoodOnceSpent'
  BY <1>i, <1>e3, <1>e4, <1>e6, <1>e7 DEF GoodOnceSpent
<1>4. OneLive'
  <2> SUFFICES ASSUME NEW j \in DOMAIN codes', NEW k \in DOMAIN codes', codes'[j].purpose = codes'[k].purpose,
                      ~ codes'[j].consumed, ~ codes'[j].expired, ~ codes'[k].consumed, ~ codes'[k].expired
               PROVE  j = k
    BY DEF OneLive
  <2>1. CASE j \in DOMAIN codes /\ k \in DOMAIN codes
    <3>1. codes[j].purpose = codes[k].purpose /\ ~ codes[j].expired /\ ~ codes[k].expired
      BY <1>e4, <2>1
    <3>2. ~ codes[j].consumed /\ ~ codes[k].consumed
      BY <1>e4, <2>1
    <3> QED
      BY <1>i, <2>1, <3>1, <3>2 DEF OneLive
  <2>2. CASE j = Len(codes) + 1 \/ k = Len(codes) + 1
    <3>1. codes'[j].purpose = caller[c].purpose /\ codes'[k].purpose = caller[c].purpose
      BY <1>e3, <2>2
    <3>2. j \notin DOMAIN codes /\ k \notin DOMAIN codes
      BY <1>e4, <3>1
    <3> QED
      BY <1>e6, <3>2
  <2> QED
    BY <1>e6, <2>1, <2>2
<1>5. Allowance'
  <2>1. Len(codes') + Cardinality(Issuing') <= MaxCodesSent + Cardinality(Callers) - 1
    <3>1. Issuing' = Issuing \ {c} /\ c \in Issuing
      BY <1>y, <1>e1, <1>e5 DEF Issuing
    <3>2. /\ Cardinality(Issuing') = Cardinality(Issuing) - 1 /\ Cardinality(Issuing) \in Nat
          /\ Cardinality(Callers) \in Nat
      BY <3>1, CallersCounted DEF Issuing
    <3> QED
      BY <1>c, <1>y, <1>i, <1>e2, <3>2 DEF Allowance
  <2>2. ASSUME NEW i \in DOMAIN codes'
        PROVE  /\ codes'[i].attempts + Cardinality(Counting(i)') <= MaxGuesses + Cardinality(Callers) - 1
               /\ codes'[i].used + Cardinality(Spending(i)') <= Cardinality(Callers) \/ codes'[i].purpose # "LOGIN"
    <3>1. CASE i \in DOMAIN codes
      <4>1. Counting(i)' \in SUBSET Counting(i) /\ Spending(i)' \in SUBSET Spending(i)
        BY <1>e4, <1>e5, <1>e7 DEF Counting, Spending
      <4>2. /\ Cardinality(Counting(i)') \in Nat /\ Cardinality(Counting(i)') <= Cardinality(Counting(i))
            /\ Cardinality(Spending(i)') \in Nat /\ Cardinality(Spending(i)') <= Cardinality(Spending(i))
            /\ Cardinality(Counting(i)) \in Nat /\ Cardinality(Spending(i)) \in Nat /\ Cardinality(Callers) \in Nat
        BY <4>1, CallersCounted DEF Counting, Spending
      <4>3. i \in DOMAIN codes /\ codes[i] \in CodeRow
        BY <1>y, <3>1
      <4>4. codes'[i].attempts = codes[i].attempts /\ codes'[i].used = codes[i].used /\ codes'[i].purpose = codes[i].purpose
        BY <1>e4, <3>1
      <4>5. codes[i].attempts \in Nat /\ codes[i].used \in Nat
        BY <4>3 DEF CodeRow
      <4>6. codes'[i].attempts + Cardinality(Counting(i)') <= MaxGuesses + Cardinality(Callers) - 1
        BY <1>i, <1>c, <4>2, <4>3, <4>4, <4>5, SMTT(30) DEF Allowance
      <4>7. codes'[i].used + Cardinality(Spending(i)') <= Cardinality(Callers) \/ codes'[i].purpose # "LOGIN"
        BY <1>i, <4>2, <4>3, <4>4, <4>5 DEF Allowance
      <4> QED
        BY <4>6, <4>7
    <3>2. CASE i = Len(codes) + 1
      <4>1. Counting(i)' = {}
        BY <1>y, <1>i, <1>e5, <3>2 DEF Counting, CallersHoldCodes
      <4>2. Cardinality(Counting(i)') = 0
        BY <4>1, FS_EmptySet
      <4>3. /\ Cardinality(Spending(i)') \in Nat /\ Cardinality(Spending(i)') <= Cardinality(Callers)
            /\ Cardinality(Callers) \in Nat \ {0}
        BY CallersCounted DEF Spending
      <4> QED
        BY <1>c, <1>e3, <3>2, <4>2, <4>3
    <3> QED
      BY <1>y, <1>e2, <3>1, <3>2
  <2> QED
    BY <2>1, <2>2 DEF Allowance
<1>6. ConfirmsOnce'
  BY <1>i, <1>e3, <1>e4, <1>e6, <1>e7 DEF ConfirmsOnce, GoodOnceSpent
<1>7. PurposesKeptApart'
  BY <1>i, <1>e3, <1>e4, <1>e6, <1>e7 DEF PurposesKeptApart
<1> QED
  BY <1>1, <1>2, <1>3, <1>4, <1>5, <1>6, <1>7 DEF CodesInv

\* The newest live code is looked up and compared with what was typed.
LEMMA CodeChecked ==
    ASSUME CodesInv, NEW c \in Callers, NEW purpose \in CodePurposes, NEW right \in BOOLEAN, CheckCode(c, purpose, right)
    PROVE  CodesInv'
<1>c. MaxGuesses \in Nat /\ MaxCodesSent \in Nat \ {0}
  BY OneTimeCodesAssumption
<1>y. /\ caller \in [Callers -> CallerType]
      /\ Len(codes) \in Nat /\ DOMAIN codes = 1..Len(codes)
      /\ \A j \in DOMAIN codes : /\ codes[j] \in CodeRow
                               /\ codes[j].attempts \in Nat /\ codes[j].used \in Nat
  BY CodesTyped DEF CodesInv
<1>i. /\ CallersHoldCodes /\ GoodOnceSpent /\ OneLive /\ Allowance
      /\ ConfirmsOnce /\ PurposesKeptApart /\ CodesTypeOK
  BY DEF CodesInv
<1>e1. codes' = codes /\ caller[c].at = "idle"
  BY DEF CheckCode, IdleCaller
<1>e2. \E i \in LiveCodes(purpose) : \E at \in {"kill", "count", "spend"} :
          /\ caller' = [caller EXCEPT ![c] = [at |-> at, purpose |-> purpose, code |-> i]]
          /\ at = "count" => codes[i].attempts < MaxGuesses
  <2>1. PICK i \in LiveCodes(purpose) : LiveCodes(purpose) = {i}
    <3>1. \A i, j \in LiveCodes(purpose) : i = j
      BY <1>i DEF LiveCodes, OneLive
    <3> QED
      BY <3>1 DEF CheckCode
  <2>2. Max(LiveCodes(purpose)) = i
    <3>1. i \in Int
      BY <1>y DEF LiveCodes
    <3> QED
      BY <2>1, <3>1 DEF Max
  <2>3. codes[i].attempts \in Nat
    BY <1>y DEF LiveCodes, CodeRow
  <2>4. CASE OutOfGuesses(i)
    BY <2>2, <2>4 DEF CheckCode
  <2>5. CASE ~ OutOfGuesses(i) /\ ~ right
    <3>1. codes[i].attempts < MaxGuesses
      BY <1>c, <2>3, <2>5 DEF OutOfGuesses
    <3> QED
      BY <2>2, <2>5, <3>1 DEF CheckCode
  <2>6. CASE ~ OutOfGuesses(i) /\ right
    BY <2>2, <2>6 DEF CheckCode
  <2> QED
    BY <2>4, <2>5, <2>6
<1>e3. /\ caller' \in [Callers -> CallerType] /\ \A d \in Callers : d # c => caller'[d] = caller[d]
       /\ caller'[c].at \in {"kill", "count", "spend"} /\ caller'[c].purpose = purpose
       /\ caller'[c].code \in LiveCodes(purpose)
       /\ caller'[c].at = "count" => codes[caller'[c].code].attempts < MaxGuesses
  <2>1. PICK i \in LiveCodes(purpose), at \in {"kill", "count", "spend"} :
            /\ caller' = [caller EXCEPT ![c] = [at |-> at, purpose |-> purpose, code |-> i]]
            /\ at = "count" => codes[i].attempts < MaxGuesses
    BY <1>e2
  <2>2. [at |-> at, purpose |-> purpose, code |-> i] \in CallerType
    BY <1>y DEF CallerType, LiveCodes
  <2> QED
    BY <2>1, <2>2, CallerMoved DEF CodesInv
<1>e4. /\ caller'[c].code \in DOMAIN codes /\ codes[caller'[c].code].purpose = purpose
       /\ ~ codes[caller'[c].code].consumed /\ codes[caller'[c].code].used = 0
  BY <1>y, <1>i, <1>e3 DEF LiveCodes, GoodOnceSpent, CodeRow
<1>1. CodesTypeOK'
  BY <1>i, <1>e1, <1>e3, <1>e4 DEF CodesTypeOK, CodeRow, CallerType
<1>2. CallersHoldCodes'
  BY <1>i, <1>e1, <1>e3, <1>e4 DEF CallersHoldCodes
<1>3. GoodOnceSpent'
  BY <1>i, <1>e1, <1>e3, <1>e4 DEF GoodOnceSpent
<1>4. OneLive'
  BY <1>i, <1>e1, <1>e3, <1>e4 DEF OneLive
<1>5. Allowance'
  <2>1. Len(codes') + Cardinality(Issuing') <= MaxCodesSent + Cardinality(Callers) - 1
    <3>1. Issuing' \in SUBSET Issuing
      BY <1>e2, <1>e3, <1>e4 DEF Issuing
    <3>2. Cardinality(Issuing') \in Nat /\ Cardinality(Issuing') <= Cardinality(Issuing) /\ Cardinality(Issuing) \in Nat
          /\ Cardinality(Callers) \in Nat
      BY <3>1, CallersCounted DEF Issuing
    <3> QED
      BY <1>c, <1>y, <1>i, <1>e1, <1>e2, <1>e3, <1>e4, <3>2 DEF Allowance
  <2>2. ASSUME NEW i \in DOMAIN codes'
        PROVE  /\ codes'[i].attempts + Cardinality(Counting(i)') <= MaxGuesses + Cardinality(Callers) - 1
               /\ codes'[i].used + Cardinality(Spending(i)') <= Cardinality(Callers) \/ codes'[i].purpose # "LOGIN"
    <3>1. i \in DOMAIN codes /\ codes[i] \in CodeRow /\ codes'[i] = codes[i]
      BY <1>y, <1>e1
    <3>2. /\ Cardinality(Counting(i)') \in Nat /\ Cardinality(Counting(i)') <= Cardinality(Callers)
          /\ Cardinality(Spending(i)') \in Nat /\ Cardinality(Spending(i)') <= Cardinality(Callers)
          /\ Cardinality(Counting(i)) \in Nat /\ Cardinality(Spending(i)) \in Nat /\ Cardinality(Callers) \in Nat \ {0}
      BY CallersCounted DEF Counting, Spending
    <3>3. codes'[i].attempts + Cardinality(Counting(i)') <= MaxGuesses + Cardinality(Callers) - 1
      <4>1. CASE i = caller'[c].code /\ caller'[c].at = "count"
        BY <1>c, <1>e3, <3>1, <3>2, <4>1 DEF CodeRow
      <4>2. CASE ~ (i = caller'[c].code /\ caller'[c].at = "count")
        <5>1. Counting(i)' \in SUBSET Counting(i)
          BY <1>e3, <4>2 DEF Counting
        <5>2. Cardinality(Counting(i)') <= Cardinality(Counting(i))
          BY <5>1, CallersCounted DEF Counting
        <5> QED
          BY <1>c, <1>i, <3>1, <3>2, <5>2 DEF Allowance, CodeRow
      <4> QED
        BY <4>1, <4>2
    <3>4. codes'[i].used + Cardinality(Spending(i)') <= Cardinality(Callers) \/ codes'[i].purpose # "LOGIN"
      <4>1. CASE i = caller'[c].code
        BY <1>e4, <3>1, <3>2, <4>1
      <4>2. CASE i # caller'[c].code
        <5>1. Spending(i)' \in SUBSET Spending(i)
          BY <1>e3, <4>2 DEF Spending
        <5>2. Cardinality(Spending(i)') <= Cardinality(Spending(i))
          BY <5>1, CallersCounted DEF Spending
        <5> QED
          BY <1>i, <3>1, <3>2, <5>2 DEF Allowance, CodeRow
      <4> QED
        BY <4>1, <4>2
    <3> QED
      BY <3>3, <3>4
  <2> QED
    BY <2>1, <2>2 DEF Allowance
<1>6. ConfirmsOnce'
  BY <1>i, <1>e1, <1>e3, <1>e4 DEF ConfirmsOnce, GoodOnceSpent
<1>7. PurposesKeptApart'
  BY <1>i, <1>e1, <1>e3, <1>e4 DEF PurposesKeptApart
<1> QED
  BY <1>1, <1>2, <1>3, <1>4, <1>5, <1>6, <1>7 DEF CodesInv

\* A code that has had its guesses is closed.
LEMMA CodeKilled ==
    ASSUME CodesInv, NEW c \in Callers, NEW i, i = caller[c].code, KillCode(c)
    PROVE  CodesInv'
<1>c. MaxGuesses \in Nat /\ MaxCodesSent \in Nat \ {0}
  BY OneTimeCodesAssumption
<1>y. /\ caller \in [Callers -> CallerType]
      /\ Len(codes) \in Nat /\ DOMAIN codes = 1..Len(codes)
      /\ \A j \in DOMAIN codes : /\ codes[j] \in CodeRow
                               /\ codes[j].attempts \in Nat /\ codes[j].used \in Nat
  BY CodesTyped DEF CodesInv
<1>i. /\ CallersHoldCodes /\ GoodOnceSpent /\ OneLive /\ Allowance
      /\ ConfirmsOnce /\ PurposesKeptApart /\ CodesTypeOK
  BY DEF CodesInv
<1>e1. caller[c].at = "kill" /\ i \in DOMAIN codes /\ codes[i].purpose = caller[c].purpose
  BY <1>i DEF KillCode, CallersHoldCodes
<1>e2. /\ codes' \in Seq(CodeRow) /\ Len(codes') = Len(codes) /\ DOMAIN codes' = DOMAIN codes
       /\ \A j \in DOMAIN codes : j # i => codes'[j] = codes[j]
       /\ codes'[i] \in CodeRow /\ codes[i] \in CodeRow
       /\ codes'[i].purpose = codes[i].purpose /\ codes'[i].expired = codes[i].expired /\ codes'[i].consumed
       /\ codes'[i].attempts = codes[i].attempts /\ codes'[i].used = codes[i].used /\ codes'[i].usedFor = codes[i].usedFor
  <2>1. codes[i] \in CodeRow
    BY <1>y, <1>e1
  <2>2. [codes[i] EXCEPT !.consumed = TRUE] \in CodeRow
    BY <1>y, <1>e1, <2>1 DEF CodeRow
  <2>3. codes' = [codes EXCEPT ![i] = [codes[i] EXCEPT !.consumed = TRUE]]
    BY <1>y, <1>e1 DEF KillCode
  <2>4. codes'[i] = [codes[i] EXCEPT !.consumed = TRUE]
    BY <1>e1, <2>2, <2>3, CodeRewritten DEF CodesInv
  <2> QED
    BY <1>e1, <2>1, <2>2, <2>3, <2>4, CodeRewritten DEF CodesInv, CodeRow
<1>e3. /\ caller' \in [Callers -> CallerType] /\ caller'[c].at = "idle"
       /\ \A d \in Callers : d # c => caller'[d] = caller[d]
  <2>1. IdleCaller \in CallerType /\ IdleCaller.at = "idle"
    BY DEF IdleCaller, CallerType
  <2>2. caller' = [caller EXCEPT ![c] = IdleCaller]
    BY DEF KillCode
  <2> QED
    BY <2>1, <2>2, CallerMoved DEF CodesInv
<1>e4. \A j \in DOMAIN codes : codes'[j].purpose = codes[j].purpose
  BY <1>e2
<1>e5. codes'[i].attempts = codes[i].attempts /\ codes'[i].used = codes[i].used /\ codes'[i].purpose = codes[i].purpose
  BY <1>e1, <1>e2
<1>1. CodesTypeOK'
  BY <1>e2, <1>e3, <1>e4, <1>e5 DEF CodesTypeOK, CodeRow, CallerType
<1>2. CallersHoldCodes'
  BY <1>i, <1>e2, <1>e3, <1>e4, <1>e5 DEF CallersHoldCodes
<1>3. GoodOnceSpent'
  BY <1>i, <1>e2, <1>e4, <1>e5 DEF GoodOnceSpent
<1>4. OneLive'
  <2> SUFFICES ASSUME NEW j \in DOMAIN codes', NEW k \in DOMAIN codes',
                      codes'[j].purpose = codes'[k].purpose,
                      ~ codes'[j].consumed, ~ codes'[j].expired, ~ codes'[k].consumed, ~ codes'[k].expired
               PROVE  j = k
    BY DEF OneLive
  <2>1. j \in DOMAIN codes /\ k \in DOMAIN codes /\ j # i /\ k # i
    BY <1>e2
  <2>2. codes'[j] = codes[j] /\ codes'[k] = codes[k]
    BY <1>e2, <2>1
  <2> QED
    BY <1>i, <2>1, <2>2 DEF OneLive
<1>5. Allowance'
  <2>1. Len(codes') + Cardinality(Issuing') <= MaxCodesSent + Cardinality(Callers) - 1
    <3>1. Issuing' \in SUBSET Issuing
      BY <1>e1, <1>e3 DEF Issuing
    <3>2. Cardinality(Issuing') \in Nat /\ Cardinality(Issuing') <= Cardinality(Issuing) /\ Cardinality(Issuing) \in Nat
          /\ Cardinality(Callers) \in Nat
      BY <3>1, CallersCounted DEF Issuing
    <3> QED
      BY <1>c, <1>y, <1>i, <1>e1, <1>e2, <1>e3, <1>e4, <1>e5, <3>2 DEF Allowance
  <2>2. ASSUME NEW j \in DOMAIN codes'
        PROVE  /\ codes'[j].attempts + Cardinality(Counting(j)') <= MaxGuesses + Cardinality(Callers) - 1
               /\ codes'[j].used + Cardinality(Spending(j)') <= Cardinality(Callers) \/ codes'[j].purpose # "LOGIN"
    <3>1. Counting(j)' \in SUBSET Counting(j) /\ Spending(j)' \in SUBSET Spending(j)
      BY <1>e1, <1>e3 DEF Counting, Spending
    <3>2. /\ Cardinality(Counting(j)') \in Nat /\ Cardinality(Counting(j)') <= Cardinality(Counting(j))
          /\ Cardinality(Spending(j)') \in Nat /\ Cardinality(Spending(j)') <= Cardinality(Spending(j))
          /\ Cardinality(Counting(j)) \in Nat /\ Cardinality(Spending(j)) \in Nat /\ Cardinality(Callers) \in Nat
      BY <3>1, CallersCounted DEF Counting, Spending
    <3>3. j \in DOMAIN codes /\ codes[j] \in CodeRow /\ codes[j].attempts \in Nat /\ codes[j].used \in Nat
      BY <1>y, <1>e2 DEF CodeRow
    <3>4. CASE j # i
      <4>1. codes'[j] = codes[j]
        BY <1>e2, <3>3, <3>4
      <4>2. /\ codes[j].attempts + Cardinality(Counting(j)) <= MaxGuesses + Cardinality(Callers) - 1
            /\ codes[j].used + Cardinality(Spending(j)) <= Cardinality(Callers) \/ codes[j].purpose # "LOGIN"
        BY <1>i, <3>3 DEF Allowance
      <4>3. codes'[j].attempts + Cardinality(Counting(j)') <= MaxGuesses + Cardinality(Callers) - 1
        BY <1>c, <3>2, <3>3, <4>1, <4>2
      <4> QED
        BY <3>2, <3>3, <4>1, <4>2, <4>3
    <3>5. CASE j = i
      <4>a. /\ codes[i].attempts + Cardinality(Counting(i)) <= MaxGuesses + Cardinality(Callers) - 1
            /\ codes[i].used + Cardinality(Spending(i)) <= Cardinality(Callers) \/ codes[i].purpose # "LOGIN"
        BY <1>i, <3>3, <3>5 DEF Allowance
      <4>1. codes'[i].attempts + Cardinality(Counting(i)') <= MaxGuesses + Cardinality(Callers) - 1
        BY <1>c, <1>e5, <3>2, <3>3, <3>5, <4>a
      <4> QED
        BY <1>e5, <3>2, <3>3, <3>5, <4>a, <4>1
    <3> QED
      BY <3>4, <3>5
  <2> QED
    BY <2>1, <2>2 DEF Allowance
<1>6. ConfirmsOnce'
  BY <1>i, <1>e2, <1>e4, <1>e5 DEF ConfirmsOnce, GoodOnceSpent
<1>7. PurposesKeptApart'
  BY <1>i, <1>e2, <1>e4, <1>e5 DEF PurposesKeptApart
<1> QED
  BY <1>1, <1>2, <1>3, <1>4, <1>5, <1>6, <1>7 DEF CodesInv

\* A wrong guess is counted.
LEMMA GuessCounted ==
    ASSUME CodesInv, NEW c \in Callers, NEW i, i = caller[c].code, CountGuess(c)
    PROVE  CodesInv'
<1>c. MaxGuesses \in Nat /\ MaxCodesSent \in Nat \ {0}
  BY OneTimeCodesAssumption
<1>y. /\ caller \in [Callers -> CallerType]
      /\ Len(codes) \in Nat /\ DOMAIN codes = 1..Len(codes)
      /\ \A j \in DOMAIN codes : /\ codes[j] \in CodeRow
                               /\ codes[j].attempts \in Nat /\ codes[j].used \in Nat
  BY CodesTyped DEF CodesInv
<1>i. /\ CallersHoldCodes /\ GoodOnceSpent /\ OneLive /\ Allowance
      /\ ConfirmsOnce /\ PurposesKeptApart /\ CodesTypeOK
  BY DEF CodesInv
<1>e1. caller[c].at = "count" /\ i \in DOMAIN codes /\ codes[i].purpose = caller[c].purpose
  BY <1>i DEF CountGuess, CallersHoldCodes
<1>e2. /\ codes' \in Seq(CodeRow) /\ Len(codes') = Len(codes) /\ DOMAIN codes' = DOMAIN codes
       /\ \A j \in DOMAIN codes : j # i => codes'[j] = codes[j]
       /\ codes'[i] \in CodeRow /\ codes[i] \in CodeRow
       /\ codes'[i].purpose = codes[i].purpose /\ codes'[i].expired = codes[i].expired /\ codes'[i].consumed = codes[i].consumed
       /\ codes'[i].attempts = codes[i].attempts + 1 /\ codes'[i].used = codes[i].used /\ codes'[i].usedFor = codes[i].usedFor
  <2>1. codes[i] \in CodeRow
    BY <1>y, <1>e1
  <2>2. [codes[i] EXCEPT !.attempts = codes[i].attempts + 1] \in CodeRow
    BY <1>y, <1>e1, <2>1 DEF CodeRow
  <2>3. codes' = [codes EXCEPT ![i] = [codes[i] EXCEPT !.attempts = codes[i].attempts + 1]]
    BY <1>y, <1>e1 DEF CountGuess
  <2>4. codes'[i] = [codes[i] EXCEPT !.attempts = codes[i].attempts + 1]
    BY <1>e1, <2>2, <2>3, CodeRewritten DEF CodesInv
  <2> QED
    BY <1>e1, <2>1, <2>2, <2>3, <2>4, CodeRewritten DEF CodesInv, CodeRow
<1>e3. /\ caller' \in [Callers -> CallerType] /\ caller'[c].at = "idle"
       /\ \A d \in Callers : d # c => caller'[d] = caller[d]
  <2>1. IdleCaller \in CallerType /\ IdleCaller.at = "idle"
    BY DEF IdleCaller, CallerType
  <2>2. caller' = [caller EXCEPT ![c] = IdleCaller]
    BY DEF CountGuess
  <2> QED
    BY <2>1, <2>2, CallerMoved DEF CodesInv
<1>e4. \A j \in DOMAIN codes : codes'[j].purpose = codes[j].purpose
  BY <1>e2
<1>e5. codes'[i].attempts = codes[i].attempts + 1 /\ codes'[i].used = codes[i].used /\ codes'[i].purpose = codes[i].purpose
  BY <1>e1, <1>e2
<1>1. CodesTypeOK'
  BY <1>e2, <1>e3, <1>e4, <1>e5 DEF CodesTypeOK, CodeRow, CallerType
<1>2. CallersHoldCodes'
  BY <1>i, <1>e2, <1>e3, <1>e4, <1>e5 DEF CallersHoldCodes
<1>3. GoodOnceSpent'
  BY <1>i, <1>e2, <1>e4, <1>e5 DEF GoodOnceSpent
<1>4. OneLive'
  BY <1>i, <1>e2, <1>e4, <1>e5 DEF OneLive
<1>5. Allowance'
  <2>1. Len(codes') + Cardinality(Issuing') <= MaxCodesSent + Cardinality(Callers) - 1
    <3>1. Issuing' \in SUBSET Issuing
      BY <1>e1, <1>e3 DEF Issuing
    <3>2. Cardinality(Issuing') \in Nat /\ Cardinality(Issuing') <= Cardinality(Issuing) /\ Cardinality(Issuing) \in Nat
          /\ Cardinality(Callers) \in Nat
      BY <3>1, CallersCounted DEF Issuing
    <3> QED
      BY <1>c, <1>y, <1>i, <1>e1, <1>e2, <1>e3, <1>e4, <1>e5, <3>2 DEF Allowance
  <2>2. ASSUME NEW j \in DOMAIN codes'
        PROVE  /\ codes'[j].attempts + Cardinality(Counting(j)') <= MaxGuesses + Cardinality(Callers) - 1
               /\ codes'[j].used + Cardinality(Spending(j)') <= Cardinality(Callers) \/ codes'[j].purpose # "LOGIN"
    <3>1. Counting(j)' \in SUBSET Counting(j) /\ Spending(j)' \in SUBSET Spending(j)
      BY <1>e1, <1>e3 DEF Counting, Spending
    <3>2. /\ Cardinality(Counting(j)') \in Nat /\ Cardinality(Counting(j)') <= Cardinality(Counting(j))
          /\ Cardinality(Spending(j)') \in Nat /\ Cardinality(Spending(j)') <= Cardinality(Spending(j))
          /\ Cardinality(Counting(j)) \in Nat /\ Cardinality(Spending(j)) \in Nat /\ Cardinality(Callers) \in Nat
      BY <3>1, CallersCounted DEF Counting, Spending
    <3>3. j \in DOMAIN codes /\ codes[j] \in CodeRow /\ codes[j].attempts \in Nat /\ codes[j].used \in Nat
      BY <1>y, <1>e2 DEF CodeRow
    <3>4. CASE j # i
      <4>1. codes'[j] = codes[j]
        BY <1>e2, <3>3, <3>4
      <4>2. /\ codes[j].attempts + Cardinality(Counting(j)) <= MaxGuesses + Cardinality(Callers) - 1
            /\ codes[j].used + Cardinality(Spending(j)) <= Cardinality(Callers) \/ codes[j].purpose # "LOGIN"
        BY <1>i, <3>3 DEF Allowance
      <4>3. codes'[j].attempts + Cardinality(Counting(j)') <= MaxGuesses + Cardinality(Callers) - 1
        BY <1>c, <3>2, <3>3, <4>1, <4>2
      <4> QED
        BY <3>2, <3>3, <4>1, <4>2, <4>3
    <3>5. CASE j = i
      <4>1. Counting(i)' = Counting(i) \ {c} /\ c \in Counting(i)
        BY <1>y, <1>e1, <1>e3 DEF Counting
      <4>2. Cardinality(Counting(i)') = Cardinality(Counting(i)) - 1
        BY <4>1, CallersCounted DEF Counting
      <4>a. /\ codes[i].attempts + Cardinality(Counting(i)) <= MaxGuesses + Cardinality(Callers) - 1
            /\ codes[i].used + Cardinality(Spending(i)) <= Cardinality(Callers) \/ codes[i].purpose # "LOGIN"
        BY <1>i, <3>3, <3>5 DEF Allowance
      <4>3. codes'[i].attempts + Cardinality(Counting(i)') <= MaxGuesses + Cardinality(Callers) - 1
        BY <1>e5, <3>2, <3>3, <3>5, <4>a, <4>2
      <4> QED
        BY <1>e5, <3>2, <3>3, <3>5, <4>a, <4>3
    <3> QED
      BY <3>4, <3>5
  <2> QED
    BY <2>1, <2>2 DEF Allowance
<1>6. ConfirmsOnce'
  BY <1>i, <1>e2, <1>e4, <1>e5 DEF ConfirmsOnce, GoodOnceSpent
<1>7. PurposesKeptApart'
  BY <1>i, <1>e2, <1>e4, <1>e5 DEF PurposesKeptApart
<1> QED
  BY <1>1, <1>2, <1>3, <1>4, <1>5, <1>6, <1>7 DEF CodesInv

\* A sign-in spends its code, whatever the row says by then.
LEMMA SignedInWith ==
    ASSUME CodesInv, NEW c \in Callers, NEW i, i = caller[c].code, SignIn(c)
    PROVE  CodesInv'
<1>c. MaxGuesses \in Nat /\ MaxCodesSent \in Nat \ {0}
  BY OneTimeCodesAssumption
<1>y. /\ caller \in [Callers -> CallerType]
      /\ Len(codes) \in Nat /\ DOMAIN codes = 1..Len(codes)
      /\ \A j \in DOMAIN codes : /\ codes[j] \in CodeRow
                               /\ codes[j].attempts \in Nat /\ codes[j].used \in Nat
  BY CodesTyped DEF CodesInv
<1>i. /\ CallersHoldCodes /\ GoodOnceSpent /\ OneLive /\ Allowance
      /\ ConfirmsOnce /\ PurposesKeptApart /\ CodesTypeOK
  BY DEF CodesInv
<1>e1. caller[c].at = "spend" /\ caller[c].purpose = "LOGIN" /\ i \in DOMAIN codes /\ codes[i].purpose = caller[c].purpose
  BY <1>i DEF SignIn, CallersHoldCodes
<1>e2. /\ codes' \in Seq(CodeRow) /\ Len(codes') = Len(codes) /\ DOMAIN codes' = DOMAIN codes
       /\ \A j \in DOMAIN codes : j # i => codes'[j] = codes[j]
       /\ codes'[i] \in CodeRow /\ codes[i] \in CodeRow
       /\ codes'[i].purpose = codes[i].purpose /\ codes'[i].expired = codes[i].expired /\ codes'[i].consumed
       /\ codes'[i].attempts = codes[i].attempts /\ codes'[i].used = codes[i].used + 1
       /\ codes'[i].usedFor = codes[i].usedFor \cup {codes[i].purpose}
  <2>1. codes' = Spent(i, codes[i].purpose)
    BY <1>e1 DEF SignIn, SignedIn
  <2> QED
    BY <1>y, <1>e1, <2>1, SpentTo DEF CodesInv
<1>e3. /\ caller' \in [Callers -> CallerType] /\ caller'[c].at = "idle"
       /\ \A d \in Callers : d # c => caller'[d] = caller[d]
  <2>1. IdleCaller \in CallerType /\ IdleCaller.at = "idle"
    BY DEF IdleCaller, CallerType
  <2>2. caller' = [caller EXCEPT ![c] = IdleCaller]
    BY DEF SignIn
  <2> QED
    BY <2>1, <2>2, CallerMoved DEF CodesInv
<1>e4. \A j \in DOMAIN codes : codes'[j].purpose = codes[j].purpose
  BY <1>e2
<1>e5. codes'[i].attempts = codes[i].attempts /\ codes'[i].used = codes[i].used + 1 /\ codes'[i].purpose = codes[i].purpose
  BY <1>e1, <1>e2
<1>1. CodesTypeOK'
  BY <1>e2, <1>e3, <1>e4, <1>e5 DEF CodesTypeOK, CodeRow, CallerType
<1>2. CallersHoldCodes'
  BY <1>i, <1>e2, <1>e3, <1>e4, <1>e5 DEF CallersHoldCodes
<1>3. GoodOnceSpent'
  BY <1>i, <1>e2, <1>e4, <1>e5 DEF GoodOnceSpent
<1>4. OneLive'
  <2> SUFFICES ASSUME NEW j \in DOMAIN codes', NEW k \in DOMAIN codes',
                      codes'[j].purpose = codes'[k].purpose,
                      ~ codes'[j].consumed, ~ codes'[j].expired, ~ codes'[k].consumed, ~ codes'[k].expired
               PROVE  j = k
    BY DEF OneLive
  <2>1. j \in DOMAIN codes /\ k \in DOMAIN codes /\ j # i /\ k # i
    BY <1>e2
  <2>2. codes'[j] = codes[j] /\ codes'[k] = codes[k]
    BY <1>e2, <2>1
  <2> QED
    BY <1>i, <2>1, <2>2 DEF OneLive
<1>5. Allowance'
  <2>1. Len(codes') + Cardinality(Issuing') <= MaxCodesSent + Cardinality(Callers) - 1
    <3>1. Issuing' \in SUBSET Issuing
      BY <1>e1, <1>e3 DEF Issuing
    <3>2. Cardinality(Issuing') \in Nat /\ Cardinality(Issuing') <= Cardinality(Issuing) /\ Cardinality(Issuing) \in Nat
          /\ Cardinality(Callers) \in Nat
      BY <3>1, CallersCounted DEF Issuing
    <3> QED
      BY <1>c, <1>y, <1>i, <1>e1, <1>e2, <1>e3, <1>e4, <1>e5, <3>2 DEF Allowance
  <2>2. ASSUME NEW j \in DOMAIN codes'
        PROVE  /\ codes'[j].attempts + Cardinality(Counting(j)') <= MaxGuesses + Cardinality(Callers) - 1
               /\ codes'[j].used + Cardinality(Spending(j)') <= Cardinality(Callers) \/ codes'[j].purpose # "LOGIN"
    <3>1. Counting(j)' \in SUBSET Counting(j) /\ Spending(j)' \in SUBSET Spending(j)
      BY <1>e1, <1>e3 DEF Counting, Spending
    <3>2. /\ Cardinality(Counting(j)') \in Nat /\ Cardinality(Counting(j)') <= Cardinality(Counting(j))
          /\ Cardinality(Spending(j)') \in Nat /\ Cardinality(Spending(j)') <= Cardinality(Spending(j))
          /\ Cardinality(Counting(j)) \in Nat /\ Cardinality(Spending(j)) \in Nat /\ Cardinality(Callers) \in Nat
      BY <3>1, CallersCounted DEF Counting, Spending
    <3>3. j \in DOMAIN codes /\ codes[j] \in CodeRow /\ codes[j].attempts \in Nat /\ codes[j].used \in Nat
      BY <1>y, <1>e2 DEF CodeRow
    <3>4. CASE j # i
      <4>1. codes'[j] = codes[j]
        BY <1>e2, <3>3, <3>4
      <4>2. /\ codes[j].attempts + Cardinality(Counting(j)) <= MaxGuesses + Cardinality(Callers) - 1
            /\ codes[j].used + Cardinality(Spending(j)) <= Cardinality(Callers) \/ codes[j].purpose # "LOGIN"
        BY <1>i, <3>3 DEF Allowance
      <4>3. codes'[j].attempts + Cardinality(Counting(j)') <= MaxGuesses + Cardinality(Callers) - 1
        BY <1>c, <3>2, <3>3, <4>1, <4>2
      <4> QED
        BY <3>2, <3>3, <4>1, <4>2, <4>3
    <3>5. CASE j = i
      <4>1. Spending(i)' = Spending(i) \ {c} /\ c \in Spending(i)
        BY <1>y, <1>e1, <1>e3 DEF Spending
      <4>2. Cardinality(Spending(i)') = Cardinality(Spending(i)) - 1
        BY <4>1, CallersCounted DEF Spending
      <4>a. /\ codes[i].attempts + Cardinality(Counting(i)) <= MaxGuesses + Cardinality(Callers) - 1
            /\ codes[i].used + Cardinality(Spending(i)) <= Cardinality(Callers) \/ codes[i].purpose # "LOGIN"
        BY <1>i, <3>3, <3>5 DEF Allowance
      <4>3. codes'[i].attempts + Cardinality(Counting(i)') <= MaxGuesses + Cardinality(Callers) - 1
        BY <1>c, <1>e5, <3>2, <3>3, <3>5, <4>a
      <4> QED
        BY <1>e5, <3>2, <3>3, <3>5, <4>a, <4>2, <4>3
    <3> QED
      BY <3>4, <3>5
  <2> QED
    BY <2>1, <2>2 DEF Allowance
<1>6. ConfirmsOnce'
  BY <1>i, <1>e1, <1>e2, <1>e4, <1>e5 DEF ConfirmsOnce, GoodOnceSpent
<1>7. PurposesKeptApart'
  BY <1>c, <1>y, <1>i, <1>e1, <1>e2, <1>e3, <1>e4, <1>e5, SMTT(30) DEF PurposesKeptApart
<1> QED
  BY <1>1, <1>2, <1>3, <1>4, <1>5, <1>6, <1>7 DEF CodesInv

\* A code that is still unspent confirms what it was sent for.
LEMMA CodeSpent ==
    ASSUME CodesInv, NEW c \in Callers, NEW i, i = caller[c].code, SpendCode(c), ~ codes[i].consumed
    PROVE  CodesInv'
<1>c. MaxGuesses \in Nat /\ MaxCodesSent \in Nat \ {0}
  BY OneTimeCodesAssumption
<1>y. /\ caller \in [Callers -> CallerType]
      /\ Len(codes) \in Nat /\ DOMAIN codes = 1..Len(codes)
      /\ \A j \in DOMAIN codes : /\ codes[j] \in CodeRow
                               /\ codes[j].attempts \in Nat /\ codes[j].used \in Nat
  BY CodesTyped DEF CodesInv
<1>i. /\ CallersHoldCodes /\ GoodOnceSpent /\ OneLive /\ Allowance
      /\ ConfirmsOnce /\ PurposesKeptApart /\ CodesTypeOK
  BY DEF CodesInv
<1>e1. caller[c].at = "spend" /\ caller[c].purpose # "LOGIN" /\ i \in DOMAIN codes /\ codes[i].purpose = caller[c].purpose
  BY <1>i DEF SpendCode, CallersHoldCodes
<1>e2. /\ codes' \in Seq(CodeRow) /\ Len(codes') = Len(codes) /\ DOMAIN codes' = DOMAIN codes
       /\ \A j \in DOMAIN codes : j # i => codes'[j] = codes[j]
       /\ codes'[i] \in CodeRow /\ codes[i] \in CodeRow
       /\ codes'[i].purpose = codes[i].purpose /\ codes'[i].expired = codes[i].expired /\ codes'[i].consumed
       /\ codes'[i].attempts = codes[i].attempts /\ codes'[i].used = codes[i].used + 1
       /\ codes'[i].usedFor = codes[i].usedFor \cup {codes[i].purpose}
  <2>1. codes' = Spent(i, codes[i].purpose)
    BY <1>e1 DEF SpendCode, Taken
  <2> QED
    BY <1>y, <1>e1, <2>1, SpentTo DEF CodesInv
<1>e3. /\ caller' \in [Callers -> CallerType] /\ caller'[c].at = "idle"
       /\ \A d \in Callers : d # c => caller'[d] = caller[d]
  <2>1. IdleCaller \in CallerType /\ IdleCaller.at = "idle"
    BY DEF IdleCaller, CallerType
  <2>2. caller' = [caller EXCEPT ![c] = IdleCaller]
    BY DEF SpendCode
  <2> QED
    BY <2>1, <2>2, CallerMoved DEF CodesInv
<1>e4. \A j \in DOMAIN codes : codes'[j].purpose = codes[j].purpose
  BY <1>e2
<1>e5. codes'[i].attempts = codes[i].attempts /\ codes'[i].used = codes[i].used + 1 /\ codes'[i].purpose = codes[i].purpose
  BY <1>e1, <1>e2
<1>1. CodesTypeOK'
  BY <1>e2, <1>e3, <1>e4, <1>e5 DEF CodesTypeOK, CodeRow, CallerType
<1>2. CallersHoldCodes'
  BY <1>i, <1>e2, <1>e3, <1>e4, <1>e5 DEF CallersHoldCodes
<1>3. GoodOnceSpent'
  BY <1>i, <1>e2, <1>e4, <1>e5 DEF GoodOnceSpent
<1>4. OneLive'
  <2> SUFFICES ASSUME NEW j \in DOMAIN codes', NEW k \in DOMAIN codes',
                      codes'[j].purpose = codes'[k].purpose,
                      ~ codes'[j].consumed, ~ codes'[j].expired, ~ codes'[k].consumed, ~ codes'[k].expired
               PROVE  j = k
    BY DEF OneLive
  <2>1. j \in DOMAIN codes /\ k \in DOMAIN codes /\ j # i /\ k # i
    BY <1>e2
  <2>2. codes'[j] = codes[j] /\ codes'[k] = codes[k]
    BY <1>e2, <2>1
  <2> QED
    BY <1>i, <2>1, <2>2 DEF OneLive
<1>5. Allowance'
  <2>1. Len(codes') + Cardinality(Issuing') <= MaxCodesSent + Cardinality(Callers) - 1
    <3>1. Issuing' \in SUBSET Issuing
      BY <1>e1, <1>e3 DEF Issuing
    <3>2. Cardinality(Issuing') \in Nat /\ Cardinality(Issuing') <= Cardinality(Issuing) /\ Cardinality(Issuing) \in Nat
          /\ Cardinality(Callers) \in Nat
      BY <3>1, CallersCounted DEF Issuing
    <3> QED
      BY <1>c, <1>y, <1>i, <1>e1, <1>e2, <1>e3, <1>e4, <1>e5, <3>2 DEF Allowance
  <2>2. ASSUME NEW j \in DOMAIN codes'
        PROVE  /\ codes'[j].attempts + Cardinality(Counting(j)') <= MaxGuesses + Cardinality(Callers) - 1
               /\ codes'[j].used + Cardinality(Spending(j)') <= Cardinality(Callers) \/ codes'[j].purpose # "LOGIN"
    <3>1. Counting(j)' \in SUBSET Counting(j) /\ Spending(j)' \in SUBSET Spending(j)
      BY <1>e1, <1>e3 DEF Counting, Spending
    <3>2. /\ Cardinality(Counting(j)') \in Nat /\ Cardinality(Counting(j)') <= Cardinality(Counting(j))
          /\ Cardinality(Spending(j)') \in Nat /\ Cardinality(Spending(j)') <= Cardinality(Spending(j))
          /\ Cardinality(Counting(j)) \in Nat /\ Cardinality(Spending(j)) \in Nat /\ Cardinality(Callers) \in Nat
      BY <3>1, CallersCounted DEF Counting, Spending
    <3>3. j \in DOMAIN codes /\ codes[j] \in CodeRow /\ codes[j].attempts \in Nat /\ codes[j].used \in Nat
      BY <1>y, <1>e2 DEF CodeRow
    <3>4. CASE j # i
      <4>1. codes'[j] = codes[j]
        BY <1>e2, <3>3, <3>4
      <4>2. /\ codes[j].attempts + Cardinality(Counting(j)) <= MaxGuesses + Cardinality(Callers) - 1
            /\ codes[j].used + Cardinality(Spending(j)) <= Cardinality(Callers) \/ codes[j].purpose # "LOGIN"
        BY <1>i, <3>3 DEF Allowance
      <4>3. codes'[j].attempts + Cardinality(Counting(j)') <= MaxGuesses + Cardinality(Callers) - 1
        BY <1>c, <3>2, <3>3, <4>1, <4>2
      <4> QED
        BY <3>2, <3>3, <4>1, <4>2, <4>3
    <3>5. CASE j = i
      <4>1. codes'[j].purpose # "LOGIN"
        BY <1>e1, <1>e2, <3>5
      <4>a. /\ codes[i].attempts + Cardinality(Counting(i)) <= MaxGuesses + Cardinality(Callers) - 1
            /\ codes[i].used + Cardinality(Spending(i)) <= Cardinality(Callers) \/ codes[i].purpose # "LOGIN"
        BY <1>i, <3>3, <3>5 DEF Allowance
      <4>3. codes'[i].attempts + Cardinality(Counting(i)') <= MaxGuesses + Cardinality(Callers) - 1
        BY <1>c, <1>e5, <3>2, <3>3, <3>5, <4>a
      <4> QED
        BY <3>5, <4>1, <4>3
    <3> QED
      BY <3>4, <3>5
  <2> QED
    BY <2>1, <2>2 DEF Allowance
<1>6. ConfirmsOnce'
  BY <1>y, <1>i, <1>e2, <1>e4, <1>e5 DEF ConfirmsOnce, GoodOnceSpent
<1>7. PurposesKeptApart'
  BY <1>i, <1>e2, <1>e4, <1>e5 DEF PurposesKeptApart
<1> QED
  BY <1>1, <1>2, <1>3, <1>4, <1>5, <1>6, <1>7 DEF CodesInv

\* A code that was spent meanwhile is refused, or the request dies.
LEMMA CodeRefused ==
    ASSUME CodesInv, NEW c \in Callers, CallerDies(c) \/ (SpendCode(c) /\ codes[caller[c].code].consumed)
    PROVE  CodesInv'
<1>c. MaxGuesses \in Nat /\ MaxCodesSent \in Nat \ {0}
  BY OneTimeCodesAssumption
<1>y. /\ caller \in [Callers -> CallerType]
      /\ Len(codes) \in Nat /\ DOMAIN codes = 1..Len(codes)
      /\ \A j \in DOMAIN codes : /\ codes[j] \in CodeRow
                               /\ codes[j].attempts \in Nat /\ codes[j].used \in Nat
  BY CodesTyped DEF CodesInv
<1>i. /\ CallersHoldCodes /\ GoodOnceSpent /\ OneLive /\ Allowance
      /\ ConfirmsOnce /\ PurposesKeptApart /\ CodesTypeOK
  BY DEF CodesInv
<1>e1. codes' = codes
  BY DEF CallerDies, SpendCode, Taken
<1>e2. /\ caller' \in [Callers -> CallerType] /\ caller'[c].at = "idle"
       /\ \A d \in Callers : d # c => caller'[d] = caller[d]
  <2>1. IdleCaller \in CallerType /\ IdleCaller.at = "idle"
    BY DEF IdleCaller, CallerType
  <2>2. caller' = [caller EXCEPT ![c] = IdleCaller]
    BY DEF CallerDies, SpendCode
  <2> QED
    BY <2>1, <2>2, CallerMoved DEF CodesInv
<1>1. CodesTypeOK'
  BY <1>i, <1>e1, <1>e2 DEF CodesTypeOK, CodeRow, CallerType
<1>2. CallersHoldCodes'
  BY <1>i, <1>e1, <1>e2 DEF CallersHoldCodes
<1>3. GoodOnceSpent'
  BY <1>y, <1>i, <1>e1 DEF GoodOnceSpent
<1>4. OneLive'
  BY <1>y, <1>i, <1>e1 DEF OneLive
<1>5. Allowance'
  <2>1. Len(codes') + Cardinality(Issuing') <= MaxCodesSent + Cardinality(Callers) - 1
    <3>1. Issuing' \in SUBSET Issuing
      BY <1>e1, <1>e2 DEF Issuing
    <3>2. Cardinality(Issuing') \in Nat /\ Cardinality(Issuing') <= Cardinality(Issuing) /\ Cardinality(Issuing) \in Nat
          /\ Cardinality(Callers) \in Nat
      BY <3>1, CallersCounted DEF Issuing
    <3> QED
      BY <1>c, <1>y, <1>i, <1>e1, <1>e2, <3>2 DEF Allowance
  <2>2. ASSUME NEW i \in DOMAIN codes'
        PROVE  /\ codes'[i].attempts + Cardinality(Counting(i)') <= MaxGuesses + Cardinality(Callers) - 1
               /\ codes'[i].used + Cardinality(Spending(i)') <= Cardinality(Callers) \/ codes'[i].purpose # "LOGIN"
    <3>1. Counting(i)' \in SUBSET Counting(i) /\ Spending(i)' \in SUBSET Spending(i)
      BY <1>e1, <1>e2 DEF Counting, Spending
    <3>2. /\ Cardinality(Counting(i)') \in Nat /\ Cardinality(Counting(i)') <= Cardinality(Counting(i))
          /\ Cardinality(Spending(i)') \in Nat /\ Cardinality(Spending(i)') <= Cardinality(Spending(i))
          /\ Cardinality(Counting(i)) \in Nat /\ Cardinality(Spending(i)) \in Nat /\ Cardinality(Callers) \in Nat
      BY <3>1, CallersCounted DEF Counting, Spending
    <3>3. i \in DOMAIN codes /\ codes[i] \in CodeRow
      BY <1>y, <1>i, <1>e1
    <3>4. codes'[i].attempts = codes[i].attempts /\ codes'[i].used = codes[i].used /\ codes'[i].purpose = codes[i].purpose
      BY <1>i, <1>e1, <3>3
    <3>5. codes[i].attempts \in Nat /\ codes[i].used \in Nat
      BY <3>3 DEF CodeRow
    <3>6. codes'[i].attempts + Cardinality(Counting(i)') <= MaxGuesses + Cardinality(Callers) - 1
      BY <1>i, <1>c, <3>2, <3>3, <3>4, <3>5, SMTT(30) DEF Allowance
    <3>7. codes'[i].used + Cardinality(Spending(i)') <= Cardinality(Callers) \/ codes'[i].purpose # "LOGIN"
      BY <1>i, <3>2, <3>3, <3>4, <3>5 DEF Allowance
    <3> QED
      BY <3>6, <3>7
  <2> QED
    BY <2>1, <2>2 DEF Allowance
<1>6. ConfirmsOnce'
  BY <1>y, <1>i, <1>e1 DEF ConfirmsOnce, GoodOnceSpent
<1>7. PurposesKeptApart'
  BY <1>y, <1>i, <1>e1 DEF PurposesKeptApart
<1> QED
  BY <1>1, <1>2, <1>3, <1>4, <1>5, <1>6, <1>7 DEF CodesInv

\* The oldest code's time is over.
LEMMA CodeExpired ==
    ASSUME CodesInv, NEW i \in DOMAIN codes, CodeExpires(i)
    PROVE  CodesInv'
<1>c. MaxGuesses \in Nat /\ MaxCodesSent \in Nat \ {0}
  BY OneTimeCodesAssumption
<1>y. /\ caller \in [Callers -> CallerType]
      /\ Len(codes) \in Nat /\ DOMAIN codes = 1..Len(codes)
      /\ \A j \in DOMAIN codes : /\ codes[j] \in CodeRow
                               /\ codes[j].attempts \in Nat /\ codes[j].used \in Nat
  BY CodesTyped DEF CodesInv
<1>i. /\ CallersHoldCodes /\ GoodOnceSpent /\ OneLive /\ Allowance
      /\ ConfirmsOnce /\ PurposesKeptApart /\ CodesTypeOK
  BY DEF CodesInv
<1>e1. /\ codes' \in Seq(CodeRow) /\ Len(codes') = Len(codes) /\ DOMAIN codes' = DOMAIN codes
       /\ \A j \in DOMAIN codes : j # i => codes'[j] = codes[j]
       /\ codes'[i] \in CodeRow /\ codes[i] \in CodeRow
       /\ codes'[i].purpose = codes[i].purpose /\ codes'[i].consumed = codes[i].consumed
       /\ codes'[i].expired /\ codes'[i].attempts = codes[i].attempts
       /\ codes'[i].used = codes[i].used /\ codes'[i].usedFor = codes[i].usedFor
  <2>1. codes[i] \in CodeRow
    BY <1>y
  <2>2. [codes[i] EXCEPT !.expired = TRUE] \in CodeRow
    BY <2>1 DEF CodeRow
  <2>3. codes' = [codes EXCEPT ![i] = [codes[i] EXCEPT !.expired = TRUE]]
    BY <1>y DEF CodeExpires
  <2>4. codes'[i] = [codes[i] EXCEPT !.expired = TRUE]
    BY <2>2, <2>3, CodeRewritten DEF CodesInv
  <2> QED
    BY <2>1, <2>2, <2>3, <2>4, CodeRewritten DEF CodesInv, CodeRow
<1>e2. caller' = caller
  BY DEF CodeExpires
<1>1. CodesTypeOK'
  BY <1>i, <1>e1, <1>e2 DEF CodesTypeOK, CodeRow, CallerType
<1>2. CallersHoldCodes'
  BY <1>i, <1>e1, <1>e2 DEF CallersHoldCodes
<1>3. GoodOnceSpent'
  BY <1>y, <1>i, <1>e1 DEF GoodOnceSpent
<1>4. OneLive'
  BY <1>y, <1>i, <1>e1 DEF OneLive
<1>5. Allowance'
  <2>1. Len(codes') + Cardinality(Issuing') <= MaxCodesSent + Cardinality(Callers) - 1
    <3>1. Issuing' \in SUBSET Issuing
      BY <1>e1, <1>e2 DEF Issuing
    <3>2. Cardinality(Issuing') \in Nat /\ Cardinality(Issuing') <= Cardinality(Issuing) /\ Cardinality(Issuing) \in Nat
          /\ Cardinality(Callers) \in Nat
      BY <3>1, CallersCounted DEF Issuing
    <3> QED
      BY <1>c, <1>y, <1>i, <1>e1, <1>e2, <3>2 DEF Allowance
  <2>2. ASSUME NEW j \in DOMAIN codes'
        PROVE  /\ codes'[j].attempts + Cardinality(Counting(j)') <= MaxGuesses + Cardinality(Callers) - 1
               /\ codes'[j].used + Cardinality(Spending(j)') <= Cardinality(Callers) \/ codes'[j].purpose # "LOGIN"
    <3>1. Counting(j)' \in SUBSET Counting(j) /\ Spending(j)' \in SUBSET Spending(j)
      BY <1>e1, <1>e2 DEF Counting, Spending
    <3>2. /\ Cardinality(Counting(j)') \in Nat /\ Cardinality(Counting(j)') <= Cardinality(Counting(j))
          /\ Cardinality(Spending(j)') \in Nat /\ Cardinality(Spending(j)') <= Cardinality(Spending(j))
          /\ Cardinality(Counting(j)) \in Nat /\ Cardinality(Spending(j)) \in Nat /\ Cardinality(Callers) \in Nat
      BY <3>1, CallersCounted DEF Counting, Spending
    <3>3. j \in DOMAIN codes /\ codes[j] \in CodeRow /\ codes[j].attempts \in Nat /\ codes[j].used \in Nat
      BY <1>y, <1>e1 DEF CodeRow
    <3>4. CASE j # i
      <4>1. codes'[j] = codes[j]
        BY <1>e1, <3>3, <3>4
      <4>2. /\ codes[j].attempts + Cardinality(Counting(j)) <= MaxGuesses + Cardinality(Callers) - 1
            /\ codes[j].used + Cardinality(Spending(j)) <= Cardinality(Callers) \/ codes[j].purpose # "LOGIN"
        BY <1>i, <3>3 DEF Allowance
      <4>3. codes'[j].attempts + Cardinality(Counting(j)') <= MaxGuesses + Cardinality(Callers) - 1
        BY <1>c, <3>2, <3>3, <4>1, <4>2
      <4> QED
        BY <3>2, <3>3, <4>1, <4>2, <4>3
    <3>5. CASE j = i
      <4>a. /\ codes[i].attempts + Cardinality(Counting(i)) <= MaxGuesses + Cardinality(Callers) - 1
            /\ codes[i].used + Cardinality(Spending(i)) <= Cardinality(Callers) \/ codes[i].purpose # "LOGIN"
        BY <1>i, <3>3, <3>5 DEF Allowance
      <4>1. codes'[i].attempts + Cardinality(Counting(i)') <= MaxGuesses + Cardinality(Callers) - 1
        BY <1>c, <1>e1, <3>2, <3>3, <3>5, <4>a
      <4> QED
        BY <1>e1, <3>2, <3>3, <3>5, <4>a, <4>1
    <3> QED
      BY <3>4, <3>5
  <2> QED
    BY <2>1, <2>2 DEF Allowance
<1>6. ConfirmsOnce'
  BY <1>y, <1>i, <1>e1 DEF ConfirmsOnce, GoodOnceSpent
<1>7. PurposesKeptApart'
  BY <1>y, <1>i, <1>e1 DEF PurposesKeptApart
<1> QED
  BY <1>1, <1>2, <1>3, <1>4, <1>5, <1>6, <1>7 DEF CodesInv

LEMMA CodesStep ==
    ASSUME CodesInv, CodesNext \/ UNCHANGED codeVars
    PROVE  CodesInv'
<1>1. CASE CodesNext
  <2>1. ASSUME NEW c \in Callers, SpendCode(c)
        PROVE  CodesInv'
    BY <2>1, CodeSpent, CodeRefused
  <2> QED
    BY <1>1, <2>1, CodeAsked, CodeIssued, CodeChecked, CodeKilled, GuessCounted, SignedInWith,
       CodeRefused, CodeExpired DEF CodesNext
<1>2. CASE UNCHANGED codeVars
  <2>1. \A i : Counting(i)' = Counting(i) /\ Spending(i)' = Spending(i)
    BY <1>2 DEF codeVars, Counting, Spending
  <2>2. Issuing' = Issuing
    BY <1>2 DEF codeVars, Issuing
  <2>3. Allowance'
    BY <1>2, <2>1, <2>2 DEF codeVars, Allowance, CodesInv
  <2> QED
    BY <1>2, <2>3 DEF codeVars, CodesInv, CodesTypeOK, CallersHoldCodes, GoodOnceSpent, OneLive,
       ConfirmsOnce, PurposesKeptApart
<1> QED
  BY <1>1, <1>2

LEMMA CodesBegin == CodesInit => CodesInv
<1> SUFFICES ASSUME CodesInit PROVE CodesInv
  OBVIOUS
<1>1. codes = <<>> /\ \A c \in Callers : caller[c] = IdleCaller
  BY DEF CodesInit
<1>2. DOMAIN codes = {} /\ Len(codes) = 0
  BY <1>1
<1>3. IdleCaller.at = "idle" /\ IdleCaller \in CallerType
  BY DEF IdleCaller, CallerType
<1>4. Issuing = {}
  BY <1>1, <1>3 DEF Issuing
<1>5. Cardinality(Issuing) = 0
  BY <1>4, FS_EmptySet
<1>6. Cardinality(Callers) \in Nat \ {0}
  BY CallersCounted
<1>7. Allowance
  BY <1>2, <1>5, <1>6, OneTimeCodesAssumption DEF Allowance
<1>8. CodesTypeOK
  BY <1>1, <1>3 DEF CodesInit, CodesTypeOK, CallerType
<1> QED
  BY <1>1, <1>2, <1>3, <1>7, <1>8 DEF CodesInv, CallersHoldCodes, GoodOnceSpent, OneLive,
     ConfirmsOnce, PurposesKeptApart

\* What the allowance says of a code that nobody is at any more.
LEMMA CodesKeepTheirWord ==
    ASSUME CodesInv
    PROVE  /\ ConfirmsOnce /\ SignsInTogetherAtMost /\ PurposesKeptApart
           /\ GuessesBounded /\ NewestOnly /\ CodesSentBounded
<1>1. /\ Len(codes) \in Nat /\ MaxCodesSent \in Nat /\ MaxGuesses \in Nat
      /\ \A i \in DOMAIN codes : codes[i].attempts \in Nat /\ codes[i].used \in Nat
  BY CodesTyped, OneTimeCodesAssumption DEF CodesInv
<1>2. /\ Cardinality(Callers) \in Nat \ {0} /\ Cardinality(Issuing) \in Nat
      /\ \A i : Cardinality(Counting(i)) \in Nat /\ Cardinality(Spending(i)) \in Nat
  BY CallersCounted DEF Issuing, Counting, Spending
<1>3. SignsInTogetherAtMost
  BY <1>1, <1>2 DEF CodesInv, Allowance, ConfirmsOnce, SignsInTogetherAtMost
<1>4. GuessesBounded
  BY <1>1, <1>2 DEF CodesInv, Allowance, GuessesBounded
<1>5. CodesSentBounded
  BY <1>1, <1>2 DEF CodesInv, Allowance, CodesSentBounded
<1>6. ASSUME NEW purpose \in CodePurposes
      PROVE  Cardinality(LiveCodes(purpose)) <= 1
  <2>1. CASE LiveCodes(purpose) = {}
    BY <2>1, FS_EmptySet
  <2>2. CASE LiveCodes(purpose) # {}
    <3>1. PICK i : i \in LiveCodes(purpose)
      BY <2>2
    <3>2. LiveCodes(purpose) = {i}
      BY <3>1 DEF CodesInv, OneLive, LiveCodes
    <3>3. Cardinality({i}) = 1
      BY FS_Singleton
    <3> QED
      BY <3>2, <3>3
  <2> QED
    BY <2>1, <2>2
<1> QED
  BY <1>3, <1>4, <1>5, <1>6 DEF CodesInv, NewestOnly

-----------------------------------------------------------------------------
(* Admin sign-in: a version tells which set-up a sign-in began under.      *)

AdminType ==
    [role : Roles, version : Nat, secret : 0..Papers, pending : 0..Papers, lastStep : 0..(LastStep + 1),
     sheet : 0..Papers, unspent : BOOLEAN]

CallType ==
    [at : {"idle", "password", "app", "paper", "activate", "regenerate"},
     version : Nat, secret : 0..Papers, step : 0..(LastStep + 1), sheet : 0..Papers, enrolled : BOOLEAN]

SecondSteps == {"app", "paper"} \X (0..Papers) \X (0..(LastStep + 1))

\* A call moves on.
LEMMA CallMoved ==
    ASSUME SignInTypeOK, NEW c \in SignIns, NEW call \in CallType,
           signIn' = [signIn EXCEPT ![c] = call]
    PROVE  /\ signIn' \in [SignIns -> CallType]
           /\ signIn'[c] = call
           /\ \A d \in SignIns : d # c => signIn'[d] = signIn[d]
BY DEF SignInTypeOK, CallType

LEMMA NoSignInIsACall == NoSignIn \in CallType /\ NoSignIn.at = "idle" /\ NoSignIn.version = 0
BY AdminSignInAssumption DEF NoSignIn, CallType

LEMMA CallEnds ==
    ASSUME SignInTypeOK, NEW c \in SignIns, signIn' = [signIn EXCEPT ![c] = NoSignIn]
    PROVE  /\ signIn' \in [SignIns -> CallType]
           /\ signIn'[c].at = "idle" /\ signIn'[c].version = 0
           /\ \A d \in SignIns : d # c => signIn'[d] = signIn[d]
BY NoSignInIsACall, CallMoved

\* A code finishes a second step.
LEMMA CodePassed ==
    ASSUME SignInTypeOK, NEW code \in SecondSteps, passed' = [passed EXCEPT ![code] = @ + 1],
           passed[code] = 0
    PROVE  /\ passed' \in [SecondSteps -> Nat] /\ passed[code] = 0 /\ passed'[code] = 1
           /\ \A other \in SecondSteps : other # code => passed'[other] = passed[other]
<1>1. passed \in [SecondSteps -> Nat]
  BY DEF SignInTypeOK, SecondSteps
<1> QED
  BY <1>1

LEMMA KeysAreCodes ==
    /\ \A s \in 0..Papers, k \in 0..(LastStep + 1) : <<"app", s, k>> \in SecondSteps /\ <<"paper", s, k>> \in SecondSteps
    /\ \A s, k, z, l : /\ <<"app", s, k>> # <<"paper", z, l>>
                       /\ <<"app", s, k>> = <<"app", z, l>> <=> s = z /\ k = l
                       /\ <<"paper", s, k>> = <<"paper", z, l>> <=> s = z /\ k = l
BY DEF SecondSteps

LEMMA WhatHasPassed ==
    ASSUME PassedIsPast, SignInTypeOK, NEW s \in 0..Papers, NEW k \in 0..(LastStep + 1)
    PROVE  /\ passed[<<"app", s, k>>] \in Nat /\ passed[<<"paper", s, k>>] \in Nat
           /\ passed[<<"app", s, k>>] > 0 => /\ s # 0 /\ s <= made /\ s # admin.pending
                                             /\ s = admin.secret => k <= admin.lastStep
           /\ passed[<<"paper", s, k>>] > 0 => /\ s <= made
                                               /\ s = admin.sheet => ~ admin.unspent
<1>1. passed \in [SecondSteps -> Nat]
  BY DEF SignInTypeOK, SecondSteps
<1> QED
  BY <1>1, KeysAreCodes DEF PassedIsPast

\* The right password, and whether a second step is owed.
LEMMA PasswordRead ==
    ASSUME AdminInv, ~EnrolOverlap, NEW c \in SignIns, ReadPassword(c)
    PROVE  AdminInv'
<1>c. Papers \in Nat /\ LastStep \in Nat \ {0} /\ Roles \subseteq {"OWNER", "STAFF"}
  BY AdminSignInAssumption
<1>y. /\ admin \in AdminType /\ clock \in 1..LastStep /\ made \in 0..Papers
      /\ sessions \subseteq [version : Nat, two : BOOLEAN]
      /\ signIn \in [SignIns -> CallType] /\ passed \in [SecondSteps -> Nat]
  BY DEF AdminInv, AdminTypeOK, SignInTypeOK, AdminType, CallType, SecondSteps
<1>v. /\ 0 \in 0..Papers /\ 0 \in 0..(LastStep + 1) /\ sessions \subseteq [version : Nat, two : BOOLEAN]
      /\ admin.version \in Nat /\ admin.secret \in 0..Papers /\ admin.pending \in 0..Papers
      /\ admin.lastStep \in 0..(LastStep + 1) /\ admin.sheet \in 0..Papers
  BY <1>c, <1>y DEF AdminType
<1>k. /\ \A d \in SignIns : /\ signIn[d].version \in Nat /\ signIn[d].secret \in 0..Papers
                            /\ signIn[d].step \in 0..(LastStep + 1) /\ signIn[d].sheet \in 0..Papers
      /\ \A session \in sessions : session.version \in Nat
  BY <1>y DEF CallType
<1>i. /\ VersionsTell /\ HeldIsCurrent /\ PassedIsPast
      /\ SessionsPassedTwoSteps /\ CodePassesOnce /\ SignInTypeOK
  BY DEF AdminInv
<1>e1. admin' = admin /\ clock' = clock /\ sessions' = sessions /\ made' = made /\ passed' = passed
  BY DEF ReadPassword
<1>e2. /\ signIn' \in [SignIns -> CallType]
       /\ \A d \in SignIns : d # c => signIn'[d] = signIn[d]
       /\ signIn'[c].at = "password" /\ signIn'[c].version = admin.version /\ (signIn'[c].enrolled <=> Enrolled)
  <2> DEFINE call == [NoSignIn EXCEPT !.at = "password", !.version = admin.version, !.enrolled = Enrolled]
  <2>1. Enrolled \in BOOLEAN
    BY DEF Enrolled
  <2>2. call \in CallType /\ call.at = "password" /\ call.version = admin.version /\ call.enrolled = Enrolled
    BY <1>c, <1>v, <2>1, NoSignInIsACall DEF CallType
  <2>3. signIn' = [signIn EXCEPT ![c] = call]
    BY DEF ReadPassword
  <2> HIDE DEF call
  <2> QED
    BY <1>i, <2>2, <2>3, CallMoved
<1>1. AdminTypeOK'
  BY <1>c, <1>y, <1>v, <1>k, <1>i, <1>e1, <1>e2 DEF AdminTypeOK, AdminType
<1>2. SignInTypeOK'
  BY <1>c, <1>y, <1>v, <1>k, <1>i, <1>e1, <1>e2 DEF SignInTypeOK, CallType, SecondSteps
<1>3. VersionsTell'
  BY <1>c, <1>y, <1>v, <1>k, <1>i, <1>e1, <1>e2 DEF VersionsTell, Enrolled
<1>4. HeldIsCurrent'
  BY <1>c, <1>y, <1>v, <1>k, <1>i, <1>e1, <1>e2 DEF HeldIsCurrent
<1>5. PassedIsPast'
  BY <1>c, <1>y, <1>v, <1>k, <1>i, <1>e1, <1>e2 DEF PassedIsPast
<1>6. SessionsPassedTwoSteps'
  BY <1>c, <1>y, <1>v, <1>k, <1>i, <1>e1, <1>e2 DEF SessionsPassedTwoSteps, SessionResolves, MustEnrol, Enrolled, VersionsTell
<1>7. CodePassesOnce'
  BY <1>c, <1>y, <1>v, <1>k, <1>i, <1>e1, <1>e2 DEF CodePassesOnce
<1> QED
  BY <1>1, <1>2, <1>3, <1>4, <1>5, <1>6, <1>7 DEF AdminInv

\* No second step owed: the sign-in is finished.
LEMMA PasswordFinished ==
    ASSUME AdminInv, ~EnrolOverlap, NEW c \in SignIns, FinishPassword(c)
    PROVE  AdminInv'
<1>c. Papers \in Nat /\ LastStep \in Nat \ {0} /\ Roles \subseteq {"OWNER", "STAFF"}
  BY AdminSignInAssumption
<1>y. /\ admin \in AdminType /\ clock \in 1..LastStep /\ made \in 0..Papers
      /\ sessions \subseteq [version : Nat, two : BOOLEAN]
      /\ signIn \in [SignIns -> CallType] /\ passed \in [SecondSteps -> Nat]
  BY DEF AdminInv, AdminTypeOK, SignInTypeOK, AdminType, CallType, SecondSteps
<1>v. /\ 0 \in 0..Papers /\ 0 \in 0..(LastStep + 1) /\ sessions \subseteq [version : Nat, two : BOOLEAN]
      /\ admin.version \in Nat /\ admin.secret \in 0..Papers /\ admin.pending \in 0..Papers
      /\ admin.lastStep \in 0..(LastStep + 1) /\ admin.sheet \in 0..Papers
  BY <1>c, <1>y DEF AdminType
<1>k. /\ \A d \in SignIns : /\ signIn[d].version \in Nat /\ signIn[d].secret \in 0..Papers
                            /\ signIn[d].step \in 0..(LastStep + 1) /\ signIn[d].sheet \in 0..Papers
      /\ \A session \in sessions : session.version \in Nat
  BY <1>y DEF CallType
<1>i. /\ VersionsTell /\ HeldIsCurrent /\ PassedIsPast
      /\ SessionsPassedTwoSteps /\ CodePassesOnce /\ SignInTypeOK
  BY DEF AdminInv
<1>e1. admin' = admin /\ clock' = clock /\ made' = made /\ passed' = passed
  BY DEF FinishPassword
<1>e2. /\ signIn' \in [SignIns -> CallType]
       /\ \A d \in SignIns : d # c => signIn'[d] = signIn[d]
       /\ signIn'[c].at = "idle" /\ signIn'[c].version = 0
  BY <1>i, CallEnds DEF FinishPassword
<1>e3. signIn[c].at = "password" /\ ~ signIn[c].enrolled
  BY DEF FinishPassword
<1>e4. \A session \in sessions' : session \in sessions \/ session = [version |-> signIn[c].version, two |-> FALSE]
  BY DEF FinishPassword, Minted
<1>e5. sessions' \subseteq [version : Nat, two : BOOLEAN]
  <2>1. [version |-> signIn[c].version, two |-> FALSE] \in [version : Nat, two : BOOLEAN]
    BY <1>k
  <2> QED
    BY <1>v, <1>e4, <2>1
<1>e6. \A session \in sessions' : session \in sessions \/ (session.version = signIn[c].version)
  BY <1>e4
<1>1. AdminTypeOK'
  BY <1>c, <1>y, <1>v, <1>k, <1>i, <1>e1, <1>e2, <1>e3, <1>e4, <1>e5, <1>e6 DEF AdminTypeOK, AdminType
<1>2. SignInTypeOK'
  BY <1>c, <1>y, <1>v, <1>k, <1>i, <1>e1, <1>e2, <1>e3, <1>e4, <1>e5, <1>e6 DEF SignInTypeOK, CallType, SecondSteps
<1>3. VersionsTell'
  BY <1>c, <1>y, <1>v, <1>k, <1>i, <1>e1, <1>e2, <1>e3, <1>e4, <1>e5, <1>e6 DEF VersionsTell, Enrolled
<1>4. HeldIsCurrent'
  BY <1>c, <1>y, <1>v, <1>k, <1>i, <1>e1, <1>e2, <1>e3, <1>e4, <1>e5, <1>e6 DEF HeldIsCurrent
<1>5. PassedIsPast'
  BY <1>c, <1>y, <1>v, <1>k, <1>i, <1>e1, <1>e2, <1>e3, <1>e4, <1>e5, <1>e6 DEF PassedIsPast
<1>6. SessionsPassedTwoSteps'
  BY <1>c, <1>y, <1>v, <1>k, <1>i, <1>e1, <1>e2, <1>e3, <1>e4, <1>e5, <1>e6 DEF SessionsPassedTwoSteps, SessionResolves, MustEnrol, Enrolled, VersionsTell
<1>7. CodePassesOnce'
  BY <1>c, <1>y, <1>v, <1>k, <1>i, <1>e1, <1>e2, <1>e3, <1>e4, <1>e5, <1>e6 DEF CodePassesOnce
<1> QED
  BY <1>1, <1>2, <1>3, <1>4, <1>5, <1>6, <1>7 DEF AdminInv

\* A code the app shows, newer than the last one used.
LEMMA AppCodeChecked ==
    ASSUME AdminInv, ~EnrolOverlap, NEW c \in SignIns, NEW step \in 1..(LastStep + 1), CheckAppCode(c, step)
    PROVE  AdminInv'
<1>c. Papers \in Nat /\ LastStep \in Nat \ {0} /\ Roles \subseteq {"OWNER", "STAFF"}
  BY AdminSignInAssumption
<1>y. /\ admin \in AdminType /\ clock \in 1..LastStep /\ made \in 0..Papers
      /\ sessions \subseteq [version : Nat, two : BOOLEAN]
      /\ signIn \in [SignIns -> CallType] /\ passed \in [SecondSteps -> Nat]
  BY DEF AdminInv, AdminTypeOK, SignInTypeOK, AdminType, CallType, SecondSteps
<1>v. /\ 0 \in 0..Papers /\ 0 \in 0..(LastStep + 1) /\ sessions \subseteq [version : Nat, two : BOOLEAN]
      /\ admin.version \in Nat /\ admin.secret \in 0..Papers /\ admin.pending \in 0..Papers
      /\ admin.lastStep \in 0..(LastStep + 1) /\ admin.sheet \in 0..Papers
  BY <1>c, <1>y DEF AdminType
<1>k. /\ \A d \in SignIns : /\ signIn[d].version \in Nat /\ signIn[d].secret \in 0..Papers
                            /\ signIn[d].step \in 0..(LastStep + 1) /\ signIn[d].sheet \in 0..Papers
      /\ \A session \in sessions : session.version \in Nat
  BY <1>y DEF CallType
<1>i. /\ VersionsTell /\ HeldIsCurrent /\ PassedIsPast
      /\ SessionsPassedTwoSteps /\ CodePassesOnce /\ SignInTypeOK
  BY DEF AdminInv
<1>e1. admin' = admin /\ clock' = clock /\ sessions' = sessions /\ made' = made /\ passed' = passed
  BY DEF CheckAppCode
<1>e2. signIn[c].at = "password"
  BY DEF CheckAppCode, Challenged
<1>e3. /\ signIn' \in [SignIns -> CallType]
       /\ \A d \in SignIns : d # c => signIn'[d] = signIn[d]
       /\ signIn'[c].at = "app" /\ signIn'[c].version = signIn[c].version /\ signIn'[c].secret = admin.secret
  <2> DEFINE call == [[[signIn[c] EXCEPT !.at = "app"] EXCEPT !.secret = admin.secret] EXCEPT !.step = step]
  <2>1. signIn[c] \in CallType /\ step \in 0..(LastStep + 1)
    BY <1>y
  <2>2. call \in CallType /\ call.at = "app" /\ call.version = signIn[c].version /\ call.secret = admin.secret
    BY <1>v, <2>1 DEF CallType
  <2>3. signIn' = [signIn EXCEPT ![c] = call]
    BY <1>y DEF CheckAppCode
  <2> HIDE DEF call
  <2> QED
    BY <1>i, <2>2, <2>3, CallMoved
<1>e4. admin.secret # 0
  BY DEF CheckAppCode, Enrolled
<1>1. AdminTypeOK'
  BY <1>c, <1>y, <1>v, <1>k, <1>i, <1>e1, <1>e2, <1>e3, <1>e4 DEF AdminTypeOK, AdminType
<1>2. SignInTypeOK'
  BY <1>c, <1>y, <1>v, <1>k, <1>i, <1>e1, <1>e2, <1>e3, <1>e4 DEF SignInTypeOK, CallType, SecondSteps
<1>3. VersionsTell'
  BY <1>c, <1>y, <1>v, <1>k, <1>i, <1>e1, <1>e2, <1>e3, <1>e4 DEF VersionsTell, Enrolled
<1>4. HeldIsCurrent'
  <2>2. ASSUME NEW d \in SignIns
        PROVE  /\ signIn'[d].at = "activate" => signIn[d].at = "activate" /\ signIn'[d] = signIn[d]
               /\ signIn'[d].at = "app" => signIn'[d].secret = admin'.secret /\ admin'.secret # 0
               /\ signIn'[d].at = "paper" => signIn'[d].sheet <= made'
    <3>1. CASE d = c
      BY <1>e1, <1>e2, <1>e3, <1>e4, <1>v, <1>i, <3>1 DEF PassedIsPast
    <3>2. CASE d # c
      <4>1. signIn'[d] = signIn[d]
        BY <1>e1, <1>e2, <1>e3, <1>e4, <3>2
      <4> QED
        BY <1>e1, <1>e2, <1>e3, <1>e4, <1>i, <4>1 DEF HeldIsCurrent
    <3> QED
      BY <3>1, <3>2
  <2> QED
    BY <1>e1, <1>e2, <1>e3, <1>e4, <1>i, <2>2 DEF HeldIsCurrent
<1>5. PassedIsPast'
  BY <1>c, <1>y, <1>v, <1>k, <1>i, <1>e1, <1>e2, <1>e3, <1>e4 DEF PassedIsPast
<1>6. SessionsPassedTwoSteps'
  BY <1>c, <1>y, <1>v, <1>k, <1>i, <1>e1, <1>e2, <1>e3, <1>e4 DEF SessionsPassedTwoSteps, SessionResolves, MustEnrol, Enrolled, VersionsTell
<1>7. CodePassesOnce'
  BY <1>c, <1>y, <1>v, <1>k, <1>i, <1>e1, <1>e2, <1>e3, <1>e4 DEF CodePassesOnce
<1> QED
  BY <1>1, <1>2, <1>3, <1>4, <1>5, <1>6, <1>7 DEF AdminInv

\* A recovery code of the sheet there is.
LEMMA PaperCodeChecked ==
    ASSUME AdminInv, ~EnrolOverlap, NEW c \in SignIns, CheckPaperCode(c)
    PROVE  AdminInv'
<1>c. Papers \in Nat /\ LastStep \in Nat \ {0} /\ Roles \subseteq {"OWNER", "STAFF"}
  BY AdminSignInAssumption
<1>y. /\ admin \in AdminType /\ clock \in 1..LastStep /\ made \in 0..Papers
      /\ sessions \subseteq [version : Nat, two : BOOLEAN]
      /\ signIn \in [SignIns -> CallType] /\ passed \in [SecondSteps -> Nat]
  BY DEF AdminInv, AdminTypeOK, SignInTypeOK, AdminType, CallType, SecondSteps
<1>v. /\ 0 \in 0..Papers /\ 0 \in 0..(LastStep + 1) /\ sessions \subseteq [version : Nat, two : BOOLEAN]
      /\ admin.version \in Nat /\ admin.secret \in 0..Papers /\ admin.pending \in 0..Papers
      /\ admin.lastStep \in 0..(LastStep + 1) /\ admin.sheet \in 0..Papers
  BY <1>c, <1>y DEF AdminType
<1>k. /\ \A d \in SignIns : /\ signIn[d].version \in Nat /\ signIn[d].secret \in 0..Papers
                            /\ signIn[d].step \in 0..(LastStep + 1) /\ signIn[d].sheet \in 0..Papers
      /\ \A session \in sessions : session.version \in Nat
  BY <1>y DEF CallType
<1>i. /\ VersionsTell /\ HeldIsCurrent /\ PassedIsPast
      /\ SessionsPassedTwoSteps /\ CodePassesOnce /\ SignInTypeOK
  BY DEF AdminInv
<1>e1. admin' = admin /\ clock' = clock /\ sessions' = sessions /\ made' = made /\ passed' = passed
  BY DEF CheckPaperCode
<1>e2. signIn[c].at = "password"
  BY DEF CheckPaperCode, Challenged
<1>e3. /\ signIn' \in [SignIns -> CallType]
       /\ \A d \in SignIns : d # c => signIn'[d] = signIn[d]
       /\ signIn'[c].at = "paper" /\ signIn'[c].version = signIn[c].version /\ signIn'[c].sheet = admin.sheet
  <2> DEFINE call == [[signIn[c] EXCEPT !.at = "paper"] EXCEPT !.sheet = admin.sheet]
  <2>1. signIn[c] \in CallType
    BY <1>y
  <2>2. call \in CallType /\ call.at = "paper" /\ call.version = signIn[c].version /\ call.sheet = admin.sheet
    BY <1>v, <2>1 DEF CallType
  <2>3. signIn' = [signIn EXCEPT ![c] = call]
    BY <1>y DEF CheckPaperCode
  <2> HIDE DEF call
  <2> QED
    BY <1>i, <2>2, <2>3, CallMoved
<1>1. AdminTypeOK'
  BY <1>c, <1>y, <1>v, <1>k, <1>i, <1>e1, <1>e2, <1>e3 DEF AdminTypeOK, AdminType
<1>2. SignInTypeOK'
  BY <1>c, <1>y, <1>v, <1>k, <1>i, <1>e1, <1>e2, <1>e3 DEF SignInTypeOK, CallType, SecondSteps
<1>3. VersionsTell'
  BY <1>c, <1>y, <1>v, <1>k, <1>i, <1>e1, <1>e2, <1>e3 DEF VersionsTell, Enrolled
<1>4. HeldIsCurrent'
  <2>2. ASSUME NEW d \in SignIns
        PROVE  /\ signIn'[d].at = "activate" => signIn[d].at = "activate" /\ signIn'[d] = signIn[d]
               /\ signIn'[d].at = "app" => signIn'[d].secret = admin'.secret /\ admin'.secret # 0
               /\ signIn'[d].at = "paper" => signIn'[d].sheet <= made'
    <3>1. CASE d = c
      BY <1>e1, <1>e2, <1>e3, <1>v, <1>i, <3>1 DEF PassedIsPast
    <3>2. CASE d # c
      <4>1. signIn'[d] = signIn[d]
        BY <1>e1, <1>e2, <1>e3, <3>2
      <4> QED
        BY <1>e1, <1>e2, <1>e3, <1>i, <4>1 DEF HeldIsCurrent
    <3> QED
      BY <3>1, <3>2
  <2> QED
    BY <1>e1, <1>e2, <1>e3, <1>i, <2>2 DEF HeldIsCurrent
<1>5. PassedIsPast'
  BY <1>c, <1>y, <1>v, <1>k, <1>i, <1>e1, <1>e2, <1>e3 DEF PassedIsPast
<1>6. SessionsPassedTwoSteps'
  BY <1>c, <1>y, <1>v, <1>k, <1>i, <1>e1, <1>e2, <1>e3 DEF SessionsPassedTwoSteps, SessionResolves, MustEnrol, Enrolled, VersionsTell
<1>7. CodePassesOnce'
  BY <1>c, <1>y, <1>v, <1>k, <1>i, <1>e1, <1>e2, <1>e3 DEF CodePassesOnce
<1> QED
  BY <1>1, <1>2, <1>3, <1>4, <1>5, <1>6, <1>7 DEF AdminInv

\* The code is spent, and the sign-in finished.
LEMMA AppCodeSpent ==
    ASSUME AdminInv, ~EnrolOverlap, NEW c \in SignIns, SpendAppCode(c), StepIsNew(c)
    PROVE  AdminInv'
<1>c. Papers \in Nat /\ LastStep \in Nat \ {0} /\ Roles \subseteq {"OWNER", "STAFF"}
  BY AdminSignInAssumption
<1>y. /\ admin \in AdminType /\ clock \in 1..LastStep /\ made \in 0..Papers
      /\ sessions \subseteq [version : Nat, two : BOOLEAN]
      /\ signIn \in [SignIns -> CallType] /\ passed \in [SecondSteps -> Nat]
  BY DEF AdminInv, AdminTypeOK, SignInTypeOK, AdminType, CallType, SecondSteps
<1>v. /\ 0 \in 0..Papers /\ 0 \in 0..(LastStep + 1) /\ sessions \subseteq [version : Nat, two : BOOLEAN]
      /\ admin.version \in Nat /\ admin.secret \in 0..Papers /\ admin.pending \in 0..Papers
      /\ admin.lastStep \in 0..(LastStep + 1) /\ admin.sheet \in 0..Papers
  BY <1>c, <1>y DEF AdminType
<1>k. /\ \A d \in SignIns : /\ signIn[d].version \in Nat /\ signIn[d].secret \in 0..Papers
                            /\ signIn[d].step \in 0..(LastStep + 1) /\ signIn[d].sheet \in 0..Papers
      /\ \A session \in sessions : session.version \in Nat
  BY <1>y DEF CallType
<1>i. /\ VersionsTell /\ HeldIsCurrent /\ PassedIsPast
      /\ SessionsPassedTwoSteps /\ CodePassesOnce /\ SignInTypeOK
  BY DEF AdminInv
<1>e1. clock' = clock /\ made' = made
  BY DEF SpendAppCode
<1>e2. signIn[c].at = "app" /\ signIn[c].secret = admin.secret /\ admin.lastStep < signIn[c].step
  BY <1>i DEF SpendAppCode, StepIsNew, HeldIsCurrent
<1>e3. /\ signIn' \in [SignIns -> CallType]
       /\ \A d \in SignIns : d # c => signIn'[d] = signIn[d]
       /\ signIn'[c].at = "idle" /\ signIn'[c].version = 0
  BY <1>i, CallEnds DEF SpendAppCode
<1>e4. /\ admin' \in AdminType /\ admin'.lastStep = signIn[c].step
       /\ admin'.role = admin.role /\ admin'.version = admin.version /\ admin'.secret = admin.secret
       /\ admin'.pending = admin.pending /\ admin'.sheet = admin.sheet /\ admin'.unspent = admin.unspent
  BY <1>y, <1>k DEF SpendAppCode, AdminType
<1>e5. /\ passed' \in [SecondSteps -> Nat]
       /\ passed[<<"app", admin.secret, signIn[c].step>>] = 0 /\ passed'[<<"app", admin.secret, signIn[c].step>>] = 1
       /\ \A code \in SecondSteps : code # <<"app", admin.secret, signIn[c].step>> => passed'[code] = passed[code]
  <2>1. passed' = [passed EXCEPT ![<<"app", admin.secret, signIn[c].step>>] = @ + 1]
    BY <1>e2 DEF SpendAppCode
  <2>2. <<"app", admin.secret, signIn[c].step>> \in SecondSteps
    BY <1>v, <1>k, KeysAreCodes
  <2>3. passed[<<"app", admin.secret, signIn[c].step>>] = 0
    <3>1. /\ passed[<<"app", admin.secret, signIn[c].step>>] \in Nat
          /\ passed[<<"app", admin.secret, signIn[c].step>>] > 0 => (admin.secret = admin.secret => signIn[c].step <= admin.lastStep)
      BY <1>v, <1>k, <1>e2, <1>i, WhatHasPassed
    <3> QED
      BY <3>1, <1>v, <1>k, <1>e2
  <2> QED
    BY <1>i, <2>1, <2>2, <2>3, CodePassed
<1>e6. /\ sessions' \subseteq [version : Nat, two : BOOLEAN]
       /\ \A session \in sessions' : session \in sessions \/ (session.version = signIn[c].version /\ session.two)
  <2>1. [version |-> signIn[c].version, two |-> TRUE] \in [version : Nat, two : BOOLEAN]
    BY <1>v, <1>k
  <2>2. sessions' = sessions \cup {[version |-> signIn[c].version, two |-> TRUE]}
    BY <1>e2 DEF SpendAppCode, Minted
  <2>3. LET new == [version |-> signIn[c].version, two |-> TRUE] IN new.version = signIn[c].version /\ new.two
    OBVIOUS
  <2> QED
    BY <1>v, <2>1, <2>2, <2>3
<1>1. AdminTypeOK'
  BY <1>c, <1>y, <1>v, <1>k, <1>i, <1>e1, <1>e2, <1>e3, <1>e4, <1>e5, <1>e6 DEF AdminTypeOK, AdminType
<1>2. SignInTypeOK'
  BY <1>c, <1>y, <1>v, <1>k, <1>i, <1>e1, <1>e2, <1>e3, <1>e4, <1>e5, <1>e6 DEF SignInTypeOK, CallType, SecondSteps
<1>3. VersionsTell'
  BY <1>c, <1>y, <1>v, <1>k, <1>i, <1>e1, <1>e2, <1>e3, <1>e4, <1>e5, <1>e6 DEF VersionsTell, Enrolled
<1>4. HeldIsCurrent'
  BY <1>c, <1>y, <1>v, <1>k, <1>i, <1>e1, <1>e2, <1>e3, <1>e4, <1>e5, <1>e6 DEF HeldIsCurrent
<1>5. PassedIsPast'
  <2>1. /\ admin'.secret <= made' /\ admin'.pending <= made' /\ admin'.sheet <= made'
        /\ admin'.pending # 0 => admin'.pending # admin'.secret
    BY <1>c, <1>y, <1>v, <1>k, <1>i, <1>e1, <1>e2, <1>e3, <1>e4, <1>e5, <1>e6 DEF PassedIsPast
  <2>2. ASSUME NEW z \in 0..Papers, NEW l \in 0..(LastStep + 1), passed'[<<"app", z, l>>] > 0
        PROVE  /\ z # 0 /\ z <= made' /\ z # admin'.pending
               /\ z = admin'.secret => l <= admin'.lastStep
    <3>1. <<"app", z, l>> \in SecondSteps /\ <<"app", admin.secret, signIn[c].step>> \in SecondSteps
      BY KeysAreCodes, <1>c, <1>y, <1>v, <1>k, <1>i, <1>e1, <1>e2, <1>e3, <1>e4, <1>e5, <1>e6
    <3>2. CASE <<"app", z, l>> = <<"app", admin.secret, signIn[c].step>>
      BY <1>c, <1>y, <1>v, <1>k, <1>i, <1>e1, <1>e2, <1>e3, <1>e4, <1>e5, <1>e6, <3>2, KeysAreCodes DEF PassedIsPast, HeldIsCurrent
    <3>3. CASE <<"app", z, l>> # <<"app", admin.secret, signIn[c].step>>
      <4>1. passed'[<<"app", z, l>>] = passed[<<"app", z, l>>]
        BY <1>e1, <1>e2, <1>e3, <1>e4, <1>e5, <1>e6, <3>1, <3>3
      <4>2. z # 0 /\ z <= made /\ z # admin.pending /\ (z = admin.secret => l <= admin.lastStep)
        BY <1>i, <2>2, <4>1, WhatHasPassed
      <4> QED
        BY <1>c, <1>y, <1>v, <1>k, <1>i, <1>e1, <1>e2, <1>e3, <1>e4, <1>e5, <1>e6, <4>2
    <3> QED
      BY <3>2, <3>3
  <2>3. ASSUME NEW z \in 0..Papers, NEW l \in 0..(LastStep + 1), passed'[<<"paper", z, l>>] > 0
        PROVE  z <= made' /\ (z = admin'.sheet => ~ admin'.unspent)
    <3>1. <<"paper", z, l>> \in SecondSteps
      BY KeysAreCodes, <1>c, <1>y, <1>v, <1>k, <1>i
    <3>2. CASE <<"paper", z, l>> = <<"app", admin.secret, signIn[c].step>>
      BY <1>c, <1>y, <1>v, <1>k, <1>i, <1>e1, <1>e2, <1>e3, <1>e4, <1>e5, <1>e6, <3>2, KeysAreCodes DEF PassedIsPast, HeldIsCurrent
    <3>3. CASE <<"paper", z, l>> # <<"app", admin.secret, signIn[c].step>>
      <4>1. passed'[<<"paper", z, l>>] = passed[<<"paper", z, l>>]
        BY <1>e1, <1>e2, <1>e3, <1>e4, <1>e5, <1>e6, <3>1, <3>3
      <4>2. z <= made /\ (z = admin.sheet => ~ admin.unspent)
        BY <1>i, <2>3, <4>1, WhatHasPassed
      <4> QED
        BY <1>c, <1>y, <1>v, <1>k, <1>i, <1>e1, <1>e2, <1>e3, <1>e4, <1>e5, <1>e6, <4>2
    <3> QED
      BY <3>2, <3>3
  <2> QED
    BY <2>1, <2>2, <2>3 DEF PassedIsPast
<1>6. SessionsPassedTwoSteps'
  BY <1>c, <1>y, <1>v, <1>k, <1>i, <1>e1, <1>e2, <1>e3, <1>e4, <1>e5, <1>e6 DEF SessionsPassedTwoSteps, SessionResolves, MustEnrol, Enrolled, VersionsTell
<1>7. CodePassesOnce'
  <2> SUFFICES ASSUME NEW code \in SecondSteps PROVE passed'[code] <= 1
    BY <1>e1, <1>e2, <1>e3, <1>e4, <1>e5, <1>e6 DEF CodePassesOnce
  <2>1. passed[code] <= 1
    BY <1>y, <1>i DEF CodePassesOnce
  <2> QED
    BY <1>e1, <1>e2, <1>e3, <1>e4, <1>e5, <1>e6, <2>1
<1> QED
  BY <1>1, <1>2, <1>3, <1>4, <1>5, <1>6, <1>7 DEF AdminInv

\* A recovery code is spent under the row's lock, and the sign-in finished.
LEMMA PaperCodeSpent ==
    ASSUME AdminInv, ~EnrolOverlap, NEW c \in SignIns, SpendPaperCode(c), StillOnPaper(c)
    PROVE  AdminInv'
<1>c. Papers \in Nat /\ LastStep \in Nat \ {0} /\ Roles \subseteq {"OWNER", "STAFF"}
  BY AdminSignInAssumption
<1>y. /\ admin \in AdminType /\ clock \in 1..LastStep /\ made \in 0..Papers
      /\ sessions \subseteq [version : Nat, two : BOOLEAN]
      /\ signIn \in [SignIns -> CallType] /\ passed \in [SecondSteps -> Nat]
  BY DEF AdminInv, AdminTypeOK, SignInTypeOK, AdminType, CallType, SecondSteps
<1>v. /\ 0 \in 0..Papers /\ 0 \in 0..(LastStep + 1) /\ sessions \subseteq [version : Nat, two : BOOLEAN]
      /\ admin.version \in Nat /\ admin.secret \in 0..Papers /\ admin.pending \in 0..Papers
      /\ admin.lastStep \in 0..(LastStep + 1) /\ admin.sheet \in 0..Papers
  BY <1>c, <1>y DEF AdminType
<1>k. /\ \A d \in SignIns : /\ signIn[d].version \in Nat /\ signIn[d].secret \in 0..Papers
                            /\ signIn[d].step \in 0..(LastStep + 1) /\ signIn[d].sheet \in 0..Papers
      /\ \A session \in sessions : session.version \in Nat
  BY <1>y DEF CallType
<1>i. /\ VersionsTell /\ HeldIsCurrent /\ PassedIsPast
      /\ SessionsPassedTwoSteps /\ CodePassesOnce /\ SignInTypeOK
  BY DEF AdminInv
<1>e1. clock' = clock /\ made' = made
  BY DEF SpendPaperCode
<1>e2. signIn[c].at = "paper" /\ signIn[c].sheet = admin.sheet /\ admin.unspent
  BY DEF SpendPaperCode, StillOnPaper
<1>e3. /\ signIn' \in [SignIns -> CallType]
       /\ \A d \in SignIns : d # c => signIn'[d] = signIn[d]
       /\ signIn'[c].at = "idle" /\ signIn'[c].version = 0
  BY <1>i, CallEnds DEF SpendPaperCode
<1>e4. /\ admin' \in AdminType /\ ~ admin'.unspent
       /\ admin'.role = admin.role /\ admin'.version = admin.version /\ admin'.secret = admin.secret
       /\ admin'.pending = admin.pending /\ admin'.sheet = admin.sheet /\ admin'.lastStep = admin.lastStep
  BY <1>y DEF SpendPaperCode, AdminType
<1>e5. /\ passed' \in [SecondSteps -> Nat]
       /\ passed[<<"paper", admin.sheet, 0>>] = 0 /\ passed'[<<"paper", admin.sheet, 0>>] = 1
       /\ \A code \in SecondSteps : code # <<"paper", admin.sheet, 0>> => passed'[code] = passed[code]
  <2>1. passed' = [passed EXCEPT ![<<"paper", admin.sheet, 0>>] = @ + 1]
    BY <1>e2 DEF SpendPaperCode
  <2>2. <<"paper", admin.sheet, 0>> \in SecondSteps
    BY <1>c, <1>v, KeysAreCodes
  <2>3. passed[<<"paper", admin.sheet, 0>>] = 0
    <3>1. /\ passed[<<"paper", admin.sheet, 0>>] \in Nat
          /\ passed[<<"paper", admin.sheet, 0>>] > 0 => (admin.sheet = admin.sheet => ~ admin.unspent)
      BY <1>v, <1>k, <1>e2, <1>i, WhatHasPassed
    <3> QED
      BY <3>1, <1>v, <1>k, <1>e2
  <2> QED
    BY <1>i, <2>1, <2>2, <2>3, CodePassed
<1>e6. /\ sessions' \subseteq [version : Nat, two : BOOLEAN]
       /\ \A session \in sessions' : session \in sessions \/ (session.version = signIn[c].version /\ session.two)
  <2>1. [version |-> signIn[c].version, two |-> TRUE] \in [version : Nat, two : BOOLEAN]
    BY <1>v, <1>k
  <2>2. sessions' = sessions \cup {[version |-> signIn[c].version, two |-> TRUE]}
    BY <1>e2 DEF SpendPaperCode, Minted
  <2>3. LET new == [version |-> signIn[c].version, two |-> TRUE] IN new.version = signIn[c].version /\ new.two
    OBVIOUS
  <2> QED
    BY <1>v, <2>1, <2>2, <2>3
<1>1. AdminTypeOK'
  BY <1>c, <1>y, <1>v, <1>k, <1>i, <1>e1, <1>e2, <1>e3, <1>e4, <1>e5, <1>e6 DEF AdminTypeOK, AdminType
<1>2. SignInTypeOK'
  BY <1>c, <1>y, <1>v, <1>k, <1>i, <1>e1, <1>e2, <1>e3, <1>e4, <1>e5, <1>e6 DEF SignInTypeOK, CallType, SecondSteps
<1>3. VersionsTell'
  BY <1>c, <1>y, <1>v, <1>k, <1>i, <1>e1, <1>e2, <1>e3, <1>e4, <1>e5, <1>e6 DEF VersionsTell, Enrolled
<1>4. HeldIsCurrent'
  BY <1>c, <1>y, <1>v, <1>k, <1>i, <1>e1, <1>e2, <1>e3, <1>e4, <1>e5, <1>e6 DEF HeldIsCurrent
<1>5. PassedIsPast'
  <2>1. /\ admin'.secret <= made' /\ admin'.pending <= made' /\ admin'.sheet <= made'
        /\ admin'.pending # 0 => admin'.pending # admin'.secret
    BY <1>c, <1>y, <1>v, <1>k, <1>i, <1>e1, <1>e2, <1>e3, <1>e4, <1>e5, <1>e6 DEF PassedIsPast
  <2>2. ASSUME NEW z \in 0..Papers, NEW l \in 0..(LastStep + 1), passed'[<<"app", z, l>>] > 0
        PROVE  /\ z # 0 /\ z <= made' /\ z # admin'.pending
               /\ z = admin'.secret => l <= admin'.lastStep
    <3>1. <<"app", z, l>> \in SecondSteps /\ <<"paper", admin.sheet, 0>> \in SecondSteps
      BY KeysAreCodes, <1>c, <1>y, <1>v, <1>k, <1>i, <1>e1, <1>e2, <1>e3, <1>e4, <1>e5, <1>e6
    <3>2. CASE <<"app", z, l>> = <<"paper", admin.sheet, 0>>
      BY <1>c, <1>y, <1>v, <1>k, <1>i, <1>e1, <1>e2, <1>e3, <1>e4, <1>e5, <1>e6, <3>2, KeysAreCodes DEF PassedIsPast, HeldIsCurrent
    <3>3. CASE <<"app", z, l>> # <<"paper", admin.sheet, 0>>
      <4>1. passed'[<<"app", z, l>>] = passed[<<"app", z, l>>]
        BY <1>e1, <1>e2, <1>e3, <1>e4, <1>e5, <1>e6, <3>1, <3>3
      <4>2. z # 0 /\ z <= made /\ z # admin.pending /\ (z = admin.secret => l <= admin.lastStep)
        BY <1>i, <2>2, <4>1, WhatHasPassed
      <4> QED
        BY <1>c, <1>y, <1>v, <1>k, <1>i, <1>e1, <1>e2, <1>e3, <1>e4, <1>e5, <1>e6, <4>2
    <3> QED
      BY <3>2, <3>3
  <2>3. ASSUME NEW z \in 0..Papers, NEW l \in 0..(LastStep + 1), passed'[<<"paper", z, l>>] > 0
        PROVE  z <= made' /\ (z = admin'.sheet => ~ admin'.unspent)
    <3>1. <<"paper", z, l>> \in SecondSteps
      BY KeysAreCodes, <1>c, <1>y, <1>v, <1>k, <1>i
    <3>2. CASE <<"paper", z, l>> = <<"paper", admin.sheet, 0>>
      BY <1>c, <1>y, <1>v, <1>k, <1>i, <1>e1, <1>e2, <1>e3, <1>e4, <1>e5, <1>e6, <3>2, KeysAreCodes DEF PassedIsPast, HeldIsCurrent
    <3>3. CASE <<"paper", z, l>> # <<"paper", admin.sheet, 0>>
      <4>1. passed'[<<"paper", z, l>>] = passed[<<"paper", z, l>>]
        BY <1>e1, <1>e2, <1>e3, <1>e4, <1>e5, <1>e6, <3>1, <3>3
      <4>2. z <= made /\ (z = admin.sheet => ~ admin.unspent)
        BY <1>i, <2>3, <4>1, WhatHasPassed
      <4> QED
        BY <1>c, <1>y, <1>v, <1>k, <1>i, <1>e1, <1>e2, <1>e3, <1>e4, <1>e5, <1>e6, <4>2
    <3> QED
      BY <3>2, <3>3
  <2> QED
    BY <2>1, <2>2, <2>3 DEF PassedIsPast
<1>6. SessionsPassedTwoSteps'
  BY <1>c, <1>y, <1>v, <1>k, <1>i, <1>e1, <1>e2, <1>e3, <1>e4, <1>e5, <1>e6 DEF SessionsPassedTwoSteps, SessionResolves, MustEnrol, Enrolled, VersionsTell
<1>7. CodePassesOnce'
  <2> SUFFICES ASSUME NEW code \in SecondSteps PROVE passed'[code] <= 1
    BY <1>e1, <1>e2, <1>e3, <1>e4, <1>e5, <1>e6 DEF CodePassesOnce
  <2>1. passed[code] <= 1
    BY <1>y, <1>i DEF CodePassesOnce
  <2> QED
    BY <1>e1, <1>e2, <1>e3, <1>e4, <1>e5, <1>e6, <2>1
<1> QED
  BY <1>1, <1>2, <1>3, <1>4, <1>5, <1>6, <1>7 DEF AdminInv

\* A code that went in the meantime is refused, or the call dies.
LEMMA CallEnded ==
    ASSUME AdminInv, ~EnrolOverlap, NEW c \in SignIns,
           SignInDies(c) \/ (SpendAppCode(c) /\ ~ StepIsNew(c)) \/ (SpendPaperCode(c) /\ ~ StillOnPaper(c))
    PROVE  AdminInv'
<1>c. Papers \in Nat /\ LastStep \in Nat \ {0} /\ Roles \subseteq {"OWNER", "STAFF"}
  BY AdminSignInAssumption
<1>y. /\ admin \in AdminType /\ clock \in 1..LastStep /\ made \in 0..Papers
      /\ sessions \subseteq [version : Nat, two : BOOLEAN]
      /\ signIn \in [SignIns -> CallType] /\ passed \in [SecondSteps -> Nat]
  BY DEF AdminInv, AdminTypeOK, SignInTypeOK, AdminType, CallType, SecondSteps
<1>v. /\ 0 \in 0..Papers /\ 0 \in 0..(LastStep + 1) /\ sessions \subseteq [version : Nat, two : BOOLEAN]
      /\ admin.version \in Nat /\ admin.secret \in 0..Papers /\ admin.pending \in 0..Papers
      /\ admin.lastStep \in 0..(LastStep + 1) /\ admin.sheet \in 0..Papers
  BY <1>c, <1>y DEF AdminType
<1>k. /\ \A d \in SignIns : /\ signIn[d].version \in Nat /\ signIn[d].secret \in 0..Papers
                            /\ signIn[d].step \in 0..(LastStep + 1) /\ signIn[d].sheet \in 0..Papers
      /\ \A session \in sessions : session.version \in Nat
  BY <1>y DEF CallType
<1>i. /\ VersionsTell /\ HeldIsCurrent /\ PassedIsPast
      /\ SessionsPassedTwoSteps /\ CodePassesOnce /\ SignInTypeOK
  BY DEF AdminInv
<1>e1. admin' = admin /\ clock' = clock /\ sessions' = sessions /\ made' = made /\ passed' = passed
  BY DEF SignInDies, SpendAppCode, SpendPaperCode
<1>e2. /\ signIn' \in [SignIns -> CallType]
       /\ \A d \in SignIns : d # c => signIn'[d] = signIn[d]
       /\ signIn'[c].at = "idle" /\ signIn'[c].version = 0
  BY <1>i, CallEnds DEF SignInDies, SpendAppCode, SpendPaperCode
<1>1. AdminTypeOK'
  BY <1>c, <1>y, <1>v, <1>k, <1>i, <1>e1, <1>e2 DEF AdminTypeOK, AdminType
<1>2. SignInTypeOK'
  BY <1>c, <1>y, <1>v, <1>k, <1>i, <1>e1, <1>e2 DEF SignInTypeOK, CallType, SecondSteps
<1>3. VersionsTell'
  BY <1>c, <1>y, <1>v, <1>k, <1>i, <1>e1, <1>e2 DEF VersionsTell, Enrolled
<1>4. HeldIsCurrent'
  BY <1>c, <1>y, <1>v, <1>k, <1>i, <1>e1, <1>e2 DEF HeldIsCurrent
<1>5. PassedIsPast'
  BY <1>c, <1>y, <1>v, <1>k, <1>i, <1>e1, <1>e2 DEF PassedIsPast
<1>6. SessionsPassedTwoSteps'
  BY <1>c, <1>y, <1>v, <1>k, <1>i, <1>e1, <1>e2 DEF SessionsPassedTwoSteps, SessionResolves, MustEnrol, Enrolled, VersionsTell
<1>7. CodePassesOnce'
  BY <1>c, <1>y, <1>v, <1>k, <1>i, <1>e1, <1>e2 DEF CodePassesOnce
<1> QED
  BY <1>1, <1>2, <1>3, <1>4, <1>5, <1>6, <1>7 DEF AdminInv

\* A secret is made, that waits to be confirmed.
LEMMA SecretMade ==
    ASSUME AdminInv, ~EnrolOverlap, PendingSetup
    PROVE  AdminInv'
<1>c. Papers \in Nat /\ LastStep \in Nat \ {0} /\ Roles \subseteq {"OWNER", "STAFF"}
  BY AdminSignInAssumption
<1>y. /\ admin \in AdminType /\ clock \in 1..LastStep /\ made \in 0..Papers
      /\ sessions \subseteq [version : Nat, two : BOOLEAN]
      /\ signIn \in [SignIns -> CallType] /\ passed \in [SecondSteps -> Nat]
  BY DEF AdminInv, AdminTypeOK, SignInTypeOK, AdminType, CallType, SecondSteps
<1>v. /\ 0 \in 0..Papers /\ 0 \in 0..(LastStep + 1) /\ sessions \subseteq [version : Nat, two : BOOLEAN]
      /\ admin.version \in Nat /\ admin.secret \in 0..Papers /\ admin.pending \in 0..Papers
      /\ admin.lastStep \in 0..(LastStep + 1) /\ admin.sheet \in 0..Papers
  BY <1>c, <1>y DEF AdminType
<1>k. /\ \A d \in SignIns : /\ signIn[d].version \in Nat /\ signIn[d].secret \in 0..Papers
                            /\ signIn[d].step \in 0..(LastStep + 1) /\ signIn[d].sheet \in 0..Papers
      /\ \A session \in sessions : session.version \in Nat
  BY <1>y DEF CallType
<1>i. /\ VersionsTell /\ HeldIsCurrent /\ PassedIsPast
      /\ SessionsPassedTwoSteps /\ CodePassesOnce /\ SignInTypeOK
  BY DEF AdminInv
<1>e1. clock' = clock /\ sessions' = sessions /\ signIn' = signIn /\ passed' = passed
  BY DEF PendingSetup
<1>e2. made' = made + 1 /\ made < Papers
  BY DEF PendingSetup
<1>e3. \A d \in SignIns : signIn[d].at # "activate"
  BY DEF PendingSetup, MayChangeFactor, ChangingFactor
<1>e4. /\ admin' \in AdminType /\ admin'.pending = made + 1
       /\ admin'.role = admin.role /\ admin'.version = admin.version /\ admin'.secret = admin.secret
       /\ admin'.unspent = admin.unspent /\ admin'.sheet = admin.sheet /\ admin'.lastStep = admin.lastStep
  BY <1>y, <1>c DEF PendingSetup, AdminType
<1>1. AdminTypeOK'
  BY <1>c, <1>y, <1>v, <1>k, <1>i, <1>e1, <1>e2, <1>e3, <1>e4 DEF AdminTypeOK, AdminType
<1>2. SignInTypeOK'
  BY <1>c, <1>y, <1>v, <1>k, <1>i, <1>e1, <1>e2, <1>e3, <1>e4 DEF SignInTypeOK, CallType, SecondSteps
<1>3. VersionsTell'
  BY <1>c, <1>y, <1>v, <1>k, <1>i, <1>e1, <1>e2, <1>e3, <1>e4 DEF VersionsTell, Enrolled
<1>4. HeldIsCurrent'
  BY <1>c, <1>y, <1>v, <1>k, <1>i, <1>e1, <1>e2, <1>e3, <1>e4 DEF HeldIsCurrent
<1>5. PassedIsPast'
  BY <1>c, <1>y, <1>v, <1>k, <1>i, <1>e1, <1>e2, <1>e3, <1>e4 DEF PassedIsPast
<1>6. SessionsPassedTwoSteps'
  BY <1>c, <1>y, <1>v, <1>k, <1>i, <1>e1, <1>e2, <1>e3, <1>e4 DEF SessionsPassedTwoSteps, SessionResolves, MustEnrol, Enrolled, VersionsTell
<1>7. CodePassesOnce'
  BY <1>c, <1>y, <1>v, <1>k, <1>i, <1>e1, <1>e2, <1>e3, <1>e4 DEF CodePassesOnce
<1> QED
  BY <1>1, <1>2, <1>3, <1>4, <1>5, <1>6, <1>7 DEF AdminInv

\* A code of the waiting secret; nobody else is changing the set-up.
LEMMA PendingRead ==
    ASSUME AdminInv, ~EnrolOverlap, NEW c \in SignIns, NEW step \in 0..(LastStep + 1), ReadPending(c, step)
    PROVE  AdminInv'
<1>c. Papers \in Nat /\ LastStep \in Nat \ {0} /\ Roles \subseteq {"OWNER", "STAFF"}
  BY AdminSignInAssumption
<1>y. /\ admin \in AdminType /\ clock \in 1..LastStep /\ made \in 0..Papers
      /\ sessions \subseteq [version : Nat, two : BOOLEAN]
      /\ signIn \in [SignIns -> CallType] /\ passed \in [SecondSteps -> Nat]
  BY DEF AdminInv, AdminTypeOK, SignInTypeOK, AdminType, CallType, SecondSteps
<1>v. /\ 0 \in 0..Papers /\ 0 \in 0..(LastStep + 1) /\ sessions \subseteq [version : Nat, two : BOOLEAN]
      /\ admin.version \in Nat /\ admin.secret \in 0..Papers /\ admin.pending \in 0..Papers
      /\ admin.lastStep \in 0..(LastStep + 1) /\ admin.sheet \in 0..Papers
  BY <1>c, <1>y DEF AdminType
<1>k. /\ \A d \in SignIns : /\ signIn[d].version \in Nat /\ signIn[d].secret \in 0..Papers
                            /\ signIn[d].step \in 0..(LastStep + 1) /\ signIn[d].sheet \in 0..Papers
      /\ \A session \in sessions : session.version \in Nat
  BY <1>y DEF CallType
<1>i. /\ VersionsTell /\ HeldIsCurrent /\ PassedIsPast
      /\ SessionsPassedTwoSteps /\ CodePassesOnce /\ SignInTypeOK
  BY DEF AdminInv
<1>e1. admin' = admin /\ clock' = clock /\ sessions' = sessions /\ made' = made /\ passed' = passed
  BY DEF ReadPending
<1>e2. \A d \in SignIns : signIn[d].at # "activate"
  BY DEF ReadPending, MayChangeFactor, ChangingFactor
<1>e3. /\ signIn' \in [SignIns -> CallType]
       /\ \A d \in SignIns : d # c => signIn'[d] = signIn[d]
       /\ signIn'[c].at = "activate" /\ signIn'[c].version = 0 /\ signIn'[c].secret = admin.pending /\ admin.pending # 0
  <2> DEFINE call == [NoSignIn EXCEPT !.at = "activate", !.secret = admin.pending, !.step = step]
  <2>1. call \in CallType /\ call.at = "activate" /\ call.version = 0 /\ call.secret = admin.pending
    BY <1>v, NoSignInIsACall DEF CallType
  <2>2. signIn' = [signIn EXCEPT ![c] = call] /\ admin.pending # 0
    BY DEF ReadPending
  <2> HIDE DEF call
  <2> QED
    BY <1>i, <2>1, <2>2, CallMoved
<1>1. AdminTypeOK'
  BY <1>c, <1>y, <1>v, <1>k, <1>i, <1>e1, <1>e2, <1>e3 DEF AdminTypeOK, AdminType
<1>2. SignInTypeOK'
  BY <1>c, <1>y, <1>v, <1>k, <1>i, <1>e1, <1>e2, <1>e3 DEF SignInTypeOK, CallType, SecondSteps
<1>3. VersionsTell'
  BY <1>c, <1>y, <1>v, <1>k, <1>i, <1>e1, <1>e2, <1>e3 DEF VersionsTell, Enrolled
<1>4. HeldIsCurrent'
  BY <1>c, <1>y, <1>v, <1>k, <1>i, <1>e1, <1>e2, <1>e3 DEF HeldIsCurrent
<1>5. PassedIsPast'
  BY <1>c, <1>y, <1>v, <1>k, <1>i, <1>e1, <1>e2, <1>e3 DEF PassedIsPast
<1>6. SessionsPassedTwoSteps'
  BY <1>c, <1>y, <1>v, <1>k, <1>i, <1>e1, <1>e2, <1>e3 DEF SessionsPassedTwoSteps, SessionResolves, MustEnrol, Enrolled, VersionsTell
<1>7. CodePassesOnce'
  BY <1>c, <1>y, <1>v, <1>k, <1>i, <1>e1, <1>e2, <1>e3 DEF CodePassesOnce
<1> QED
  BY <1>1, <1>2, <1>3, <1>4, <1>5, <1>6, <1>7 DEF AdminInv

\* The waiting secret is the live one, with a new sheet, and every session from before ends.
LEMMA FactorActivated ==
    ASSUME AdminInv, ~EnrolOverlap, NEW c \in SignIns, Activate(c)
    PROVE  AdminInv'
<1>c. Papers \in Nat /\ LastStep \in Nat \ {0} /\ Roles \subseteq {"OWNER", "STAFF"}
  BY AdminSignInAssumption
<1>y. /\ admin \in AdminType /\ clock \in 1..LastStep /\ made \in 0..Papers
      /\ sessions \subseteq [version : Nat, two : BOOLEAN]
      /\ signIn \in [SignIns -> CallType] /\ passed \in [SecondSteps -> Nat]
  BY DEF AdminInv, AdminTypeOK, SignInTypeOK, AdminType, CallType, SecondSteps
<1>v. /\ 0 \in 0..Papers /\ 0 \in 0..(LastStep + 1) /\ sessions \subseteq [version : Nat, two : BOOLEAN]
      /\ admin.version \in Nat /\ admin.secret \in 0..Papers /\ admin.pending \in 0..Papers
      /\ admin.lastStep \in 0..(LastStep + 1) /\ admin.sheet \in 0..Papers
  BY <1>c, <1>y DEF AdminType
<1>k. /\ \A d \in SignIns : /\ signIn[d].version \in Nat /\ signIn[d].secret \in 0..Papers
                            /\ signIn[d].step \in 0..(LastStep + 1) /\ signIn[d].sheet \in 0..Papers
      /\ \A session \in sessions : session.version \in Nat
  BY <1>y DEF CallType
<1>i. /\ VersionsTell /\ HeldIsCurrent /\ PassedIsPast
      /\ SessionsPassedTwoSteps /\ CodePassesOnce /\ SignInTypeOK
  BY DEF AdminInv
<1>e1. clock' = clock /\ made' = made + 1 /\ made < Papers
  BY DEF Activate
<1>e2. signIn[c].at = "activate" /\ signIn[c].secret = admin.pending /\ admin.pending # 0
  BY <1>i DEF Activate, HeldIsCurrent
<1>e3. /\ signIn' \in [SignIns -> CallType]
       /\ \A d \in SignIns : d # c => signIn'[d] = signIn[d]
       /\ signIn'[c].at = "idle" /\ signIn'[c].version = 0
  BY <1>i, CallEnds DEF Activate
<1>e4. \A d \in SignIns : signIn[d].at # "app"
  BY DEF Activate, NoCodeInHand
<1>e5. \A d \in SignIns : d # c => signIn[d].at # "activate"
  BY <1>i, <1>e2 DEF HeldIsCurrent
<1>e6. /\ admin' \in AdminType /\ admin'.role = admin.role /\ admin'.version = admin.version + 1
       /\ admin'.secret = admin.pending /\ admin'.pending = 0 /\ admin'.lastStep = signIn[c].step
       /\ admin'.sheet = made + 1 /\ admin'.unspent
  <2>1. /\ admin' = [admin EXCEPT !.version = admin.version + 1, !.secret = admin.pending, !.pending = 0,
                                  !.lastStep = signIn[c].step, !.sheet = made + 1, !.unspent = TRUE]
    BY <1>e2 DEF Activate, VersionAfter
  <2>2. made + 1 \in 0..Papers /\ 0 \in 0..Papers /\ admin.version + 1 \in Nat /\ signIn[c].step \in 0..(LastStep + 1)
    BY <1>c, <1>y, <1>v, <1>k, <1>e1
  <2> QED
    BY <1>y, <1>v, <2>1, <2>2 DEF AdminType
<1>e7. /\ passed' \in [SecondSteps -> Nat]
       /\ passed[<<"app", admin.pending, signIn[c].step>>] = 0 /\ passed'[<<"app", admin.pending, signIn[c].step>>] = 1
       /\ \A code \in SecondSteps : code # <<"app", admin.pending, signIn[c].step>> => passed'[code] = passed[code]
  <2>1. passed' = [passed EXCEPT ![<<"app", admin.pending, signIn[c].step>>] = @ + 1]
    BY <1>e2 DEF Activate
  <2>2. <<"app", admin.pending, signIn[c].step>> \in SecondSteps
    BY <1>v, <1>k, KeysAreCodes
  <2>3. passed[<<"app", admin.pending, signIn[c].step>>] = 0
    <3>1. /\ passed[<<"app", admin.pending, signIn[c].step>>] \in Nat
          /\ passed[<<"app", admin.pending, signIn[c].step>>] > 0 => admin.pending # admin.pending
      BY <1>v, <1>k, <1>e2, <1>i, WhatHasPassed
    <3> QED
      BY <3>1, <1>v, <1>k, <1>e2
  <2> QED
    BY <1>i, <2>1, <2>2, <2>3, CodePassed
<1>e8. /\ sessions' \subseteq [version : Nat, two : BOOLEAN]
       /\ \A session \in sessions' : session \in sessions \/ (session.version = admin.version + 1 /\ session.two)
  <2>1. [version |-> admin.version + 1, two |-> TRUE] \in [version : Nat, two : BOOLEAN]
    BY <1>v, <1>k
  <2>2. sessions' = sessions \cup {[version |-> admin.version + 1, two |-> TRUE]}
    BY <1>e2 DEF Activate, VersionAfter
  <2>3. LET new == [version |-> admin.version + 1, two |-> TRUE] IN new.version = admin.version + 1 /\ new.two
    OBVIOUS
  <2> QED
    BY <1>v, <2>1, <2>2, <2>3
<1>1. AdminTypeOK'
  BY <1>c, <1>y, <1>v, <1>k, <1>i, <1>e1, <1>e2, <1>e3, <1>e4, <1>e5, <1>e6, <1>e7, <1>e8 DEF AdminTypeOK, AdminType
<1>2. SignInTypeOK'
  BY <1>c, <1>y, <1>v, <1>k, <1>i, <1>e1, <1>e2, <1>e3, <1>e4, <1>e5, <1>e6, <1>e7, <1>e8 DEF SignInTypeOK, CallType, SecondSteps
<1>3. VersionsTell'
  BY <1>c, <1>y, <1>v, <1>k, <1>i, <1>e1, <1>e2, <1>e3, <1>e4, <1>e5, <1>e6, <1>e7, <1>e8 DEF VersionsTell, Enrolled
<1>4. HeldIsCurrent'
  BY <1>c, <1>y, <1>v, <1>k, <1>i, <1>e1, <1>e2, <1>e3, <1>e4, <1>e5, <1>e6, <1>e7, <1>e8 DEF HeldIsCurrent
<1>5. PassedIsPast'
  <2>1. /\ admin'.secret <= made' /\ admin'.pending <= made' /\ admin'.sheet <= made'
        /\ admin'.pending # 0 => admin'.pending # admin'.secret
    BY <1>c, <1>y, <1>v, <1>k, <1>i, <1>e1, <1>e2, <1>e3, <1>e4, <1>e5, <1>e6, <1>e7, <1>e8 DEF PassedIsPast
  <2>2. ASSUME NEW z \in 0..Papers, NEW l \in 0..(LastStep + 1), passed'[<<"app", z, l>>] > 0
        PROVE  /\ z # 0 /\ z <= made' /\ z # admin'.pending
               /\ z = admin'.secret => l <= admin'.lastStep
    <3>1. <<"app", z, l>> \in SecondSteps /\ <<"app", admin.pending, signIn[c].step>> \in SecondSteps
      BY KeysAreCodes, <1>c, <1>y, <1>v, <1>k, <1>i, <1>e1, <1>e2, <1>e3, <1>e4, <1>e5, <1>e6, <1>e7, <1>e8
    <3>2. CASE <<"app", z, l>> = <<"app", admin.pending, signIn[c].step>>
      BY <1>c, <1>y, <1>v, <1>k, <1>i, <1>e1, <1>e2, <1>e3, <1>e4, <1>e5, <1>e6, <1>e7, <1>e8, <3>2, KeysAreCodes DEF PassedIsPast, HeldIsCurrent
    <3>3. CASE <<"app", z, l>> # <<"app", admin.pending, signIn[c].step>>
      <4>1. passed'[<<"app", z, l>>] = passed[<<"app", z, l>>]
        BY <1>e1, <1>e2, <1>e3, <1>e4, <1>e5, <1>e6, <1>e7, <1>e8, <3>1, <3>3
      <4>2. z # 0 /\ z <= made /\ z # admin.pending /\ (z = admin.secret => l <= admin.lastStep)
        BY <1>i, <2>2, <4>1, WhatHasPassed
      <4> QED
        BY <1>c, <1>y, <1>v, <1>k, <1>i, <1>e1, <1>e2, <1>e3, <1>e4, <1>e5, <1>e6, <1>e7, <1>e8, <4>2
    <3> QED
      BY <3>2, <3>3
  <2>3. ASSUME NEW z \in 0..Papers, NEW l \in 0..(LastStep + 1), passed'[<<"paper", z, l>>] > 0
        PROVE  z <= made' /\ (z = admin'.sheet => ~ admin'.unspent)
    <3>1. <<"paper", z, l>> \in SecondSteps
      BY KeysAreCodes, <1>c, <1>y, <1>v, <1>k, <1>i
    <3>2. CASE <<"paper", z, l>> = <<"app", admin.pending, signIn[c].step>>
      BY <1>c, <1>y, <1>v, <1>k, <1>i, <1>e1, <1>e2, <1>e3, <1>e4, <1>e5, <1>e6, <1>e7, <1>e8, <3>2, KeysAreCodes DEF PassedIsPast, HeldIsCurrent
    <3>3. CASE <<"paper", z, l>> # <<"app", admin.pending, signIn[c].step>>
      <4>1. passed'[<<"paper", z, l>>] = passed[<<"paper", z, l>>]
        BY <1>e1, <1>e2, <1>e3, <1>e4, <1>e5, <1>e6, <1>e7, <1>e8, <3>1, <3>3
      <4>2. z <= made /\ (z = admin.sheet => ~ admin.unspent)
        BY <1>i, <2>3, <4>1, WhatHasPassed
      <4> QED
        BY <1>c, <1>y, <1>v, <1>k, <1>i, <1>e1, <1>e2, <1>e3, <1>e4, <1>e5, <1>e6, <1>e7, <1>e8, <4>2
    <3> QED
      BY <3>2, <3>3
  <2> QED
    BY <2>1, <2>2, <2>3 DEF PassedIsPast
<1>6. SessionsPassedTwoSteps'
  BY <1>c, <1>y, <1>v, <1>k, <1>i, <1>e1, <1>e2, <1>e3, <1>e4, <1>e5, <1>e6, <1>e7, <1>e8 DEF SessionsPassedTwoSteps, SessionResolves, MustEnrol, Enrolled, VersionsTell
<1>7. CodePassesOnce'
  <2> SUFFICES ASSUME NEW code \in SecondSteps PROVE passed'[code] <= 1
    BY <1>e1, <1>e2, <1>e3, <1>e4, <1>e5, <1>e6, <1>e7, <1>e8 DEF CodePassesOnce
  <2>1. passed[code] <= 1
    BY <1>y, <1>i DEF CodePassesOnce
  <2> QED
    BY <1>e1, <1>e2, <1>e3, <1>e4, <1>e5, <1>e6, <1>e7, <1>e8, <2>1
<1> QED
  BY <1>1, <1>2, <1>3, <1>4, <1>5, <1>6, <1>7 DEF AdminInv

\* A code is spent for a new sheet of recovery codes.
LEMMA SheetAsked ==
    ASSUME AdminInv, ~EnrolOverlap, NEW c \in SignIns, NEW step \in 1..(LastStep + 1), SpendForSheet(c, step)
    PROVE  AdminInv'
<1>c. Papers \in Nat /\ LastStep \in Nat \ {0} /\ Roles \subseteq {"OWNER", "STAFF"}
  BY AdminSignInAssumption
<1>y. /\ admin \in AdminType /\ clock \in 1..LastStep /\ made \in 0..Papers
      /\ sessions \subseteq [version : Nat, two : BOOLEAN]
      /\ signIn \in [SignIns -> CallType] /\ passed \in [SecondSteps -> Nat]
  BY DEF AdminInv, AdminTypeOK, SignInTypeOK, AdminType, CallType, SecondSteps
<1>v. /\ 0 \in 0..Papers /\ 0 \in 0..(LastStep + 1) /\ sessions \subseteq [version : Nat, two : BOOLEAN]
      /\ admin.version \in Nat /\ admin.secret \in 0..Papers /\ admin.pending \in 0..Papers
      /\ admin.lastStep \in 0..(LastStep + 1) /\ admin.sheet \in 0..Papers
  BY <1>c, <1>y DEF AdminType
<1>k. /\ \A d \in SignIns : /\ signIn[d].version \in Nat /\ signIn[d].secret \in 0..Papers
                            /\ signIn[d].step \in 0..(LastStep + 1) /\ signIn[d].sheet \in 0..Papers
      /\ \A session \in sessions : session.version \in Nat
  BY <1>y DEF CallType
<1>i. /\ VersionsTell /\ HeldIsCurrent /\ PassedIsPast
      /\ SessionsPassedTwoSteps /\ CodePassesOnce /\ SignInTypeOK
  BY DEF AdminInv
<1>e1. clock' = clock /\ sessions' = sessions /\ made' = made
  BY DEF SpendForSheet
<1>e2. admin.secret # 0 /\ admin.lastStep < step /\ step \in 0..(LastStep + 1)
  BY <1>v DEF SpendForSheet, StepsShown, Enrolled
<1>e3. /\ signIn' \in [SignIns -> CallType]
       /\ \A d \in SignIns : d # c => signIn'[d] = signIn[d]
       /\ signIn'[c].at = "regenerate" /\ signIn'[c].version = 0
  <2>1. LET call == [NoSignIn EXCEPT !.at = "regenerate"]
        IN  call \in CallType /\ call.at = "regenerate" /\ call.version = 0
    BY NoSignInIsACall DEF CallType
  <2> QED
    BY <1>i, <2>1, CallMoved DEF SpendForSheet
<1>e4. /\ admin' \in AdminType /\ admin'.lastStep = step
       /\ admin'.role = admin.role /\ admin'.version = admin.version /\ admin'.secret = admin.secret
       /\ admin'.pending = admin.pending /\ admin'.sheet = admin.sheet /\ admin'.unspent = admin.unspent
  BY <1>y, <1>e2 DEF SpendForSheet, AdminType
<1>e5. /\ passed' \in [SecondSteps -> Nat]
       /\ passed[<<"app", admin.secret, step>>] = 0 /\ passed'[<<"app", admin.secret, step>>] = 1
       /\ \A code \in SecondSteps : code # <<"app", admin.secret, step>> => passed'[code] = passed[code]
  <2>1. passed' = [passed EXCEPT ![<<"app", admin.secret, step>>] = @ + 1]
    BY DEF SpendForSheet
  <2>2. <<"app", admin.secret, step>> \in SecondSteps
    BY <1>v, <1>e2, KeysAreCodes
  <2>3. passed[<<"app", admin.secret, step>>] = 0
    <3>1. /\ passed[<<"app", admin.secret, step>>] \in Nat
          /\ passed[<<"app", admin.secret, step>>] > 0 => (admin.secret = admin.secret => step <= admin.lastStep)
      BY <1>v, <1>k, <1>e2, <1>i, WhatHasPassed
    <3> QED
      BY <3>1, <1>v, <1>k, <1>e2
  <2> QED
    BY <1>i, <2>1, <2>2, <2>3, CodePassed
<1>1. AdminTypeOK'
  BY <1>c, <1>y, <1>v, <1>k, <1>i, <1>e1, <1>e2, <1>e3, <1>e4, <1>e5 DEF AdminTypeOK, AdminType
<1>2. SignInTypeOK'
  BY <1>c, <1>y, <1>v, <1>k, <1>i, <1>e1, <1>e2, <1>e3, <1>e4, <1>e5 DEF SignInTypeOK, CallType, SecondSteps
<1>3. VersionsTell'
  BY <1>c, <1>y, <1>v, <1>k, <1>i, <1>e1, <1>e2, <1>e3, <1>e4, <1>e5 DEF VersionsTell, Enrolled
<1>4. HeldIsCurrent'
  BY <1>c, <1>y, <1>v, <1>k, <1>i, <1>e1, <1>e2, <1>e3, <1>e4, <1>e5 DEF HeldIsCurrent
<1>5. PassedIsPast'
  <2>1. /\ admin'.secret <= made' /\ admin'.pending <= made' /\ admin'.sheet <= made'
        /\ admin'.pending # 0 => admin'.pending # admin'.secret
    BY <1>c, <1>y, <1>v, <1>k, <1>i, <1>e1, <1>e2, <1>e3, <1>e4, <1>e5 DEF PassedIsPast
  <2>2. ASSUME NEW z \in 0..Papers, NEW l \in 0..(LastStep + 1), passed'[<<"app", z, l>>] > 0
        PROVE  /\ z # 0 /\ z <= made' /\ z # admin'.pending
               /\ z = admin'.secret => l <= admin'.lastStep
    <3>1. <<"app", z, l>> \in SecondSteps /\ <<"app", admin.secret, step>> \in SecondSteps
      BY KeysAreCodes, <1>c, <1>y, <1>v, <1>k, <1>i, <1>e1, <1>e2, <1>e3, <1>e4, <1>e5
    <3>2. CASE <<"app", z, l>> = <<"app", admin.secret, step>>
      BY <1>c, <1>y, <1>v, <1>k, <1>i, <1>e1, <1>e2, <1>e3, <1>e4, <1>e5, <3>2, KeysAreCodes DEF PassedIsPast, HeldIsCurrent
    <3>3. CASE <<"app", z, l>> # <<"app", admin.secret, step>>
      <4>1. passed'[<<"app", z, l>>] = passed[<<"app", z, l>>]
        BY <1>e1, <1>e2, <1>e3, <1>e4, <1>e5, <3>1, <3>3
      <4>2. z # 0 /\ z <= made /\ z # admin.pending /\ (z = admin.secret => l <= admin.lastStep)
        BY <1>i, <2>2, <4>1, WhatHasPassed
      <4> QED
        BY <1>c, <1>y, <1>v, <1>k, <1>i, <1>e1, <1>e2, <1>e3, <1>e4, <1>e5, <4>2
    <3> QED
      BY <3>2, <3>3
  <2>3. ASSUME NEW z \in 0..Papers, NEW l \in 0..(LastStep + 1), passed'[<<"paper", z, l>>] > 0
        PROVE  z <= made' /\ (z = admin'.sheet => ~ admin'.unspent)
    <3>1. <<"paper", z, l>> \in SecondSteps
      BY KeysAreCodes, <1>c, <1>y, <1>v, <1>k, <1>i
    <3>2. CASE <<"paper", z, l>> = <<"app", admin.secret, step>>
      BY <1>c, <1>y, <1>v, <1>k, <1>i, <1>e1, <1>e2, <1>e3, <1>e4, <1>e5, <3>2, KeysAreCodes DEF PassedIsPast, HeldIsCurrent
    <3>3. CASE <<"paper", z, l>> # <<"app", admin.secret, step>>
      <4>1. passed'[<<"paper", z, l>>] = passed[<<"paper", z, l>>]
        BY <1>e1, <1>e2, <1>e3, <1>e4, <1>e5, <3>1, <3>3
      <4>2. z <= made /\ (z = admin.sheet => ~ admin.unspent)
        BY <1>i, <2>3, <4>1, WhatHasPassed
      <4> QED
        BY <1>c, <1>y, <1>v, <1>k, <1>i, <1>e1, <1>e2, <1>e3, <1>e4, <1>e5, <4>2
    <3> QED
      BY <3>2, <3>3
  <2> QED
    BY <2>1, <2>2, <2>3 DEF PassedIsPast
<1>6. SessionsPassedTwoSteps'
  BY <1>c, <1>y, <1>v, <1>k, <1>i, <1>e1, <1>e2, <1>e3, <1>e4, <1>e5 DEF SessionsPassedTwoSteps, SessionResolves, MustEnrol, Enrolled, VersionsTell
<1>7. CodePassesOnce'
  <2> SUFFICES ASSUME NEW code \in SecondSteps PROVE passed'[code] <= 1
    BY <1>e1, <1>e2, <1>e3, <1>e4, <1>e5 DEF CodePassesOnce
  <2>1. passed[code] <= 1
    BY <1>y, <1>i DEF CodePassesOnce
  <2> QED
    BY <1>e1, <1>e2, <1>e3, <1>e4, <1>e5, <2>1
<1> QED
  BY <1>1, <1>2, <1>3, <1>4, <1>5, <1>6, <1>7 DEF AdminInv

\* A new sheet of recovery codes.
LEMMA SheetReplaced ==
    ASSUME AdminInv, ~EnrolOverlap, NEW c \in SignIns, Regenerate(c)
    PROVE  AdminInv'
<1>c. Papers \in Nat /\ LastStep \in Nat \ {0} /\ Roles \subseteq {"OWNER", "STAFF"}
  BY AdminSignInAssumption
<1>y. /\ admin \in AdminType /\ clock \in 1..LastStep /\ made \in 0..Papers
      /\ sessions \subseteq [version : Nat, two : BOOLEAN]
      /\ signIn \in [SignIns -> CallType] /\ passed \in [SecondSteps -> Nat]
  BY DEF AdminInv, AdminTypeOK, SignInTypeOK, AdminType, CallType, SecondSteps
<1>v. /\ 0 \in 0..Papers /\ 0 \in 0..(LastStep + 1) /\ sessions \subseteq [version : Nat, two : BOOLEAN]
      /\ admin.version \in Nat /\ admin.secret \in 0..Papers /\ admin.pending \in 0..Papers
      /\ admin.lastStep \in 0..(LastStep + 1) /\ admin.sheet \in 0..Papers
  BY <1>c, <1>y DEF AdminType
<1>k. /\ \A d \in SignIns : /\ signIn[d].version \in Nat /\ signIn[d].secret \in 0..Papers
                            /\ signIn[d].step \in 0..(LastStep + 1) /\ signIn[d].sheet \in 0..Papers
      /\ \A session \in sessions : session.version \in Nat
  BY <1>y DEF CallType
<1>i. /\ VersionsTell /\ HeldIsCurrent /\ PassedIsPast
      /\ SessionsPassedTwoSteps /\ CodePassesOnce /\ SignInTypeOK
  BY DEF AdminInv
<1>e1. clock' = clock /\ sessions' = sessions /\ passed' = passed /\ made' = made + 1 /\ made < Papers
  BY DEF Regenerate
<1>e2. /\ signIn' \in [SignIns -> CallType]
       /\ \A d \in SignIns : d # c => signIn'[d] = signIn[d]
       /\ signIn'[c].at = "idle" /\ signIn'[c].version = 0
  BY <1>i, CallEnds DEF Regenerate
<1>e3. /\ admin' \in AdminType /\ admin'.sheet = made + 1
       /\ admin'.role = admin.role /\ admin'.version = admin.version /\ admin'.secret = admin.secret
       /\ admin'.pending = admin.pending /\ admin'.lastStep = admin.lastStep
  <2>1. made + 1 \in 0..Papers
    BY <1>c, <1>y, <1>e1
  <2> QED
    BY <1>y, <2>1 DEF Regenerate, AdminType
<1>1. AdminTypeOK'
  BY <1>c, <1>y, <1>v, <1>k, <1>i, <1>e1, <1>e2, <1>e3 DEF AdminTypeOK, AdminType
<1>2. SignInTypeOK'
  BY <1>c, <1>y, <1>v, <1>k, <1>i, <1>e1, <1>e2, <1>e3 DEF SignInTypeOK, CallType, SecondSteps
<1>3. VersionsTell'
  BY <1>c, <1>y, <1>v, <1>k, <1>i, <1>e1, <1>e2, <1>e3 DEF VersionsTell, Enrolled
<1>4. HeldIsCurrent'
  BY <1>c, <1>y, <1>v, <1>k, <1>i, <1>e1, <1>e2, <1>e3 DEF HeldIsCurrent
<1>5. PassedIsPast'
  BY <1>c, <1>y, <1>v, <1>k, <1>i, <1>e1, <1>e2, <1>e3 DEF PassedIsPast
<1>6. SessionsPassedTwoSteps'
  BY <1>c, <1>y, <1>v, <1>k, <1>i, <1>e1, <1>e2, <1>e3 DEF SessionsPassedTwoSteps, SessionResolves, MustEnrol, Enrolled, VersionsTell
<1>7. CodePassesOnce'
  BY <1>c, <1>y, <1>v, <1>k, <1>i, <1>e1, <1>e2, <1>e3 DEF CodePassesOnce
<1> QED
  BY <1>1, <1>2, <1>3, <1>4, <1>5, <1>6, <1>7 DEF AdminInv

\* The second step is given up.
LEMMA FactorDisabled ==
    ASSUME AdminInv, ~EnrolOverlap, DisableTwoFactor
    PROVE  AdminInv'
<1>c. Papers \in Nat /\ LastStep \in Nat \ {0} /\ Roles \subseteq {"OWNER", "STAFF"}
  BY AdminSignInAssumption
<1>y. /\ admin \in AdminType /\ clock \in 1..LastStep /\ made \in 0..Papers
      /\ sessions \subseteq [version : Nat, two : BOOLEAN]
      /\ signIn \in [SignIns -> CallType] /\ passed \in [SecondSteps -> Nat]
  BY DEF AdminInv, AdminTypeOK, SignInTypeOK, AdminType, CallType, SecondSteps
<1>v. /\ 0 \in 0..Papers /\ 0 \in 0..(LastStep + 1) /\ sessions \subseteq [version : Nat, two : BOOLEAN]
      /\ admin.version \in Nat /\ admin.secret \in 0..Papers /\ admin.pending \in 0..Papers
      /\ admin.lastStep \in 0..(LastStep + 1) /\ admin.sheet \in 0..Papers
  BY <1>c, <1>y DEF AdminType
<1>k. /\ \A d \in SignIns : /\ signIn[d].version \in Nat /\ signIn[d].secret \in 0..Papers
                            /\ signIn[d].step \in 0..(LastStep + 1) /\ signIn[d].sheet \in 0..Papers
      /\ \A session \in sessions : session.version \in Nat
  BY <1>y DEF CallType
<1>i. /\ VersionsTell /\ HeldIsCurrent /\ PassedIsPast
      /\ SessionsPassedTwoSteps /\ CodePassesOnce /\ SignInTypeOK
  BY DEF AdminInv
<1>e1. clock' = clock /\ sessions' = sessions /\ signIn' = signIn /\ made' = made /\ passed' = passed
  BY DEF DisableTwoFactor
<1>e2. \A d \in SignIns : signIn[d].at # "activate"
  BY DEF DisableTwoFactor, MayChangeFactor, ChangingFactor
<1>e3. \A d \in SignIns : signIn[d].at # "app"
  BY DEF DisableTwoFactor, NoCodeInHand
<1>e4. /\ admin' \in AdminType /\ admin'.sheet = 0 /\ ~ admin'.unspent
       /\ admin'.role = admin.role /\ admin'.version = admin.version /\ admin'.secret = 0
       /\ admin'.pending = 0 /\ admin'.lastStep = 0
  <2>1. admin' = [admin EXCEPT !.secret = 0, !.pending = 0, !.lastStep = 0, !.sheet = 0, !.unspent = FALSE]
    BY DEF DisableTwoFactor
  <2> QED
    BY <1>y, <1>v, <2>1 DEF AdminType
<1>1. AdminTypeOK'
  BY <1>c, <1>y, <1>v, <1>k, <1>i, <1>e1, <1>e2, <1>e3, <1>e4 DEF AdminTypeOK, AdminType
<1>2. SignInTypeOK'
  BY <1>c, <1>y, <1>v, <1>k, <1>i, <1>e1, <1>e2, <1>e3, <1>e4 DEF SignInTypeOK, CallType, SecondSteps
<1>3. VersionsTell'
  BY <1>c, <1>y, <1>v, <1>k, <1>i, <1>e1, <1>e2, <1>e3, <1>e4 DEF VersionsTell, Enrolled
<1>4. HeldIsCurrent'
  BY <1>c, <1>y, <1>v, <1>k, <1>i, <1>e1, <1>e2, <1>e3, <1>e4 DEF HeldIsCurrent
<1>5. PassedIsPast'
  BY <1>c, <1>y, <1>v, <1>k, <1>i, <1>e1, <1>e2, <1>e3, <1>e4 DEF PassedIsPast
<1>6. SessionsPassedTwoSteps'
  BY <1>c, <1>y, <1>v, <1>k, <1>i, <1>e1, <1>e2, <1>e3, <1>e4 DEF SessionsPassedTwoSteps, SessionResolves, MustEnrol, Enrolled, VersionsTell
<1>7. CodePassesOnce'
  BY <1>c, <1>y, <1>v, <1>k, <1>i, <1>e1, <1>e2, <1>e3, <1>e4 DEF CodePassesOnce
<1> QED
  BY <1>1, <1>2, <1>3, <1>4, <1>5, <1>6, <1>7 DEF AdminInv

\* Every other device is signed out.
LEMMA PasswordChanged ==
    ASSUME AdminInv, ~EnrolOverlap, ChangePassword
    PROVE  AdminInv'
<1>c. Papers \in Nat /\ LastStep \in Nat \ {0} /\ Roles \subseteq {"OWNER", "STAFF"}
  BY AdminSignInAssumption
<1>y. /\ admin \in AdminType /\ clock \in 1..LastStep /\ made \in 0..Papers
      /\ sessions \subseteq [version : Nat, two : BOOLEAN]
      /\ signIn \in [SignIns -> CallType] /\ passed \in [SecondSteps -> Nat]
  BY DEF AdminInv, AdminTypeOK, SignInTypeOK, AdminType, CallType, SecondSteps
<1>v. /\ 0 \in 0..Papers /\ 0 \in 0..(LastStep + 1) /\ sessions \subseteq [version : Nat, two : BOOLEAN]
      /\ admin.version \in Nat /\ admin.secret \in 0..Papers /\ admin.pending \in 0..Papers
      /\ admin.lastStep \in 0..(LastStep + 1) /\ admin.sheet \in 0..Papers
  BY <1>c, <1>y DEF AdminType
<1>k. /\ \A d \in SignIns : /\ signIn[d].version \in Nat /\ signIn[d].secret \in 0..Papers
                            /\ signIn[d].step \in 0..(LastStep + 1) /\ signIn[d].sheet \in 0..Papers
      /\ \A session \in sessions : session.version \in Nat
  BY <1>y DEF CallType
<1>i. /\ VersionsTell /\ HeldIsCurrent /\ PassedIsPast
      /\ SessionsPassedTwoSteps /\ CodePassesOnce /\ SignInTypeOK
  BY DEF AdminInv
<1>e1. clock' = clock /\ signIn' = signIn /\ made' = made /\ passed' = passed
  BY DEF ChangePassword
<1>e2. /\ admin' \in AdminType /\ admin'.version = admin.version + 1
       /\ admin'.role = admin.role /\ admin'.secret = admin.secret /\ admin'.unspent = admin.unspent
       /\ admin'.pending = admin.pending /\ admin'.sheet = admin.sheet /\ admin'.lastStep = admin.lastStep
  BY <1>y, <1>v DEF ChangePassword, AdminType
<1>e3. /\ sessions' \subseteq [version : Nat, two : BOOLEAN]
       /\ \A session \in sessions' : \/ session \in sessions
                                     \/ session.version = admin.version + 1 /\ (Enrolled => session.two)
  <2>1. PICK old \in sessions : Signed(old) /\ sessions' = sessions \cup {[version |-> admin.version + 1, two |-> old.two]}
    BY DEF ChangePassword
  <2>2. Enrolled => old.two
    BY <1>i, <2>1 DEF Signed, SessionsPassedTwoSteps
  <2> QED
    BY <1>y, <1>v, <2>1, <2>2
<1>1. AdminTypeOK'
  BY <1>c, <1>y, <1>v, <1>k, <1>i, <1>e1, <1>e2, <1>e3 DEF AdminTypeOK, AdminType
<1>2. SignInTypeOK'
  BY <1>c, <1>y, <1>v, <1>k, <1>i, <1>e1, <1>e2, <1>e3 DEF SignInTypeOK, CallType, SecondSteps
<1>3. VersionsTell'
  BY <1>c, <1>y, <1>v, <1>k, <1>i, <1>e1, <1>e2, <1>e3 DEF VersionsTell, Enrolled
<1>4. HeldIsCurrent'
  BY <1>c, <1>y, <1>v, <1>k, <1>i, <1>e1, <1>e2, <1>e3 DEF HeldIsCurrent
<1>5. PassedIsPast'
  BY <1>c, <1>y, <1>v, <1>k, <1>i, <1>e1, <1>e2, <1>e3 DEF PassedIsPast
<1>6. SessionsPassedTwoSteps'
  BY <1>c, <1>y, <1>v, <1>k, <1>i, <1>e1, <1>e2, <1>e3 DEF SessionsPassedTwoSteps, SessionResolves, MustEnrol, Enrolled, VersionsTell
<1>7. CodePassesOnce'
  BY <1>c, <1>y, <1>v, <1>k, <1>i, <1>e1, <1>e2, <1>e3 DEF CodePassesOnce
<1> QED
  BY <1>1, <1>2, <1>3, <1>4, <1>5, <1>6, <1>7 DEF AdminInv

\* Thirty seconds pass.
LEMMA StepTicked ==
    ASSUME AdminInv, ~EnrolOverlap, ClockTicks
    PROVE  AdminInv'
<1>c. Papers \in Nat /\ LastStep \in Nat \ {0} /\ Roles \subseteq {"OWNER", "STAFF"}
  BY AdminSignInAssumption
<1>y. /\ admin \in AdminType /\ clock \in 1..LastStep /\ made \in 0..Papers
      /\ sessions \subseteq [version : Nat, two : BOOLEAN]
      /\ signIn \in [SignIns -> CallType] /\ passed \in [SecondSteps -> Nat]
  BY DEF AdminInv, AdminTypeOK, SignInTypeOK, AdminType, CallType, SecondSteps
<1>v. /\ 0 \in 0..Papers /\ 0 \in 0..(LastStep + 1) /\ sessions \subseteq [version : Nat, two : BOOLEAN]
      /\ admin.version \in Nat /\ admin.secret \in 0..Papers /\ admin.pending \in 0..Papers
      /\ admin.lastStep \in 0..(LastStep + 1) /\ admin.sheet \in 0..Papers
  BY <1>c, <1>y DEF AdminType
<1>k. /\ \A d \in SignIns : /\ signIn[d].version \in Nat /\ signIn[d].secret \in 0..Papers
                            /\ signIn[d].step \in 0..(LastStep + 1) /\ signIn[d].sheet \in 0..Papers
      /\ \A session \in sessions : session.version \in Nat
  BY <1>y DEF CallType
<1>i. /\ VersionsTell /\ HeldIsCurrent /\ PassedIsPast
      /\ SessionsPassedTwoSteps /\ CodePassesOnce /\ SignInTypeOK
  BY DEF AdminInv
<1>e1. admin' = admin /\ sessions' = sessions /\ signIn' = signIn /\ made' = made /\ passed' = passed
  BY DEF ClockTicks
<1>e2. clock' \in 1..LastStep
  BY <1>c, <1>y DEF ClockTicks
<1>1. AdminTypeOK'
  BY <1>c, <1>y, <1>v, <1>k, <1>i, <1>e1, <1>e2 DEF AdminTypeOK, AdminType
<1>2. SignInTypeOK'
  BY <1>c, <1>y, <1>v, <1>k, <1>i, <1>e1, <1>e2 DEF SignInTypeOK, CallType, SecondSteps
<1>3. VersionsTell'
  BY <1>c, <1>y, <1>v, <1>k, <1>i, <1>e1, <1>e2 DEF VersionsTell, Enrolled
<1>4. HeldIsCurrent'
  BY <1>c, <1>y, <1>v, <1>k, <1>i, <1>e1, <1>e2 DEF HeldIsCurrent
<1>5. PassedIsPast'
  BY <1>c, <1>y, <1>v, <1>k, <1>i, <1>e1, <1>e2 DEF PassedIsPast
<1>6. SessionsPassedTwoSteps'
  BY <1>c, <1>y, <1>v, <1>k, <1>i, <1>e1, <1>e2 DEF SessionsPassedTwoSteps, SessionResolves, MustEnrol, Enrolled, VersionsTell
<1>7. CodePassesOnce'
  BY <1>c, <1>y, <1>v, <1>k, <1>i, <1>e1, <1>e2 DEF CodePassesOnce
<1> QED
  BY <1>1, <1>2, <1>3, <1>4, <1>5, <1>6, <1>7 DEF AdminInv

LEMMA AdminStep ==
    ASSUME AdminInv, ~EnrolOverlap, AdminNext \/ UNCHANGED adminVars
    PROVE  AdminInv'
<1>1. CASE AdminNext
  <2>1. ASSUME NEW c \in SignIns, SpendAppCode(c)
        PROVE  AdminInv'
    <3>1. CASE StepIsNew(c)
      BY <2>1, <3>1, AppCodeSpent
    <3>2. CASE ~ StepIsNew(c)
      BY <2>1, <3>2, CallEnded
    <3> QED
      BY <3>1, <3>2
  <2>2. ASSUME NEW c \in SignIns, SpendPaperCode(c)
        PROVE  AdminInv'
    <3>1. CASE StillOnPaper(c)
      BY <2>2, <3>1, PaperCodeSpent
    <3>2. CASE ~ StillOnPaper(c)
      BY <2>2, <3>2, CallEnded
    <3> QED
      BY <3>1, <3>2
  <2>3. ASSUME NEW c \in SignIns,
               ReadPassword(c) \/ FinishPassword(c) \/ CheckPaperCode(c) \/ Activate(c)
        PROVE  AdminInv'
    BY <2>3, PasswordRead, PasswordFinished, PaperCodeChecked, FactorActivated
  <2>4. ASSUME NEW c \in SignIns, Regenerate(c) \/ SignInDies(c)
        PROVE  AdminInv'
    <3>1. CASE Regenerate(c)
      BY <3>1, SheetReplaced
    <3>2. CASE SignInDies(c)
      BY <3>2, CallEnded
    <3> QED
      BY <2>4, <3>1, <3>2
  <2>5. ASSUME NEW c \in SignIns, NEW step \in 1..(LastStep + 1),
               CheckAppCode(c, step) \/ SpendForSheet(c, step)
        PROVE  AdminInv'
    BY <2>5, AppCodeChecked, SheetAsked
  <2>7. ASSUME NEW c \in SignIns, NEW step \in 0..(LastStep + 1), ReadPending(c, step)
        PROVE  AdminInv'
    BY <2>7, PendingRead
  <2>6. CASE PendingSetup \/ DisableTwoFactor \/ ChangePassword \/ ClockTicks
    BY <2>6, SecretMade, FactorDisabled, PasswordChanged, StepTicked
  <2> QED
    BY <1>1, <2>1, <2>2, <2>3, <2>4, <2>5, <2>6, <2>7 DEF AdminNext
<1>2. CASE UNCHANGED adminVars
  BY <1>2 DEF adminVars, AdminInv, AdminTypeOK, SignInTypeOK, VersionsTell, HeldIsCurrent, PassedIsPast,
     SessionsPassedTwoSteps, SessionResolves, MustEnrol, Enrolled, CodePassesOnce
<1> QED
  BY <1>1, <1>2

LEMMA AdminBegins == AdminInit => AdminInv
<1> SUFFICES ASSUME AdminInit PROVE AdminInv
  OBVIOUS
<1>1. PICK role \in Roles : admin = FreshAdmin(role)
  BY DEF AdminInit
<1>2. /\ clock = 1 /\ sessions = {} /\ made = 0 /\ signIn = [c \in SignIns |-> NoSignIn]
      /\ passed = [code \in SecondSteps |-> 0]
  BY DEF AdminInit, SecondSteps
<1>3. /\ admin \in AdminType /\ admin.version = 0 /\ admin.secret = 0 /\ admin.pending = 0
      /\ admin.sheet = 0 /\ ~ admin.unspent
  BY <1>1, AdminSignInAssumption DEF FreshAdmin, AdminType
<1>4. AdminTypeOK
  BY <1>2, <1>3, AdminSignInAssumption DEF AdminTypeOK, AdminType
<1>5. SignInTypeOK
  BY <1>2, NoSignInIsACall DEF SignInTypeOK, CallType, SecondSteps
<1>6. \A code \in SecondSteps : passed[code] = 0
  BY <1>2
<1>7. CodePassesOnce
  BY <1>2, <1>6 DEF CodePassesOnce
<1>8. PassedIsPast
  BY <1>2, <1>3, <1>6, KeysAreCodes DEF PassedIsPast
<1> QED
  BY <1>2, <1>3, <1>4, <1>5, <1>7, <1>8, NoSignInIsACall
     DEF AdminInv, VersionsTell, HeldIsCurrent, SessionsPassedTwoSteps, Enrolled

-----------------------------------------------------------------------------
(* The components side by side.                                            *)

\* A step is of one component, and leaves what the others keep alone.
LEMMA OneAccountMoves ==
    ASSUME [Next]_vars
    PROVE  /\ ErasureNext \/ UNCHANGED erasureVars
           /\ CodesNext \/ UNCHANGED codeVars
           /\ AdminNext \/ UNCHANGED adminVars
BY DEF Next, Elsewhere, vars

\* An account that was erased owes nothing and is owed nothing, and the photos of
\* its conversations follow it, as long as what it owes does not change beside
\* its erasure.
THEOREM ErasureClean ==
    ASSUME ~ErasureOverlap
    PROVE  Spec => []ErasureIsClean
<1>1. Init => ErasureInv
  BY ErasureBegins DEF Init
<1>2. ErasureInv /\ [Next]_vars => ErasureInv'
  BY OneAccountMoves, ErasureStep
<1>3. ErasureInv => ErasureIsClean
  BY ErasureIsClear DEF ErasureIsClean
<1> QED
  BY <1>1, <1>2, <1>3, PTL DEF Spec

\* An account is erased for a request that stands, and a deletion that was
\* scheduled is done when the account is gone.
THEOREM ErasedWhenAsked ==
    ASSUME ~ErasureOverlap
    PROVE  Spec => ErasedOnRequest /\ DoneByErasing
<1>1. Init => ErasureInv
  BY ErasureBegins DEF Init
<1>2. ErasureInv /\ [Next]_vars => ErasureInv'
  BY OneAccountMoves, ErasureStep
<1>3. ErasureInv /\ [Next]_vars =>
        /\ [erased' # erased => \E r \in Requests : Standing(r)]_erasureVars
        /\ [\A r \in Requests : request[r].status = "SCHEDULED" /\ request'[r].status = "DONE" => erased']_erasureVars
  BY OneAccountMoves, ErasedForARequest
<1> QED
  BY <1>1, <1>2, <1>3, PTL DEF Spec, ErasedOnRequest, DoneByErasing

\* A code opens one thing, for one purpose, within its guesses and however its
\* callers overlap; and an admin's session passed both steps, each with a code
\* that passed once, as long as changes of the second step do not overlap.
THEOREM SignInEarned ==
    ASSUME ~EnrolOverlap
    PROVE  Spec => []SignInIsEarned
<1>1. Init => CodesInv /\ AdminInv
  BY CodesBegin, AdminBegins DEF Init
<1>2. CodesInv /\ AdminInv /\ [Next]_vars => CodesInv' /\ AdminInv'
  BY OneAccountMoves, CodesStep, AdminStep
<1>3. CodesInv /\ AdminInv => SignInIsEarned
  BY CodesKeepTheirWord DEF AdminInv, SignInIsEarned
<1> QED
  BY <1>1, <1>2, <1>3, PTL DEF Spec

=============================================================================
