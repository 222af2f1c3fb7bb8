------------------------ MODULE PaymentSessionProofs ------------------------
(* Theorems about PaymentSession, for every number of sessions, payments,  *)
(* requests and passes of the cron.                                        *)
EXTENDS PaymentSession, TLAPS

\* What the constructors of jobs return.
LEMMA JobTypes ==
    ASSUME TypeOK
    PROVE  /\ NoJob \in Job
           /\ \A s \in Sessions : WorkOn(s) \in Job
           /\ \A p \in Payments, said \in Reported :
                 ReportOf(p, said) \in Job /\ ReportOf(p, said).payment = p
           /\ \A st : VerifiedStatus(st) \in Reported
           /\ \A j \in Job : j.session \in Sessions /\ j.amount \in Nat
           /\ \A s : FoundPayments(s) \subseteq Payments
<1> USE ConstantsAssumption DEF TypeOK, GatewayTypes
<1>1. NoJob \in Job /\ \A s \in Sessions : WorkOn(s) \in Job
  BY DEF NoJob, WorkOn, Job, Reported
<1>2. \A p \in Payments, said \in Reported :
         ReportOf(p, said) \in Job /\ ReportOf(p, said).payment = p
  BY DEF ReportOf, Job
<1>3. \A st : VerifiedStatus(st) \in Reported
  BY DEF VerifiedStatus, Reported
<1>4. \A j \in Job : j.session \in Sessions /\ j.amount \in Nat
  BY DEF Job
<1>5. \A s : FoundPayments(s) \subseteq Payments
  BY DEF FoundPayments, PaymentsOf
<1> QED
  BY <1>1, <1>2, <1>3, <1>4, <1>5

\* A worker that moves, begins a job or is done keeps the types of workers.
LEMMA MoveTypes ==
    ASSUME WorkerTypes, NEW w \in Workers, NEW label \in Labels,
           label \in PaymentLabels => job[w].payment \in Payments,
           Goto(w, label)
    PROVE  WorkerTypes'
  BY DEF WorkerTypes, Goto

LEMMA BeginTypes ==
    ASSUME WorkerTypes, NEW w \in Workers, NEW label \in Labels, NEW j \in Job,
           label \in PaymentLabels => j.payment \in Payments,
           pc' = [pc EXCEPT ![w] = label], job' = [job EXCEPT ![w] = j]
    PROVE  WorkerTypes'
  BY DEF WorkerTypes

LEMMA DoneTypes ==
    ASSUME TypeOK, NEW w \in Workers, Done(w)
    PROVE  WorkerTypes'
<1>1. NoJob \in Job
  BY JobTypes
<1>2. "idle" \notin PaymentLabels
  BY DEF PaymentLabels
<1> QED
  BY <1>1, <1>2 DEF WorkerTypes, Done, TypeOK

\* Every step keeps the types, and a worker that has a payment keeps one.
LEMMA TypeInductive == TypeOK /\ [Next]_vars => TypeOK'
<1> SUFFICES ASSUME TypeOK, [Next]_vars
             PROVE  TypeOK'
  OBVIOUS
<1> USE ConstantsAssumption
<1>w. Requests \subseteq Workers /\ Passes \subseteq Workers
  BY DEF Workers
<1>l. /\ PaymentLabels \subseteq Labels
      /\ {"opening", "lookup", "lookupLate", "expire"} \subseteq Labels
      /\ {"opening", "lookup", "lookupLate", "expire"} \cap PaymentLabels = {}
      /\ {"read", "fail", "capture", "claim", "write", "refund", "markRefunded",
           "markPending", "reopen", "reply"} \subseteq PaymentLabels
  BY DEF PaymentLabels, Labels
<1>j. \A w \in Workers : job[w].session \in Sessions /\ job[w].amount \in Nat
  BY JobTypes DEF TypeOK, WorkerTypes
<1>p. \A w \in Workers : pc[w] \in PaymentLabels => job[w].payment \in Payments
  BY DEF TypeOK, WorkerTypes
<1>e. \A e \in events : e[1] \in Payments
  BY DEF TypeOK, GatewayTypes
<1>1. ASSUME NEW p \in Payments, NEW a \in PaidAmounts, Attempt(p, a)
     PROVE  TypeOK'
  <2>1. RowTypes'
    BY <1>1, <1>j DEF RowTypes, TypeOK, Attempt, rows
  <2>2. GatewayTypes'
    BY <1>1, <1>l, <1>j DEF GatewayTypes, TypeOK, Attempt, PayStates, WorkerTypes
  <2>3. WorkerTypes'
    BY <1>1 DEF Attempt, WorkerTypes, TypeOK
  <2>4. faults' \in Nat
    BY <1>1 DEF Attempt, TypeOK
  <2> QED
    BY <2>1, <2>2, <2>3, <2>4 DEF TypeOK
<1>2. ASSUME NEW p \in Payments, NEW o \in PayStates, Resolve(p, o)
     PROVE  TypeOK'
  <2>1. RowTypes'
    BY <1>2, <1>j DEF RowTypes, TypeOK, Resolve, rows
  <2>2. GatewayTypes'
    BY <1>2, <1>l, <1>j DEF GatewayTypes, TypeOK, Resolve, PayStates, WorkerTypes
  <2>3. WorkerTypes'
    BY <1>2 DEF Resolve, WorkerTypes, TypeOK
  <2>4. faults' \in Nat
    BY <1>2 DEF Resolve, TypeOK
  <2> QED
    BY <2>1, <2>2, <2>3, <2>4 DEF TypeOK
<1>3. ASSUME NEW s \in Sessions, Age(s)
     PROVE  TypeOK'
  <2>1. RowTypes'
    BY <1>3, <1>j DEF RowTypes, TypeOK, Age, Statuses, Open, Waiting
  <2>2. GatewayTypes'
    BY <1>3 DEF GatewayTypes, TypeOK, Age, gateway
  <2>3. WorkerTypes'
    BY <1>3 DEF Age, WorkerTypes, TypeOK
  <2>4. faults' \in Nat
    BY <1>3 DEF Age, TypeOK
  <2> QED
    BY <2>1, <2>2, <2>3, <2>4 DEF TypeOK
<1>4. ASSUME NEW s \in Sessions, ReportPaymentFailed(s)
     PROVE  TypeOK'
  <2>1. RowTypes'
    BY <1>4, <1>j DEF RowTypes, TypeOK, ReportPaymentFailed, Statuses, Open, Waiting
  <2>2. GatewayTypes'
    BY <1>4 DEF GatewayTypes, TypeOK, ReportPaymentFailed, gateway
  <2>3. WorkerTypes'
    BY <1>4 DEF ReportPaymentFailed, WorkerTypes, TypeOK
  <2>4. faults' \in Nat
    BY <1>4 DEF ReportPaymentFailed, TypeOK
  <2> QED
    BY <2>1, <2>2, <2>3, <2>4 DEF TypeOK
<1>5. ASSUME ReopenStuck
     PROVE  TypeOK'
  <2>1. RowTypes'
    BY <1>5, <1>j DEF RowTypes, TypeOK, ReopenStuck, Statuses, Open, Waiting
  <2>2. GatewayTypes'
    BY <1>5 DEF GatewayTypes, TypeOK, ReopenStuck, gateway
  <2>3. WorkerTypes'
    BY <1>5 DEF ReopenStuck, WorkerTypes, TypeOK
  <2>4. faults' \in Nat
    BY <1>5 DEF ReopenStuck, TypeOK
  <2> QED
    BY <2>1, <2>2, <2>3, <2>4 DEF TypeOK
<1>6. ASSUME NEW w \in Requests, NEW s \in Sessions, StartSession(w, s)
     PROVE  TypeOK'
  <2>1. RowTypes'
    BY <1>6, <1>j DEF RowTypes, TypeOK, StartSession, Statuses, Open, Waiting
  <2>2. GatewayTypes'
    BY <1>6 DEF GatewayTypes, TypeOK, StartSession, gateway
  <2>3. WorkerTypes'
    BY <1>6, <1>w, <1>l, JobTypes, BeginTypes DEF StartSession, Begin, TypeOK, GatewayTypes
  <2>4. faults' \in Nat
    BY <1>6 DEF StartSession, TypeOK
  <2> QED
    BY <2>1, <2>2, <2>3, <2>4 DEF TypeOK
<1>7. ASSUME NEW w \in Requests, NEW p \in Payments, ConfirmRazorpay(w, p)
     PROVE  TypeOK'
  <2>1. RowTypes'
    BY <1>7, <1>j DEF RowTypes, TypeOK, ConfirmRazorpay, rows
  <2>2. GatewayTypes'
    BY <1>7 DEF GatewayTypes, TypeOK, ConfirmRazorpay, gateway
  <2> DEFINE j == ReportOf(p, VerifiedStatus(pay[p]))
  <2>3. WorkerTypes'
    <3>1. j \in Job /\ j.payment \in Payments
      BY <1>e, JobTypes
    <3>2. pc' = [pc EXCEPT ![w] = "read"] /\ job' = [job EXCEPT ![w] = j]
      BY <1>7 DEF ConfirmRazorpay, Begin
    <3> HIDE DEF j
    <3> QED
      BY <3>1, <3>2, <1>w, <1>l, BeginTypes DEF TypeOK
  <2>4. faults' \in Nat
    BY <1>7 DEF ConfirmRazorpay, TypeOK
  <2> QED
    BY <2>1, <2>2, <2>3, <2>4 DEF TypeOK
<1>8. ASSUME NEW w \in Requests, NEW e \in events, RazorpayWebhook(w, e[1], e[2])
     PROVE  TypeOK'
  <2>1. RowTypes'
    BY <1>8, <1>j DEF RowTypes, TypeOK, RazorpayWebhook, rows
  <2>2. GatewayTypes'
    BY <1>8 DEF GatewayTypes, TypeOK, RazorpayWebhook, gateway
  <2> DEFINE j == ReportOf(e[1], VerifiedStatus(e[2]))
  <2>3. WorkerTypes'
    <3>1. j \in Job /\ j.payment \in Payments
      BY <1>e, JobTypes
    <3>2. PICK label \in {"fail", "read"} :
             pc' = [pc EXCEPT ![w] = label] /\ job' = [job EXCEPT ![w] = j]
      BY <1>8 DEF RazorpayWebhook, Begin
    <3> HIDE DEF j
    <3> QED
      BY <3>1, <3>2, <1>w, <1>l, BeginTypes DEF TypeOK
  <2>4. faults' \in Nat
    BY <1>8 DEF RazorpayWebhook, TypeOK
  <2> QED
    BY <2>1, <2>2, <2>3, <2>4 DEF TypeOK
<1>9. ASSUME NEW w \in Requests, NEW e \in events, PayuReturn(w, e[1], e[2])
     PROVE  TypeOK'
  <2>1. RowTypes'
    BY <1>9, <1>j DEF RowTypes, TypeOK, PayuReturn, rows
  <2>2. GatewayTypes'
    BY <1>9 DEF GatewayTypes, TypeOK, PayuReturn, gateway
  <2> DEFINE j == ReportOf(e[1], VerifiedStatus(pay[e[1]]))
  <2>3. WorkerTypes'
    <3>1. j \in Job /\ j.payment \in Payments
      BY <1>e, JobTypes
    <3>2. PICK label \in {"fail", "read"} :
             pc' = [pc EXCEPT ![w] = label] /\ job' = [job EXCEPT ![w] = j]
      BY <1>9 DEF PayuReturn, Begin
    <3> HIDE DEF j
    <3> QED
      BY <3>1, <3>2, <1>w, <1>l, BeginTypes DEF TypeOK
  <2>4. faults' \in Nat
    BY <1>9 DEF PayuReturn, TypeOK
  <2> QED
    BY <2>1, <2>2, <2>3, <2>4 DEF TypeOK
<1>10. ASSUME NEW w \in Passes, NEW s \in Sessions, LookAt(w, s)
     PROVE  TypeOK'
  <2>1. RowTypes'
    BY <1>10, <1>j DEF RowTypes, TypeOK, LookAt, rows
  <2>2. GatewayTypes'
    BY <1>10 DEF GatewayTypes, TypeOK, LookAt, gateway
  <2>3. WorkerTypes'
    BY <1>10, <1>w, <1>l, JobTypes, BeginTypes DEF LookAt, Begin, TypeOK, GatewayTypes
  <2>4. faults' \in Nat
    BY <1>10 DEF LookAt, TypeOK
  <2> QED
    BY <2>1, <2>2, <2>3, <2>4 DEF TypeOK
<1>11. ASSUME NEW w \in Passes, NEW s \in Sessions, RetryRefund(w, s)
     PROVE  TypeOK'
  <2>1. RowTypes'
    BY <1>11, <1>j DEF RowTypes, TypeOK, RetryRefund, rows
  <2>2. GatewayTypes'
    BY <1>11 DEF GatewayTypes, TypeOK, RetryRefund, gateway
  <2> DEFINE j == [session |-> s, payment |-> payId[s], said |-> "SUCCESS",
                   amount |-> Price, retry |-> TRUE]
  <2>3. WorkerTypes'
    <3>1. j \in Job /\ j.payment \in Payments
      BY <1>11 DEF RetryRefund, Job, Reported, TypeOK, RowTypes
    <3>2. pc' = [pc EXCEPT ![w] = "refund"] /\ job' = [job EXCEPT ![w] = j]
      BY <1>11 DEF RetryRefund, Begin
    <3> HIDE DEF j
    <3> QED
      BY <3>1, <3>2, <1>w, <1>l, BeginTypes DEF TypeOK
  <2>4. faults' \in Nat
    BY <1>11 DEF RetryRefund, TypeOK
  <2> QED
    BY <2>1, <2>2, <2>3, <2>4 DEF TypeOK
<1>12. ASSUME NEW w \in Workers, SessionOpened(w)
     PROVE  TypeOK'
  <2>1. RowTypes'
    BY <1>12, <1>j DEF RowTypes, TypeOK, SessionOpened, Statuses, Open, Waiting
  <2>2. GatewayTypes'
    BY <1>12 DEF GatewayTypes, TypeOK, SessionOpened, gateway
  <2>3. WorkerTypes'
    BY <1>12, DoneTypes DEF SessionOpened
  <2>4. faults' \in Nat
    BY <1>12 DEF SessionOpened, TypeOK
  <2> QED
    BY <2>1, <2>2, <2>3, <2>4 DEF TypeOK
<1>13. ASSUME NEW w \in Workers, LookUp(w)
     PROVE  TypeOK'
  <2>1. RowTypes'
    BY <1>13, <1>j DEF RowTypes, TypeOK, LookUp, rows
  <2>2. GatewayTypes'
    BY <1>13 DEF GatewayTypes, TypeOK, LookUp, gateway
  <2>3. WorkerTypes'
    <3>1. ASSUME NEW p \in FoundPayments(job[w].session),
                 pc' = [pc EXCEPT ![w] = "read"],
                 job' = [job EXCEPT ![w] = ReportOf(p, VerifiedStatus(pay[p]))]
          PROVE  WorkerTypes'
      <4>1. p \in Payments
        BY JobTypes
      <4> DEFINE j == ReportOf(p, VerifiedStatus(pay[p]))
      <4>2. j \in Job /\ j.payment \in Payments
        BY <4>1, JobTypes
      <4>3. job' = [job EXCEPT ![w] = j]
        BY <3>1
      <4> HIDE DEF j
      <4> QED
        BY <3>1, <4>2, <4>3, <1>l, BeginTypes DEF TypeOK
    <3>2. CASE Goto(w, "expire") \/ Done(w)
      BY <3>2, <1>l, MoveTypes, DoneTypes DEF TypeOK
    <3> QED
      BY <1>13, <3>1, <3>2 DEF LookUp
  <2>4. faults' \in Nat
    BY <1>13 DEF LookUp, TypeOK
  <2> QED
    BY <2>1, <2>2, <2>3, <2>4 DEF TypeOK
<1>14. ASSUME NEW w \in Workers, Expire(w)
     PROVE  TypeOK'
  <2>1. RowTypes'
    BY <1>14, <1>j DEF RowTypes, TypeOK, Expire, Statuses, Open, Waiting
  <2>2. GatewayTypes'
    BY <1>14 DEF GatewayTypes, TypeOK, Expire, gateway
  <2>3. WorkerTypes'
    BY <1>14, DoneTypes DEF Expire
  <2>4. faults' \in Nat
    BY <1>14 DEF Expire, TypeOK
  <2> QED
    BY <2>1, <2>2, <2>3, <2>4 DEF TypeOK
<1>15. ASSUME NEW w \in Workers, ReadSession(w)
     PROVE  TypeOK'
  <2>1. RowTypes'
    BY <1>15, <1>j DEF RowTypes, TypeOK, ReadSession, rows
  <2>2. GatewayTypes'
    BY <1>15 DEF GatewayTypes, TypeOK, ReadSession, gateway
  <2>3. WorkerTypes'
    BY <1>15, <1>l, MoveTypes, DoneTypes DEF ReadSession, TypeOK, WorkerTypes
  <2>4. faults' \in Nat
    BY <1>15 DEF ReadSession, TypeOK
  <2> QED
    BY <2>1, <2>2, <2>3, <2>4 DEF TypeOK
<1>16. ASSUME NEW w \in Workers, MarkSessionFailed(w)
     PROVE  TypeOK'
  <2>1. RowTypes'
    BY <1>16, <1>j DEF RowTypes, TypeOK, MarkSessionFailed, Statuses, Open, Waiting
  <2>2. GatewayTypes'
    BY <1>16 DEF GatewayTypes, TypeOK, MarkSessionFailed, gateway
  <2>3. WorkerTypes'
    BY <1>16, <1>l, MoveTypes DEF MarkSessionFailed, TypeOK, WorkerTypes
  <2>4. faults' \in Nat
    BY <1>16 DEF MarkSessionFailed, TypeOK
  <2> QED
    BY <2>1, <2>2, <2>3, <2>4 DEF TypeOK
<1>17. ASSUME NEW w \in Workers, Capture(w)
     PROVE  TypeOK'
  <2>1. RowTypes'
    BY <1>17, <1>j DEF RowTypes, TypeOK, Capture, rows
  <2>2. GatewayTypes'
    BY <1>17, <1>l, <1>j DEF GatewayTypes, TypeOK, Capture, PayStates, WorkerTypes
  <2>3. WorkerTypes'
    BY <1>17, <1>l, MoveTypes DEF Capture, TypeOK, WorkerTypes
  <2>4. faults' \in Nat
    BY <1>17 DEF Capture, TypeOK
  <2> QED
    BY <2>1, <2>2, <2>3, <2>4 DEF TypeOK
<1>18. ASSUME NEW w \in Workers, Claim(w)
     PROVE  TypeOK'
  <2>1. RowTypes'
    BY <1>18, <1>j, <1>p, <1>l DEF RowTypes, TypeOK, Claim, Statuses, Open, Waiting
  <2>2. GatewayTypes'
    BY <1>18 DEF GatewayTypes, TypeOK, Claim, gateway
  <2>3. WorkerTypes'
    BY <1>18, <1>l, MoveTypes DEF Claim, TypeOK, WorkerTypes
  <2>4. faults' \in Nat
    BY <1>18 DEF Claim, TypeOK
  <2> QED
    BY <2>1, <2>2, <2>3, <2>4 DEF TypeOK
<1>19. ASSUME NEW w \in Workers, WriteOrder(w)
     PROVE  TypeOK'
  <2>1. RowTypes'
    BY <1>19, <1>j, <1>p, <1>l DEF RowTypes, TypeOK, WriteOrder, Statuses, Open, Waiting, WriteCommits
  <2>2. GatewayTypes'
    BY <1>19 DEF GatewayTypes, TypeOK, WriteOrder, gateway
  <2>3. WorkerTypes'
    BY <1>19, <1>l, MoveTypes DEF WriteOrder, TypeOK, WorkerTypes
  <2>4. faults' \in Nat
    BY <1>19 DEF WriteOrder, TypeOK
  <2> QED
    BY <2>1, <2>2, <2>3, <2>4 DEF TypeOK
<1>20. ASSUME NEW w \in Workers, WriteRefused(w)
     PROVE  TypeOK'
  <2>1. RowTypes'
    BY <1>20, <1>j DEF RowTypes, TypeOK, WriteRefused, rows
  <2>2. GatewayTypes'
    BY <1>20 DEF GatewayTypes, TypeOK, WriteRefused, gateway
  <2>3. WorkerTypes'
    BY <1>20, <1>l, MoveTypes DEF WriteRefused, TypeOK, WorkerTypes
  <2>4. faults' \in Nat
    BY <1>20 DEF WriteRefused, TypeOK
  <2> QED
    BY <2>1, <2>2, <2>3, <2>4 DEF TypeOK
<1>21. ASSUME NEW w \in Workers, HandBack(w)
     PROVE  TypeOK'
  <2>1. RowTypes'
    BY <1>21, <1>j DEF RowTypes, TypeOK, HandBack, Statuses, Open, Waiting
  <2>2. GatewayTypes'
    BY <1>21 DEF GatewayTypes, TypeOK, HandBack, gateway
  <2>3. WorkerTypes'
    BY <1>21, DoneTypes DEF HandBack
  <2>4. faults' \in Nat
    BY <1>21 DEF HandBack, TypeOK
  <2> QED
    BY <2>1, <2>2, <2>3, <2>4 DEF TypeOK
<1>22. ASSUME NEW w \in Workers, Refund(w)
     PROVE  TypeOK'
  <2>1. RowTypes'
    BY <1>22, <1>j DEF RowTypes, TypeOK, Refund, rows
  <2>2. GatewayTypes'
    BY <1>22, <1>l, <1>j DEF GatewayTypes, TypeOK, Refund, PayStates, WorkerTypes
  <2>3. WorkerTypes'
    BY <1>22, <1>l, MoveTypes DEF Refund, TypeOK, WorkerTypes
  <2>4. faults' \in Nat
    BY <1>22 DEF Refund, TypeOK
  <2> QED
    BY <2>1, <2>2, <2>3, <2>4 DEF TypeOK
<1>23. ASSUME NEW w \in Workers, MarkRefund(w)
     PROVE  TypeOK'
  <2>1. RowTypes'
    BY <1>23, <1>j DEF RowTypes, TypeOK, MarkRefund, Statuses, Open, Waiting
  <2>2. GatewayTypes'
    BY <1>23 DEF GatewayTypes, TypeOK, MarkRefund, gateway
  <2>3. WorkerTypes'
    BY <1>23, <1>l, MoveTypes, DoneTypes DEF MarkRefund, TypeOK, WorkerTypes
  <2>4. faults' \in Nat
    BY <1>23 DEF MarkRefund, TypeOK
  <2> QED
    BY <2>1, <2>2, <2>3, <2>4 DEF TypeOK
<1>24. ASSUME NEW w \in Workers, Reply(w)
     PROVE  TypeOK'
  <2>1. RowTypes'
    BY <1>24, <1>j DEF RowTypes, TypeOK, Reply, rows
  <2>2. GatewayTypes'
    BY <1>24 DEF GatewayTypes, TypeOK, Reply, gateway
  <2>3. WorkerTypes'
    BY <1>24, DoneTypes DEF Reply
  <2>4. faults' \in Nat
    BY <1>24 DEF Reply, TypeOK
  <2> QED
    BY <2>1, <2>2, <2>3, <2>4 DEF TypeOK
<1>25. ASSUME NEW w \in Workers, OpeningFailed(w)
     PROVE  TypeOK'
  <2>1. RowTypes'
    BY <1>25, <1>j DEF RowTypes, TypeOK, OpeningFailed, Statuses, Open, Waiting
  <2>2. GatewayTypes'
    BY <1>25 DEF GatewayTypes, TypeOK, OpeningFailed, gateway
  <2>3. WorkerTypes'
    BY <1>25, DoneTypes DEF OpeningFailed
  <2>4. faults' \in Nat
    BY <1>25 DEF OpeningFailed, TypeOK, Fault
  <2> QED
    BY <2>1, <2>2, <2>3, <2>4 DEF TypeOK
<1>26. ASSUME NEW w \in Workers, LookUpFails(w)
     PROVE  TypeOK'
  <2>1. RowTypes'
    BY <1>26, <1>j DEF RowTypes, TypeOK, LookUpFails, rows
  <2>2. GatewayTypes'
    BY <1>26 DEF GatewayTypes, TypeOK, LookUpFails, gateway
  <2>3. WorkerTypes'
    BY <1>26, DoneTypes DEF LookUpFails
  <2>4. faults' \in Nat
    BY <1>26 DEF LookUpFails, TypeOK, Fault
  <2> QED
    BY <2>1, <2>2, <2>3, <2>4 DEF TypeOK
<1>27. ASSUME NEW w \in Workers, CaptureFails(w)
     PROVE  TypeOK'
  <2>1. RowTypes'
    BY <1>27, <1>j DEF RowTypes, TypeOK, CaptureFails, rows
  <2>2. GatewayTypes'
    BY <1>27, <1>l, <1>j DEF GatewayTypes, TypeOK, CaptureFails, PayStates, WorkerTypes
  <2>3. WorkerTypes'
    BY <1>27, DoneTypes DEF CaptureFails
  <2>4. faults' \in Nat
    BY <1>27 DEF CaptureFails, TypeOK, Fault
  <2> QED
    BY <2>1, <2>2, <2>3, <2>4 DEF TypeOK
<1>28. ASSUME NEW w \in Workers, WriteThrows(w)
     PROVE  TypeOK'
  <2>1. RowTypes'
    BY <1>28, <1>j, <1>p, <1>l DEF RowTypes, TypeOK, WriteThrows, Statuses, Open, Waiting, WriteCommits
  <2>2. GatewayTypes'
    BY <1>28 DEF GatewayTypes, TypeOK, WriteThrows, gateway
  <2>3. WorkerTypes'
    BY <1>28, <1>l, MoveTypes DEF WriteThrows, TypeOK, WorkerTypes
  <2>4. faults' \in Nat
    BY <1>28 DEF WriteThrows, TypeOK, Fault
  <2> QED
    BY <2>1, <2>2, <2>3, <2>4 DEF TypeOK
<1>29. ASSUME NEW w \in Workers, RefundFails(w)
     PROVE  TypeOK'
  <2>1. RowTypes'
    BY <1>29, <1>j DEF RowTypes, TypeOK, RefundFails, rows
  <2>2. GatewayTypes'
    BY <1>29, <1>l, <1>j DEF GatewayTypes, TypeOK, RefundFails, PayStates, WorkerTypes
  <2>3. WorkerTypes'
    BY <1>29, <1>l, MoveTypes DEF RefundFails, TypeOK, WorkerTypes
  <2>4. faults' \in Nat
    BY <1>29 DEF RefundFails, TypeOK, Fault
  <2> QED
    BY <2>1, <2>2, <2>3, <2>4 DEF TypeOK
<1>30. ASSUME NEW w \in Workers, Crash(w)
     PROVE  TypeOK'
  <2>1. RowTypes'
    BY <1>30, <1>j DEF RowTypes, TypeOK, Crash, rows
  <2>2. GatewayTypes'
    BY <1>30 DEF GatewayTypes, TypeOK, Crash, gateway
  <2>3. WorkerTypes'
    BY <1>30, DoneTypes DEF Crash
  <2>4. faults' \in Nat
    BY <1>30 DEF Crash, TypeOK, Fault
  <2> QED
    BY <2>1, <2>2, <2>3, <2>4 DEF TypeOK
<1>31. CASE UNCHANGED vars
  BY <1>31 DEF vars, rows, gateway, TypeOK, RowTypes, GatewayTypes, WorkerTypes
<1> QED
  BY <1>1, <1>2, <1>3, <1>4, <1>5, <1>6, <1>7, <1>8, <1>9, <1>10, <1>11, <1>12, <1>13, <1>14, <1>15, <1>16, <1>17, <1>18, <1>19, <1>20, <1>21, <1>22, <1>23, <1>24, <1>25, <1>26, <1>27, <1>28, <1>29, <1>30, <1>31
     DEF Next, Customer, Request, Pass, Step, Failure

-----------------------------------------------------------------------------
(* The inductive invariant, one part at a time.                            *)

\* The row of a session being opened stays its opener's alone.
LEMMA OpeningStep == TypeOK /\ OpeningInv /\ GatewayInv /\ ReportInv /\ [Next]_vars => OpeningInv'
<1> SUFFICES ASSUME TypeOK, OpeningInv, GatewayInv, ReportInv, [Next]_vars
             PROVE  OpeningInv'
  OBVIOUS
<1> USE ConstantsAssumption DEF OpeningInv, TypeOK, RowTypes, WorkerTypes
<1>n. NoJob \in Job /\ \A j \in Job : j.session \in Sessions
  BY JobTypes
<1>w. Requests \subseteq Workers /\ Passes \subseteq Workers
  BY DEF Workers
<1>l. {"read", "fail", "capture", "claim", "write", "refund", "markRefunded",
       "markPending", "reopen", "reply"} = PaymentLabels
  BY DEF PaymentLabels
<1>o. \A w \in Workers : pc[w] \in PaymentLabels => opened[job[w].session]
  BY DEF GatewayInv, ReportInv
<1>1. ASSUME NEW p \in Payments, NEW a \in PaidAmounts, Attempt(p, a)
     PROVE  OpeningInv'
  BY <1>1, <1>n, <1>w, <1>l, <1>o DEF Attempt, rows
<1>2. ASSUME NEW p \in Payments, NEW o \in PayStates, Resolve(p, o)
     PROVE  OpeningInv'
  BY <1>2, <1>n, <1>w, <1>l, <1>o DEF Resolve, rows
<1>3. ASSUME NEW s \in Sessions, Age(s)
     PROVE  OpeningInv'
  BY <1>3, <1>n, <1>w, <1>l, <1>o DEF Age, rows
<1>4. ASSUME NEW s \in Sessions, ReportPaymentFailed(s)
     PROVE  OpeningInv'
  BY <1>4, <1>n, <1>w, <1>l, <1>o DEF ReportPaymentFailed, rows
<1>5. ASSUME ReopenStuck
     PROVE  OpeningInv'
  BY <1>5, <1>n, <1>w, <1>l, <1>o DEF ReopenStuck, Stuck, rows
<1>6. ASSUME NEW w \in Requests, NEW s \in Sessions, StartSession(w, s)
     PROVE  OpeningInv'
  BY <1>6, <1>n, <1>w, <1>l, <1>o DEF StartSession, Begin, WorkOn, rows
<1>7. ASSUME NEW w \in Requests, NEW p \in Payments, ConfirmRazorpay(w, p)
     PROVE  OpeningInv'
  BY <1>7, <1>n, <1>w, <1>l, <1>o DEF ConfirmRazorpay, Begin, ReportOf, rows
<1>8. ASSUME NEW w \in Requests, NEW e \in events, RazorpayWebhook(w, e[1], e[2])
     PROVE  OpeningInv'
  BY <1>8, <1>n, <1>w, <1>l, <1>o DEF RazorpayWebhook, Begin, ReportOf, rows
<1>9. ASSUME NEW w \in Requests, NEW e \in events, PayuReturn(w, e[1], e[2])
     PROVE  OpeningInv'
  BY <1>9, <1>n, <1>w, <1>l, <1>o DEF PayuReturn, Begin, ReportOf, rows
<1>10. ASSUME NEW w \in Passes, NEW s \in Sessions, LookAt(w, s)
     PROVE  OpeningInv'
  BY <1>10, <1>n, <1>w, <1>l, <1>o DEF LookAt, Begin, WorkOn, rows
<1>11. ASSUME NEW w \in Passes, NEW s \in Sessions, RetryRefund(w, s)
     PROVE  OpeningInv'
  BY <1>11, <1>n, <1>w, <1>l, <1>o DEF RetryRefund, Begin, rows
<1>12. ASSUME NEW w \in Workers, SessionOpened(w)
     PROVE  OpeningInv'
  BY <1>12, <1>n, <1>w, <1>l, <1>o DEF SessionOpened, Done, rows
<1>13. ASSUME NEW w \in Workers, LookUp(w)
     PROVE  OpeningInv'
  BY <1>13, <1>n, <1>w, <1>l, <1>o DEF LookUp, Goto, Done, ReportOf, FoundPayments, PaymentsOf, rows
<1>14. ASSUME NEW w \in Workers, Expire(w)
     PROVE  OpeningInv'
  BY <1>14, <1>n, <1>w, <1>l, <1>o DEF Expire, Done, Waiting
<1>15. ASSUME NEW w \in Workers, ReadSession(w)
     PROVE  OpeningInv'
  BY <1>15, <1>n, <1>w, <1>l, <1>o DEF ReadSession, Goto, Done, rows
<1>16. ASSUME NEW w \in Workers, MarkSessionFailed(w)
     PROVE  OpeningInv'
  BY <1>16, <1>n, <1>w, <1>l, <1>o DEF MarkSessionFailed, Goto, rows
<1>17. ASSUME NEW w \in Workers, Capture(w)
     PROVE  OpeningInv'
  BY <1>17, <1>n, <1>w, <1>l, <1>o DEF Capture, Goto, rows
<1>18. ASSUME NEW w \in Workers, Claim(w)
     PROVE  OpeningInv'
  BY <1>18, <1>n, <1>w, <1>l, <1>o DEF Claim, Goto, rows
<1>19. ASSUME NEW w \in Workers, WriteOrder(w)
     PROVE  OpeningInv'
  BY <1>19, <1>n, <1>w, <1>l, <1>o DEF WriteOrder, WriteCommits, Goto, rows
<1>20. ASSUME NEW w \in Workers, WriteRefused(w)
     PROVE  OpeningInv'
  BY <1>20, <1>n, <1>w, <1>l, <1>o DEF WriteRefused, Goto, rows
<1>21. ASSUME NEW w \in Workers, HandBack(w)
     PROVE  OpeningInv'
  BY <1>21, <1>n, <1>w, <1>l, <1>o DEF HandBack, Done, rows
<1>22. ASSUME NEW w \in Workers, Refund(w)
     PROVE  OpeningInv'
  BY <1>22, <1>n, <1>w, <1>l, <1>o DEF Refund, Goto, Refundable, rows
<1>23. ASSUME NEW w \in Workers, MarkRefund(w)
     PROVE  OpeningInv'
  BY <1>23, <1>n, <1>w, <1>l, <1>o DEF MarkRefund, Goto, Done, rows
<1>24. ASSUME NEW w \in Workers, Reply(w)
     PROVE  OpeningInv'
  BY <1>24, <1>n, <1>w, <1>l, <1>o DEF Reply, Done, rows
<1>25. ASSUME NEW w \in Workers, OpeningFailed(w)
     PROVE  OpeningInv'
  BY <1>25, <1>n, <1>w, <1>l, <1>o DEF OpeningFailed, Done, Fault, rows
<1>26. ASSUME NEW w \in Workers, LookUpFails(w)
     PROVE  OpeningInv'
  BY <1>26, <1>n, <1>w, <1>l, <1>o DEF LookUpFails, Done, Fault, rows
<1>27. ASSUME NEW w \in Workers, CaptureFails(w)
     PROVE  OpeningInv'
  BY <1>27, <1>n, <1>w, <1>l, <1>o DEF CaptureFails, Done, Fault, rows
<1>28. ASSUME NEW w \in Workers, WriteThrows(w)
     PROVE  OpeningInv'
  BY <1>28, <1>n, <1>w, <1>l, <1>o DEF WriteThrows, WriteCommits, Goto, Fault, rows
<1>29. ASSUME NEW w \in Workers, RefundFails(w)
     PROVE  OpeningInv'
  BY <1>29, <1>n, <1>w, <1>l, <1>o DEF RefundFails, Goto, Fault, Refundable, rows
<1>30. ASSUME NEW w \in Workers, Crash(w)
     PROVE  OpeningInv'
  BY <1>30, <1>n, <1>w, <1>l, <1>o DEF Crash, Done, Fault, rows
<1>31. CASE UNCHANGED vars
  BY <1>31 DEF vars, rows, gateway
<1> QED
  BY <1>1, <1>2, <1>3, <1>4, <1>5, <1>6, <1>7, <1>8, <1>9, <1>10, <1>11, <1>12, <1>13, <1>14, <1>15, <1>16, <1>17, <1>18, <1>19, <1>20, <1>21, <1>22, <1>23, <1>24, <1>25, <1>26, <1>27, <1>28, <1>29, <1>30, <1>31
     DEF Next, Customer, Request, Pass, Step, Failure

\* What the gateway reports stays true of the gateway.
LEMMA GatewayStep == TypeOK /\ OpeningInv /\ GatewayInv /\ ReportInv /\ [Next]_vars => GatewayInv'
<1> SUFFICES ASSUME TypeOK, OpeningInv, GatewayInv, ReportInv, [Next]_vars
             PROVE  GatewayInv'
  OBVIOUS
<1> USE ConstantsAssumption DEF GatewayInv, TypeOK, RowTypes, GatewayTypes, WorkerTypes
<1>n. \A w \in Workers : job[w].session \in Sessions
  BY JobTypes
<1>l. {"read", "fail", "capture", "claim", "write", "refund", "markRefunded",
       "markPending", "reopen", "reply"} = PaymentLabels
  BY DEF PaymentLabels
<1>p. \A w \in Workers :
         /\ pc[w] \in PaymentLabels =>
              /\ job[w].payment \in Payments
              /\ SessionOf[job[w].payment] = job[w].session
              /\ pay[job[w].payment] # "none"
         /\ pc[w] = "capture" => pay[job[w].payment] \in {"authorized", "captured"}
         /\ pc[w] = "claim" => pay[job[w].payment] = "captured"
  BY <1>l DEF ReportInv
<1>1. ASSUME NEW p \in Payments, NEW a \in PaidAmounts, Attempt(p, a)
     PROVE  GatewayInv'
  BY <1>1, <1>n, <1>l, <1>p DEF Attempt, rows, gateway
<1>2. ASSUME NEW p \in Payments, NEW o \in PayStates, Resolve(p, o)
     PROVE  GatewayInv'
  BY <1>2, <1>n, <1>l, <1>p DEF Resolve, rows, gateway
<1>3. ASSUME NEW s \in Sessions, Age(s)
     PROVE  GatewayInv'
  BY <1>3, <1>n, <1>l, <1>p DEF Age, rows, gateway
<1>4. ASSUME NEW s \in Sessions, ReportPaymentFailed(s)
     PROVE  GatewayInv'
  BY <1>4, <1>n, <1>l, <1>p DEF ReportPaymentFailed, rows, gateway
<1>5. ASSUME ReopenStuck
     PROVE  GatewayInv'
  BY <1>5, <1>n, <1>l, <1>p DEF ReopenStuck, Stuck, rows, gateway
<1>6. ASSUME NEW w \in Requests, NEW s \in Sessions, StartSession(w, s)
     PROVE  GatewayInv'
  BY <1>6, <1>n, <1>l, <1>p DEF StartSession, Begin, WorkOn, rows, gateway
<1>7. ASSUME NEW w \in Requests, NEW p \in Payments, ConfirmRazorpay(w, p)
     PROVE  GatewayInv'
  BY <1>7, <1>n, <1>l, <1>p DEF ConfirmRazorpay, Begin, ReportOf, rows, gateway
<1>8. ASSUME NEW w \in Requests, NEW e \in events, RazorpayWebhook(w, e[1], e[2])
     PROVE  GatewayInv'
  BY <1>8, <1>n, <1>l, <1>p DEF RazorpayWebhook, Begin, ReportOf, rows, gateway
<1>9. ASSUME NEW w \in Requests, NEW e \in events, PayuReturn(w, e[1], e[2])
     PROVE  GatewayInv'
  BY <1>9, <1>n, <1>l, <1>p DEF PayuReturn, Begin, ReportOf, rows, gateway
<1>10. ASSUME NEW w \in Passes, NEW s \in Sessions, LookAt(w, s)
     PROVE  GatewayInv'
  BY <1>10, <1>n, <1>l, <1>p DEF LookAt, Begin, WorkOn, rows, gateway
<1>11. ASSUME NEW w \in Passes, NEW s \in Sessions, RetryRefund(w, s)
     PROVE  GatewayInv'
  BY <1>11, <1>n, <1>l, <1>p DEF RetryRefund, Begin, rows, gateway
<1>12. ASSUME NEW w \in Workers, SessionOpened(w)
     PROVE  GatewayInv'
  BY <1>12, <1>n, <1>l, <1>p DEF SessionOpened, Done, rows, gateway
<1>13. ASSUME NEW w \in Workers, LookUp(w)
     PROVE  GatewayInv'
  BY <1>13, <1>n, <1>l, <1>p DEF LookUp, Goto, Done, ReportOf, FoundPayments, PaymentsOf, rows, gateway
<1>14. ASSUME NEW w \in Workers, Expire(w)
     PROVE  GatewayInv'
  BY <1>14, <1>n, <1>l, <1>p DEF Expire, Done, rows, gateway
<1>15. ASSUME NEW w \in Workers, ReadSession(w)
     PROVE  GatewayInv'
  BY <1>15, <1>n, <1>l, <1>p DEF ReadSession, Goto, Done, rows, gateway
<1>16. ASSUME NEW w \in Workers, MarkSessionFailed(w)
     PROVE  GatewayInv'
  BY <1>16, <1>n, <1>l, <1>p DEF MarkSessionFailed, Goto, rows, gateway
<1>17. ASSUME NEW w \in Workers, Capture(w)
     PROVE  GatewayInv'
  BY <1>17, <1>n, <1>l, <1>p DEF Capture, Goto, rows, gateway
<1>18. ASSUME NEW w \in Workers, Claim(w)
     PROVE  GatewayInv'
  BY <1>18, <1>n, <1>l, <1>p DEF Claim, Goto, rows, gateway
<1>19. ASSUME NEW w \in Workers, WriteOrder(w)
     PROVE  GatewayInv'
  BY <1>19, <1>n, <1>l, <1>p DEF WriteOrder, WriteCommits, Goto, rows, gateway
<1>20. ASSUME NEW w \in Workers, WriteRefused(w)
     PROVE  GatewayInv'
  BY <1>20, <1>n, <1>l, <1>p DEF WriteRefused, Goto, rows, gateway
<1>21. ASSUME NEW w \in Workers, HandBack(w)
     PROVE  GatewayInv'
  BY <1>21, <1>n, <1>l, <1>p DEF HandBack, Done, rows, gateway
<1>22. ASSUME NEW w \in Workers, Refund(w)
     PROVE  GatewayInv'
  BY <1>22, <1>n, <1>l, <1>p DEF Refund, Goto, Refundable, rows, gateway
<1>23. ASSUME NEW w \in Workers, MarkRefund(w)
     PROVE  GatewayInv'
  BY <1>23, <1>n, <1>l, <1>p DEF MarkRefund, Goto, Done, rows, gateway
<1>24. ASSUME NEW w \in Workers, Reply(w)
     PROVE  GatewayInv'
  BY <1>24, <1>n, <1>l, <1>p DEF Reply, Done, rows, gateway
<1>25. ASSUME NEW w \in Workers, OpeningFailed(w)
     PROVE  GatewayInv'
  BY <1>25, <1>n, <1>l, <1>p DEF OpeningFailed, Done, Fault, rows, gateway
<1>26. ASSUME NEW w \in Workers, LookUpFails(w)
     PROVE  GatewayInv'
  BY <1>26, <1>n, <1>l, <1>p DEF LookUpFails, Done, Fault, rows, gateway
<1>27. ASSUME NEW w \in Workers, CaptureFails(w)
     PROVE  GatewayInv'
  BY <1>27, <1>n, <1>l, <1>p DEF CaptureFails, Done, Fault, rows, gateway
<1>28. ASSUME NEW w \in Workers, WriteThrows(w)
     PROVE  GatewayInv'
  BY <1>28, <1>n, <1>l, <1>p DEF WriteThrows, WriteCommits, Goto, Fault, rows, gateway
<1>29. ASSUME NEW w \in Workers, RefundFails(w)
     PROVE  GatewayInv'
  BY <1>29, <1>n, <1>l, <1>p DEF RefundFails, Goto, Fault, Refundable, rows, gateway
<1>30. ASSUME NEW w \in Workers, Crash(w)
     PROVE  GatewayInv'
  BY <1>30, <1>n, <1>l, <1>p DEF Crash, Done, Fault, rows, gateway
<1>31. CASE UNCHANGED vars
  BY <1>31 DEF vars, rows, gateway
<1> QED
  BY <1>1, <1>2, <1>3, <1>4, <1>5, <1>6, <1>7, <1>8, <1>9, <1>10, <1>11, <1>12, <1>13, <1>14, <1>15, <1>16, <1>17, <1>18, <1>19, <1>20, <1>21, <1>22, <1>23, <1>24, <1>25, <1>26, <1>27, <1>28, <1>29, <1>30, <1>31
     DEF Next, Customer, Request, Pass, Step, Failure

\* What a worker was told stays true of the payment it was told of.
LEMMA ReportStep == TypeOK /\ OpeningInv /\ GatewayInv /\ ReportInv /\ [Next]_vars => ReportInv'
<1> SUFFICES ASSUME TypeOK, OpeningInv, GatewayInv, ReportInv, [Next]_vars
             PROVE  ReportInv'
  OBVIOUS
<1> USE ConstantsAssumption DEF ReportInv, TypeOK, RowTypes, GatewayTypes, WorkerTypes
<1>n. \A w \in Workers : job[w].session \in Sessions
  BY JobTypes
<1>w. Requests \subseteq Workers /\ Passes \subseteq Workers
  BY DEF Workers
<1>l. {"read", "fail", "capture", "claim", "write", "refund", "markRefunded",
       "markPending", "reopen", "reply"} = PaymentLabels
  BY DEF PaymentLabels
<1>1. ASSUME NEW p \in Payments, NEW a \in PaidAmounts, Attempt(p, a)
     PROVE  ReportInv'
  BY <1>1, <1>n, <1>w, <1>l DEF Attempt, rows, gateway, Claimed
<1>2. ASSUME NEW p \in Payments, NEW o \in PayStates, Resolve(p, o)
     PROVE  ReportInv'
  BY <1>2, <1>n, <1>w, <1>l DEF Resolve, rows, gateway, Claimed
<1>3. ASSUME NEW s \in Sessions, Age(s)
     PROVE  ReportInv'
  BY <1>3, <1>n, <1>w, <1>l DEF Age, rows, gateway, Claimed
<1>4. ASSUME NEW s \in Sessions, ReportPaymentFailed(s)
     PROVE  ReportInv'
  BY <1>4, <1>n, <1>w, <1>l DEF ReportPaymentFailed, rows, gateway, Claimed
<1>5. ASSUME ReopenStuck
     PROVE  ReportInv'
  BY <1>5, <1>n, <1>w, <1>l DEF ReopenStuck, Stuck, rows, gateway, Claimed
<1>6. ASSUME NEW w \in Requests, NEW s \in Sessions, StartSession(w, s)
     PROVE  ReportInv'
  BY <1>6, <1>n, <1>w, <1>l DEF StartSession, Begin, WorkOn, rows, gateway, Claimed
<1>7. ASSUME NEW w \in Requests, NEW p \in Payments, ConfirmRazorpay(w, p)
     PROVE  ReportInv'
  BY <1>7, <1>n, <1>w, <1>l DEF ConfirmRazorpay, Begin, ReportOf, rows, gateway, Claimed, GatewayInv, VerifiedStatus
<1>8. ASSUME NEW w \in Requests, NEW e \in events, RazorpayWebhook(w, e[1], e[2])
     PROVE  ReportInv'
  BY <1>8, <1>n, <1>w, <1>l DEF RazorpayWebhook, Begin, ReportOf, rows, gateway, Claimed, GatewayInv, VerifiedStatus
<1>9. ASSUME NEW w \in Requests, NEW e \in events, PayuReturn(w, e[1], e[2])
     PROVE  ReportInv'
  BY <1>9, <1>n, <1>w, <1>l DEF PayuReturn, Begin, ReportOf, rows, gateway, Claimed, GatewayInv, VerifiedStatus
<1>10. ASSUME NEW w \in Passes, NEW s \in Sessions, LookAt(w, s)
     PROVE  ReportInv'
  BY <1>10, <1>n, <1>w, <1>l DEF LookAt, Begin, WorkOn, rows, gateway, Claimed
<1>11. ASSUME NEW w \in Passes, NEW s \in Sessions, RetryRefund(w, s)
     PROVE  ReportInv'
  BY <1>11, <1>n, <1>w, <1>l DEF RetryRefund, Begin, rows, gateway, Claimed, GatewayInv, VerifiedStatus
<1>12. ASSUME NEW w \in Workers, SessionOpened(w)
     PROVE  ReportInv'
  BY <1>12, <1>n, <1>w, <1>l DEF SessionOpened, Done, rows, gateway, Claimed
<1>13. ASSUME NEW w \in Workers, LookUp(w)
     PROVE  ReportInv'
  BY <1>13, <1>n, <1>w, <1>l DEF LookUp, Goto, Done, ReportOf, FoundPayments, PaymentsOf, rows, gateway, Claimed, GatewayInv, VerifiedStatus
<1>14. ASSUME NEW w \in Workers, Expire(w)
     PROVE  ReportInv'
  BY <1>14, <1>n, <1>w, <1>l DEF Expire, Done, rows, gateway, Claimed
<1>15. ASSUME NEW w \in Workers, ReadSession(w)
     PROVE  ReportInv'
  BY <1>15, <1>n, <1>w, <1>l DEF ReadSession, Goto, Done, rows, gateway, Claimed
<1>16. ASSUME NEW w \in Workers, MarkSessionFailed(w)
     PROVE  ReportInv'
  BY <1>16, <1>n, <1>w, <1>l DEF MarkSessionFailed, Goto, rows, gateway, Claimed
<1>17. ASSUME NEW w \in Workers, Capture(w)
     PROVE  ReportInv'
  BY <1>17, <1>n, <1>w, <1>l DEF Capture, Goto, rows, gateway, Claimed
<1>18. ASSUME NEW w \in Workers, Claim(w)
     PROVE  ReportInv'
  BY <1>18, <1>n, <1>w, <1>l DEF Claim, Goto, rows, gateway, Claimed
<1>19. ASSUME NEW w \in Workers, WriteOrder(w)
     PROVE  ReportInv'
  BY <1>19, <1>n, <1>w, <1>l DEF WriteOrder, WriteCommits, Goto, rows, gateway, Claimed
<1>20. ASSUME NEW w \in Workers, WriteRefused(w)
     PROVE  ReportInv'
  BY <1>20, <1>n, <1>w, <1>l DEF WriteRefused, Goto, rows, gateway, Claimed
<1>21. ASSUME NEW w \in Workers, HandBack(w)
     PROVE  ReportInv'
  BY <1>21, <1>n, <1>w, <1>l DEF HandBack, Done, rows, gateway, Claimed
<1>22. ASSUME NEW w \in Workers, Refund(w)
     PROVE  ReportInv'
  BY <1>22, <1>n, <1>w, <1>l DEF Refund, Goto, Refundable, rows, gateway, Claimed
<1>23. ASSUME NEW w \in Workers, MarkRefund(w)
     PROVE  ReportInv'
  BY <1>23, <1>n, <1>w, <1>l DEF MarkRefund, Goto, Done, rows, gateway, Claimed
<1>24. ASSUME NEW w \in Workers, Reply(w)
     PROVE  ReportInv'
  BY <1>24, <1>n, <1>w, <1>l DEF Reply, Done, rows, gateway, Claimed
<1>25. ASSUME NEW w \in Workers, OpeningFailed(w)
     PROVE  ReportInv'
  BY <1>25, <1>n, <1>w, <1>l DEF OpeningFailed, Done, Fault, rows, gateway, Claimed
<1>26. ASSUME NEW w \in Workers, LookUpFails(w)
     PROVE  ReportInv'
  BY <1>26, <1>n, <1>w, <1>l DEF LookUpFails, Done, Fault, rows, gateway, Claimed
<1>27. ASSUME NEW w \in Workers, CaptureFails(w)
     PROVE  ReportInv'
  BY <1>27, <1>n, <1>w, <1>l DEF CaptureFails, Done, Fault, rows, gateway, Claimed
<1>28. ASSUME NEW w \in Workers, WriteThrows(w)
     PROVE  ReportInv'
  BY <1>28, <1>n, <1>w, <1>l DEF WriteThrows, WriteCommits, Goto, Fault, rows, gateway, Claimed
<1>29. ASSUME NEW w \in Workers, RefundFails(w)
     PROVE  ReportInv'
  BY <1>29, <1>n, <1>w, <1>l DEF RefundFails, Goto, Fault, Refundable, rows, gateway, Claimed
<1>30. ASSUME NEW w \in Workers, Crash(w)
     PROVE  ReportInv'
  BY <1>30, <1>n, <1>w, <1>l DEF Crash, Done, Fault, rows, gateway, Claimed
<1>31. CASE UNCHANGED vars
  BY <1>31 DEF vars, rows, gateway, Claimed
<1> QED
  BY <1>1, <1>2, <1>3, <1>4, <1>5, <1>6, <1>7, <1>8, <1>9, <1>10, <1>11, <1>12, <1>13, <1>14, <1>15, <1>16, <1>17, <1>18, <1>19, <1>20, <1>21, <1>22, <1>23, <1>24, <1>25, <1>26, <1>27, <1>28, <1>29, <1>30, <1>31
     DEF Next, Customer, Request, Pass, Step, Failure

\* Claims stay exclusive, and nothing but their holder settles the row.
LEMMA ClaimStep == ASSUME ~AckLoss
    PROVE  /\ TypeOK /\ OpeningInv /\ GatewayInv /\ ReportInv /\ ClaimInv /\ [Next]_vars
           => ClaimInv'
<1> SUFFICES ASSUME TypeOK, OpeningInv, GatewayInv, ReportInv, ClaimInv, [Next]_vars
             PROVE  ClaimInv'
  OBVIOUS
<1> USE ConstantsAssumption
    DEF ClaimInv, ClaimIsExclusive, ClaimShows, RetryIsOwed,
        WriteIsExact, PlacedShows, HoldsClaim, Claimed, Marking, BackStatuses,
        TypeOK, RowTypes, WorkerTypes
<1>n. NoJob \in Job /\ ~NoJob.retry /\ \A w \in Workers : job[w].session \in Sessions
  BY JobTypes DEF NoJob, WorkOn
<1>w. Requests \subseteq Workers /\ Passes \subseteq Workers
  BY DEF Workers
<1>o. \A w \in Workers : pc[w] = "opening" =>
         status[job[w].session] = "CREATED" /\ ~opened[job[w].session]
  BY DEF OpeningInv
<1>1. ASSUME NEW p \in Payments, NEW a \in PaidAmounts, Attempt(p, a)
     PROVE  ClaimInv'
  BY <1>1, <1>n, <1>w, <1>o DEF Attempt, rows, Open
<1>2. ASSUME NEW p \in Payments, NEW o \in PayStates, Resolve(p, o)
     PROVE  ClaimInv'
  BY <1>2, <1>n, <1>w, <1>o DEF Resolve, rows, Open
<1>3. ASSUME NEW s \in Sessions, Age(s)
     PROVE  ClaimInv'
  BY <1>3, <1>n, <1>w, <1>o DEF Age, rows, Open
<1>4. ASSUME NEW s \in Sessions, ReportPaymentFailed(s)
     PROVE  ClaimInv'
  BY <1>4, <1>n, <1>w, <1>o DEF ReportPaymentFailed, rows, Open
<1>5. ASSUME ReopenStuck
     PROVE  ClaimInv'
  BY <1>5, <1>n, <1>w, <1>o DEF ReopenStuck, Stuck, rows, Open
<1>6. ASSUME NEW w \in Requests, NEW s \in Sessions, StartSession(w, s)
     PROVE  ClaimInv'
  BY <1>6, <1>n, <1>w, <1>o DEF StartSession, Begin, WorkOn, rows, Open
<1>7. ASSUME NEW w \in Requests, NEW p \in Payments, ConfirmRazorpay(w, p)
     PROVE  ClaimInv'
  BY <1>7, <1>n, <1>w, <1>o DEF ConfirmRazorpay, Begin, ReportOf, rows, Open
<1>8. ASSUME NEW w \in Requests, NEW e \in events, RazorpayWebhook(w, e[1], e[2])
     PROVE  ClaimInv'
  BY <1>8, <1>n, <1>w, <1>o DEF RazorpayWebhook, Begin, ReportOf, rows, Open
<1>9. ASSUME NEW w \in Requests, NEW e \in events, PayuReturn(w, e[1], e[2])
     PROVE  ClaimInv'
  BY <1>9, <1>n, <1>w, <1>o DEF PayuReturn, Begin, ReportOf, rows, Open
<1>10. ASSUME NEW w \in Passes, NEW s \in Sessions, LookAt(w, s)
     PROVE  ClaimInv'
  BY <1>10, <1>n, <1>w, <1>o DEF LookAt, Begin, WorkOn, rows, Open
<1>11. ASSUME NEW w \in Passes, NEW s \in Sessions, RetryRefund(w, s)
     PROVE  ClaimInv'
  BY <1>11, <1>n, <1>w, <1>o DEF RetryRefund, Begin, rows, Open
<1>12. ASSUME NEW w \in Workers, SessionOpened(w)
     PROVE  ClaimInv'
  BY <1>12, <1>n, <1>w, <1>o DEF SessionOpened, Done, rows, Open
<1>13. ASSUME NEW w \in Workers, LookUp(w)
     PROVE  ClaimInv'
  <2>1. ClaimIsExclusive'
    BY <1>13, <1>n, <1>w DEF LookUp, Goto, Done, ReportOf, FoundPayments, PaymentsOf, rows, Open
  <2>2. ClaimShows'
    BY <1>13, <1>n, <1>w DEF LookUp, Goto, Done, ReportOf, FoundPayments, PaymentsOf, rows, Open
  <2>3. RetryIsOwed'
    BY <1>13, <1>n, <1>w DEF LookUp, Goto, Done, ReportOf, FoundPayments, PaymentsOf, rows, Open
  <2>4. WriteIsExact'
    BY <1>13, <1>n, <1>w DEF LookUp, Goto, Done, ReportOf, FoundPayments, PaymentsOf, rows, Open
  <2>5. PlacedShows'
    BY <1>13, <1>n, <1>w DEF LookUp, Goto, Done, ReportOf, FoundPayments, PaymentsOf, rows, Open
  <2> QED
    BY <2>1, <2>2, <2>3, <2>4, <2>5
<1>14. ASSUME NEW w \in Workers, Expire(w)
     PROVE  ClaimInv'
  BY <1>14, <1>n, <1>w, <1>o DEF Expire, Done, rows, Open, Waiting
<1>15. ASSUME NEW w \in Workers, ReadSession(w)
     PROVE  ClaimInv'
  <2>1. ClaimIsExclusive'
    BY <1>15, <1>n, <1>w DEF ReadSession, Goto, Done, rows, Open
  <2>2. ClaimShows'
    BY <1>15, <1>n, <1>w DEF ReadSession, Goto, Done, rows, Open
  <2>3. RetryIsOwed'
    BY <1>15, <1>n, <1>w DEF ReadSession, Goto, Done, rows, Open
  <2>4. WriteIsExact'
    BY <1>15, <1>n, <1>w DEF ReadSession, Goto, Done, rows, Open
  <2>5. PlacedShows'
    BY <1>15, <1>n, <1>w DEF ReadSession, Goto, Done, rows, Open
  <2> QED
    BY <2>1, <2>2, <2>3, <2>4, <2>5
<1>16. ASSUME NEW w \in Workers, MarkSessionFailed(w)
     PROVE  ClaimInv'
  BY <1>16, <1>n, <1>w, <1>o DEF MarkSessionFailed, Goto, rows, Open
<1>17. ASSUME NEW w \in Workers, Capture(w)
     PROVE  ClaimInv'
  BY <1>17, <1>n, <1>w, <1>o DEF Capture, Goto, rows, Open
<1>18. ASSUME NEW w \in Workers, Claim(w)
     PROVE  ClaimInv'
  <2>1. ClaimIsExclusive'
    BY <1>18, <1>n, <1>w DEF Claim, Goto, rows, Open
  <2>2. ClaimShows'
    BY <1>18, <1>n, <1>w DEF Claim, Goto, rows, Open
  <2>3. RetryIsOwed'
    BY <1>18, <1>n, <1>w DEF Claim, Goto, rows, Open
  <2>4. WriteIsExact'
    BY <1>18, <1>n, <1>w DEF Claim, Goto, rows, Open
  <2>5. PlacedShows'
    BY <1>18, <1>n, <1>w DEF Claim, Goto, rows, Open
  <2> QED
    BY <2>1, <2>2, <2>3, <2>4, <2>5
<1>19. ASSUME NEW w \in Workers, WriteOrder(w)
     PROVE  ClaimInv'
  BY <1>19, <1>n, <1>w, <1>o DEF WriteOrder, WriteCommits, Goto, rows, Open
<1>20. ASSUME NEW w \in Workers, WriteRefused(w)
     PROVE  ClaimInv'
  BY <1>20, <1>n, <1>w, <1>o DEF WriteRefused, Goto, rows, Open
<1>21. ASSUME NEW w \in Workers, HandBack(w)
     PROVE  ClaimInv'
  <2>h. /\ HoldsClaim(w, job[w].session)
        /\ status[job[w].session] = "FINALIZING"
    BY <1>21, <1>n DEF HandBack
  <2>1. ClaimIsExclusive'
    BY <1>21, <1>n, <1>w, <2>h DEF HandBack, Done, rows, Open
  <2>2. ClaimShows'
    BY <1>21, <1>n, <1>w, <2>h DEF HandBack, Done, rows, Open
  <2>3. RetryIsOwed'
    BY <1>21, <1>n, <1>w, <2>h DEF HandBack, Done, rows, Open
  <2>4. WriteIsExact'
    BY <1>21, <1>n, <1>w, <2>h DEF HandBack, Done, rows, Open
  <2>5. PlacedShows'
    BY <1>21, <1>n, <1>w, <2>h DEF HandBack, Done, rows, Open
  <2> QED
    BY <2>1, <2>2, <2>3, <2>4, <2>5
<1>22. ASSUME NEW w \in Workers, Refund(w)
     PROVE  ClaimInv'
  <2>1. ClaimIsExclusive'
    BY <1>22, <1>n, <1>w DEF Refund, Goto, Refundable, rows, Open
  <2>2. ClaimShows'
    BY <1>22, <1>n, <1>w DEF Refund, Goto, Refundable, rows, Open
  <2>3. RetryIsOwed'
    BY <1>22, <1>n, <1>w DEF Refund, Goto, Refundable, rows, Open
  <2>4. WriteIsExact'
    BY <1>22, <1>n, <1>w DEF Refund, Goto, Refundable, rows, Open
  <2>5. PlacedShows'
    BY <1>22, <1>n, <1>w DEF Refund, Goto, Refundable, rows, Open
  <2> QED
    BY <2>1, <2>2, <2>3, <2>4, <2>5
<1>23. ASSUME NEW w \in Workers, MarkRefund(w)
     PROVE  ClaimInv'
  <2>1. ClaimIsExclusive'
    BY <1>23, <1>n, <1>w DEF MarkRefund, Goto, Done, rows, Open
  <2>2. ClaimShows'
    BY <1>23, <1>n, <1>w DEF MarkRefund, Goto, Done, rows, Open
  <2>3. RetryIsOwed'
    BY <1>23, <1>n, <1>w DEF MarkRefund, Goto, Done, rows, Open
  <2>4. WriteIsExact'
    BY <1>23, <1>n, <1>w DEF MarkRefund, Goto, Done, rows, Open
  <2>5. PlacedShows'
    BY <1>23, <1>n, <1>w DEF MarkRefund, Goto, Done, rows, Open
  <2> QED
    BY <2>1, <2>2, <2>3, <2>4, <2>5
<1>24. ASSUME NEW w \in Workers, Reply(w)
     PROVE  ClaimInv'
  BY <1>24, <1>n, <1>w, <1>o DEF Reply, Done, rows, Open
<1>25. ASSUME NEW w \in Workers, OpeningFailed(w)
     PROVE  ClaimInv'
  BY <1>25, <1>n, <1>w, <1>o DEF OpeningFailed, Done, Fault, rows, Open
<1>26. ASSUME NEW w \in Workers, LookUpFails(w)
     PROVE  ClaimInv'
  BY <1>26, <1>n, <1>w, <1>o DEF LookUpFails, Done, Fault, rows, Open
<1>27. ASSUME NEW w \in Workers, CaptureFails(w)
     PROVE  ClaimInv'
  BY <1>27, <1>n, <1>w, <1>o DEF CaptureFails, Done, Fault, rows, Open
<1>28. ASSUME NEW w \in Workers, WriteThrows(w)
     PROVE  ClaimInv'
  BY <1>28, <1>n, <1>w, <1>o DEF WriteThrows, WriteCommits, Goto, Fault, rows, Open
<1>29. ASSUME NEW w \in Workers, RefundFails(w)
     PROVE  ClaimInv'
  BY <1>29, <1>n, <1>w, <1>o DEF RefundFails, Goto, Fault, Refundable, rows, Open
<1>30. ASSUME NEW w \in Workers, Crash(w)
     PROVE  ClaimInv'
  BY <1>30, <1>n, <1>w, <1>o DEF Crash, Done, Fault, rows, Open
<1>31. CASE UNCHANGED vars
  BY <1>31 DEF vars, rows, gateway
<1> QED
  BY <1>1, <1>2, <1>3, <1>4, <1>5, <1>6, <1>7, <1>8, <1>9, <1>10, <1>11, <1>12, <1>13, <1>14, <1>15, <1>16, <1>17, <1>18, <1>19, <1>20, <1>21, <1>22, <1>23, <1>24, <1>25, <1>26, <1>27, <1>28, <1>29, <1>30, <1>31
     DEF Next, Customer, Request, Pass, Step, Failure

\* No refund is forgotten before the row says it was made.
LEMMA RefundStep == ASSUME CrashAt \cap Marking = {}
    PROVE  /\ TypeOK /\ OpeningInv /\ ReportInv /\ ClaimInv /\ RefundInv /\ [Next]_vars
           => RefundInv'
<1> SUFFICES ASSUME TypeOK, OpeningInv, ReportInv, ClaimInv, RefundInv, [Next]_vars
             PROVE  RefundInv'
  OBVIOUS
<1> USE ConstantsAssumption
    DEF RefundInv, HoldsClaim, Claimed, Marking, BackStatuses, TypeOK, RowTypes,
        GatewayTypes, WorkerTypes
<1>n. \A w \in Workers : job[w].session \in Sessions
  BY JobTypes
<1>w. Requests \subseteq Workers /\ Passes \subseteq Workers
  BY DEF Workers
<1>p. \A w \in Workers : pc[w] \in Claimed \cup {"claim"} =>
         job[w].payment \in Payments /\ SessionOf[job[w].payment] = job[w].session
  BY DEF ReportInv, PaymentLabels
<1>c. /\ \A w \in Workers : job[w].retry =>
           /\ pc[w] \in {"refund", "markRefunded", "markPending"}
           /\ status[job[w].session] \in BackStatuses
      /\ \A s \in Sessions : \A w \in Workers :
           HoldsClaim(w, s) => status[s] = "FINALIZING"
      /\ \A s \in Sessions : \A v, w \in Workers :
           HoldsClaim(v, s) /\ HoldsClaim(w, s) => v = w
  BY DEF ClaimInv, ClaimIsExclusive, ClaimShows, RetryIsOwed
<1>h. \A w \in Workers : pc[w] \in {"write", "reopen"} =>
         HoldsClaim(w, job[w].session) /\ status[job[w].session] = "FINALIZING"
  BY <1>c, <1>n
<1>o. \A w \in Workers : pc[w] = "opening" => status[job[w].session] = "CREATED"
  BY DEF OpeningInv
<1>1. ASSUME NEW p \in Payments, NEW a \in PaidAmounts, Attempt(p, a)
     PROVE  RefundInv'
  BY <1>1, <1>n, <1>w, <1>p, <1>c, <1>o DEF Attempt, rows, gateway, Open
<1>2. ASSUME NEW p \in Payments, NEW o \in PayStates, Resolve(p, o)
     PROVE  RefundInv'
  BY <1>2, <1>n, <1>w, <1>p, <1>c, <1>o DEF Resolve, rows, gateway, Open
<1>3. ASSUME NEW s \in Sessions, Age(s)
     PROVE  RefundInv'
  BY <1>3, <1>n, <1>w, <1>p, <1>c, <1>o DEF Age, rows, gateway, Open
<1>4. ASSUME NEW s \in Sessions, ReportPaymentFailed(s)
     PROVE  RefundInv'
  BY <1>4, <1>n, <1>w, <1>p, <1>c, <1>o DEF ReportPaymentFailed, rows, gateway, Open
<1>5. ASSUME ReopenStuck
     PROVE  RefundInv'
  BY <1>5, <1>n, <1>w, <1>p, <1>c, <1>o DEF ReopenStuck, Stuck, rows, gateway, Open
<1>6. ASSUME NEW w \in Requests, NEW s \in Sessions, StartSession(w, s)
     PROVE  RefundInv'
  BY <1>6, <1>n, <1>w, <1>p, <1>c, <1>o DEF StartSession, Begin, WorkOn, rows, gateway, Open
<1>7. ASSUME NEW w \in Requests, NEW p \in Payments, ConfirmRazorpay(w, p)
     PROVE  RefundInv'
  BY <1>7, <1>n, <1>w, <1>p, <1>c, <1>o DEF ConfirmRazorpay, Begin, ReportOf, rows, gateway, Open
<1>8. ASSUME NEW w \in Requests, NEW e \in events, RazorpayWebhook(w, e[1], e[2])
     PROVE  RefundInv'
  BY <1>8, <1>n, <1>w, <1>p, <1>c, <1>o DEF RazorpayWebhook, Begin, ReportOf, rows, gateway, Open
<1>9. ASSUME NEW w \in Requests, NEW e \in events, PayuReturn(w, e[1], e[2])
     PROVE  RefundInv'
  BY <1>9, <1>n, <1>w, <1>p, <1>c, <1>o DEF PayuReturn, Begin, ReportOf, rows, gateway, Open
<1>10. ASSUME NEW w \in Passes, NEW s \in Sessions, LookAt(w, s)
     PROVE  RefundInv'
  BY <1>10, <1>n, <1>w, <1>p, <1>c, <1>o DEF LookAt, Begin, WorkOn, rows, gateway, Open
<1>11. ASSUME NEW w \in Passes, NEW s \in Sessions, RetryRefund(w, s)
     PROVE  RefundInv'
  BY <1>11, <1>n, <1>w, <1>p, <1>c, <1>o DEF RetryRefund, Begin, rows, gateway, Open
<1>12. ASSUME NEW w \in Workers, SessionOpened(w)
     PROVE  RefundInv'
  BY <1>12, <1>n, <1>w, <1>p, <1>c, <1>o DEF SessionOpened, Done, rows, gateway, Open
<1>13. ASSUME NEW w \in Workers, LookUp(w)
     PROVE  RefundInv'
  BY <1>13, <1>n, <1>w, <1>p, <1>c, <1>o, SMTT(30) DEF LookUp, Goto, Done, ReportOf, FoundPayments, PaymentsOf, rows, gateway, Open
<1>14. ASSUME NEW w \in Workers, Expire(w)
     PROVE  RefundInv'
  BY <1>14, <1>n, <1>w, <1>p, <1>c, <1>o DEF Expire, Done, rows, gateway, Open, Waiting
<1>15. ASSUME NEW w \in Workers, ReadSession(w)
     PROVE  RefundInv'
  BY <1>15, <1>n, <1>w, <1>p, <1>c, <1>o DEF ReadSession, Goto, Done, rows, gateway, Open
<1>16. ASSUME NEW w \in Workers, MarkSessionFailed(w)
     PROVE  RefundInv'
  BY <1>16, <1>n, <1>w, <1>p, <1>c, <1>o DEF MarkSessionFailed, Goto, rows, gateway, Open
<1>17. ASSUME NEW w \in Workers, Capture(w)
     PROVE  RefundInv'
  BY <1>17, <1>n, <1>w, <1>p, <1>c, <1>o DEF Capture, Goto, rows, gateway, Open
<1>18. ASSUME NEW w \in Workers, Claim(w)
     PROVE  RefundInv'
  <2> SUFFICES ASSUME NEW p \in Payments, refunded'[p] > 0
               PROVE  \/ status'[SessionOf[p]] \in BackStatuses
                      \/ \E v \in Workers : /\ HoldsClaim(v, SessionOf[p])'
                                            /\ pc'[v] \in Marking
    OBVIOUS
  <2> DEFINE s == SessionOf[p]
  <2>s. s \in Sessions
    OBVIOUS
  <2>1. refunded[p] > 0
    BY <1>18 DEF Claim, Goto, rows, gateway
  <2>2. CASE status[s] \in BackStatuses
    BY <2>2, <2>s, <1>18, <1>n, <1>w, <1>p, <1>c, <1>h DEF Claim, Goto, rows, gateway, Open
  <2>3. CASE \E v \in Workers : HoldsClaim(v, s) /\ pc[v] \in Marking
    <3>1. PICK v \in Workers : HoldsClaim(v, s) /\ pc[v] \in Marking
      BY <2>3
    <3>2. status[s] = "FINALIZING"
      BY <3>1, <2>s, <1>c
    <3> QED
      BY <3>1, <1>18 DEF Claim, Goto, rows, gateway
  <2> QED
    BY <2>1, <2>2, <2>3
<1>19. ASSUME NEW w \in Workers, WriteOrder(w)
     PROVE  RefundInv'
  <2> SUFFICES ASSUME NEW p \in Payments, refunded'[p] > 0
               PROVE  \/ status'[SessionOf[p]] \in BackStatuses
                      \/ \E v \in Workers : /\ HoldsClaim(v, SessionOf[p])'
                                            /\ pc'[v] \in Marking
    OBVIOUS
  <2> DEFINE s == SessionOf[p]
  <2>s. s \in Sessions
    OBVIOUS
  <2>1. refunded[p] > 0
    BY <1>19 DEF WriteOrder, WriteCommits, Goto, rows, gateway
  <2>2. CASE status[s] \in BackStatuses
    BY <2>2, <2>s, <1>19, <1>n, <1>w, <1>p, <1>c, <1>h DEF WriteOrder, WriteCommits, Goto, rows, gateway, Open
  <2>3. CASE \E v \in Workers : HoldsClaim(v, s) /\ pc[v] \in Marking
    <3>1. PICK v \in Workers : HoldsClaim(v, s) /\ pc[v] \in Marking
      BY <2>3
    <3>2. status[s] = "FINALIZING"
      BY <3>1, <2>s, <1>c
    <3>3. job[w].session # s
      BY <3>1, <2>s, <1>19, <1>c, <1>h DEF WriteOrder
    <3> QED
      BY <3>1, <3>3, <1>19 DEF WriteOrder, WriteCommits, Goto, rows, gateway
  <2> QED
    BY <2>1, <2>2, <2>3
<1>20. ASSUME NEW w \in Workers, WriteRefused(w)
     PROVE  RefundInv'
  BY <1>20, <1>n, <1>w, <1>p, <1>c, <1>o DEF WriteRefused, Goto, rows, gateway, Open
<1>21. ASSUME NEW w \in Workers, HandBack(w)
     PROVE  RefundInv'
  <2> SUFFICES ASSUME NEW p \in Payments, refunded'[p] > 0
               PROVE  \/ status'[SessionOf[p]] \in BackStatuses
                      \/ \E v \in Workers : /\ HoldsClaim(v, SessionOf[p])'
                                            /\ pc'[v] \in Marking
    OBVIOUS
  <2> DEFINE s == SessionOf[p]
  <2>s. s \in Sessions
    OBVIOUS
  <2>1. refunded[p] > 0
    BY <1>21 DEF HandBack, Done, rows, gateway
  <2>2. CASE status[s] \in BackStatuses
    BY <2>2, <2>s, <1>21, <1>n, <1>w, <1>p, <1>c, <1>h DEF HandBack, Done, rows, gateway, Open
  <2>3. CASE \E v \in Workers : HoldsClaim(v, s) /\ pc[v] \in Marking
    <3>1. PICK v \in Workers : HoldsClaim(v, s) /\ pc[v] \in Marking
      BY <2>3
    <3>2. status[s] = "FINALIZING"
      BY <3>1, <2>s, <1>c
    <3>3. job[w].session # s
      BY <3>1, <2>s, <1>21, <1>c, <1>h DEF HandBack
    <3> QED
      BY <3>1, <3>3, <1>21 DEF HandBack, Done, rows, gateway
  <2> QED
    BY <2>1, <2>2, <2>3
<1>22. ASSUME NEW w \in Workers, Refund(w)
     PROVE  RefundInv'
  <2> SUFFICES ASSUME NEW p \in Payments, refunded'[p] > 0
               PROVE  \/ status'[SessionOf[p]] \in BackStatuses
                      \/ \E v \in Workers : /\ HoldsClaim(v, SessionOf[p])'
                                            /\ pc'[v] \in Marking
    OBVIOUS
  <2> DEFINE s == SessionOf[p]
  <2>s. s \in Sessions
    OBVIOUS
  <2>1. CASE p = job[w].payment /\ job[w].retry
    BY <2>1, <1>22, <1>n, <1>w, <1>p, <1>c, <1>h DEF Refund, Goto, Refundable, rows, gateway
  <2>2. CASE p = job[w].payment /\ ~job[w].retry
    BY <2>2, <1>22, <1>n, <1>w, <1>p, <1>c, <1>h DEF Refund, Goto, Refundable, rows, gateway
  <2>3. CASE p # job[w].payment
    <3>1. refunded[p] > 0
      BY <2>3, <1>22, <1>p DEF Refund, Goto, Refundable, rows, gateway
    <3>2. CASE status[s] \in BackStatuses
      BY <3>2, <1>22 DEF Refund, Goto, Refundable, rows, gateway
    <3>3. CASE \E v \in Workers : HoldsClaim(v, s) /\ pc[v] \in Marking
      BY <3>3, <1>22 DEF Refund, Goto, Refundable, rows, gateway
    <3> QED
      BY <3>1, <3>2, <3>3
  <2> QED
    BY <2>1, <2>2, <2>3
<1>23. ASSUME NEW w \in Workers, MarkRefund(w)
     PROVE  RefundInv'
  <2> SUFFICES ASSUME NEW p \in Payments, refunded'[p] > 0
               PROVE  \/ status'[SessionOf[p]] \in BackStatuses
                      \/ \E v \in Workers : /\ HoldsClaim(v, SessionOf[p])'
                                            /\ pc'[v] \in Marking
    OBVIOUS
  <2> DEFINE s == SessionOf[p]
  <2>s. s \in Sessions
    OBVIOUS
  <2>1. refunded[p] > 0
    BY <1>23 DEF MarkRefund, Goto, Done, rows, gateway
  <2>2. CASE status[s] \in BackStatuses
    BY <2>2, <2>s, <1>23, <1>n, <1>w, <1>p, <1>c, <1>h DEF MarkRefund, Goto, Done, rows, gateway, Open
  <2>3. CASE \E v \in Workers : HoldsClaim(v, s) /\ pc[v] \in Marking
    <3>1. PICK v \in Workers : HoldsClaim(v, s) /\ pc[v] \in Marking
      BY <2>3
    <3>2. status[s] = "FINALIZING"
      BY <3>1, <2>s, <1>c
    <3>3. CASE job[w].session = s
      BY <3>3, <2>s, <1>23 DEF MarkRefund, Goto, Done, rows, gateway
    <3>4. CASE job[w].session # s
      BY <3>1, <3>4, <1>23 DEF MarkRefund, Goto, Done, rows, gateway
    <3> QED
      BY <3>3, <3>4
  <2> QED
    BY <2>1, <2>2, <2>3
<1>24. ASSUME NEW w \in Workers, Reply(w)
     PROVE  RefundInv'
  BY <1>24, <1>n, <1>w, <1>p, <1>c, <1>o DEF Reply, Done, rows, gateway, Open
<1>25. ASSUME NEW w \in Workers, OpeningFailed(w)
     PROVE  RefundInv'
  BY <1>25, <1>n, <1>w, <1>p, <1>c, <1>o DEF OpeningFailed, Done, Fault, rows, gateway, Open
<1>26. ASSUME NEW w \in Workers, LookUpFails(w)
     PROVE  RefundInv'
  BY <1>26, <1>n, <1>w, <1>p, <1>c, <1>o DEF LookUpFails, Done, Fault, rows, gateway, Open
<1>27. ASSUME NEW w \in Workers, CaptureFails(w)
     PROVE  RefundInv'
  BY <1>27, <1>n, <1>w, <1>p, <1>c, <1>o DEF CaptureFails, Done, Fault, rows, gateway, Open
<1>28. ASSUME NEW w \in Workers, WriteThrows(w)
     PROVE  RefundInv'
  <2> SUFFICES ASSUME NEW p \in Payments, refunded'[p] > 0
               PROVE  \/ status'[SessionOf[p]] \in BackStatuses
                      \/ \E v \in Workers : /\ HoldsClaim(v, SessionOf[p])'
                                            /\ pc'[v] \in Marking
    OBVIOUS
  <2> DEFINE s == SessionOf[p]
  <2>s. s \in Sessions
    OBVIOUS
  <2>1. refunded[p] > 0
    BY <1>28 DEF WriteThrows, WriteCommits, Goto, Fault, rows, gateway
  <2>2. CASE status[s] \in BackStatuses
    BY <2>2, <2>s, <1>28, <1>n, <1>w, <1>p, <1>c, <1>h DEF WriteThrows, WriteCommits, Goto, Fault, rows, gateway, Open
  <2>3. CASE \E v \in Workers : HoldsClaim(v, s) /\ pc[v] \in Marking
    <3>1. PICK v \in Workers : HoldsClaim(v, s) /\ pc[v] \in Marking
      BY <2>3
    <3>2. status[s] = "FINALIZING"
      BY <3>1, <2>s, <1>c
    <3>3. job[w].session # s
      BY <3>1, <2>s, <1>28, <1>c, <1>h DEF WriteThrows
    <3> QED
      BY <3>1, <3>3, <1>28 DEF WriteThrows, WriteCommits, Goto, Fault, rows, gateway
  <2> QED
    BY <2>1, <2>2, <2>3
<1>29. ASSUME NEW w \in Workers, RefundFails(w)
     PROVE  RefundInv'
  <2> SUFFICES ASSUME NEW p \in Payments, refunded'[p] > 0
               PROVE  \/ status'[SessionOf[p]] \in BackStatuses
                      \/ \E v \in Workers : /\ HoldsClaim(v, SessionOf[p])'
                                            /\ pc'[v] \in Marking
    OBVIOUS
  <2> DEFINE s == SessionOf[p]
  <2>s. s \in Sessions
    OBVIOUS
  <2>1. CASE p = job[w].payment /\ job[w].retry
    BY <2>1, <1>29, <1>n, <1>w, <1>p, <1>c, <1>h DEF RefundFails, Goto, Fault, Refundable, rows, gateway
  <2>2. CASE p = job[w].payment /\ ~job[w].retry
    BY <2>2, <1>29, <1>n, <1>w, <1>p, <1>c, <1>h DEF RefundFails, Goto, Fault, Refundable, rows, gateway
  <2>3. CASE p # job[w].payment
    <3>1. refunded[p] > 0
      BY <2>3, <1>29, <1>p DEF RefundFails, Goto, Fault, Refundable, rows, gateway
    <3>2. CASE status[s] \in BackStatuses
      BY <3>2, <1>29 DEF RefundFails, Goto, Fault, Refundable, rows, gateway
    <3>3. CASE \E v \in Workers : HoldsClaim(v, s) /\ pc[v] \in Marking
      BY <3>3, <1>29 DEF RefundFails, Goto, Fault, Refundable, rows, gateway
    <3> QED
      BY <3>1, <3>2, <3>3
  <2> QED
    BY <2>1, <2>2, <2>3
<1>30. ASSUME NEW w \in Workers, Crash(w)
     PROVE  RefundInv'
  BY <1>30, <1>n, <1>w, <1>p, <1>c, <1>o DEF Crash, Done, Fault, rows, gateway, Open
<1>31. CASE UNCHANGED vars
  BY <1>31 DEF vars, rows, gateway
<1> QED
  BY <1>1, <1>2, <1>3, <1>4, <1>5, <1>6, <1>7, <1>8, <1>9, <1>10, <1>11, <1>12, <1>13, <1>14, <1>15, <1>16, <1>17, <1>18, <1>19, <1>20, <1>21, <1>22, <1>23, <1>24, <1>25, <1>26, <1>27, <1>28, <1>29, <1>30, <1>31
     DEF Next, Customer, Request, Pass, Step, Failure

\* Orders stay written on money that was captured for them.
LEMMA OrderMoneyStep == /\ TypeOK /\ GatewayInv /\ ReportInv /\ ClaimInv /\ OrderHasItsMoney
    /\ [Next]_vars
    => OrderHasItsMoney'
<1> SUFFICES ASSUME TypeOK, GatewayInv, ReportInv, ClaimInv, OrderHasItsMoney,
                    [Next]_vars
             PROVE  OrderHasItsMoney'
  OBVIOUS
<1> USE ConstantsAssumption
    DEF OrderHasItsMoney, TypeOK, RowTypes, GatewayTypes, WorkerTypes
<1>w. \A w \in Workers : pc[w] = "write" =>
         LET p == job[w].payment IN
         /\ p \in Payments /\ SessionOf[p] = job[w].session
         /\ pay[p] = "captured" /\ paidAmt[p] = Price
  <2> SUFFICES ASSUME NEW w \in Workers, pc[w] = "write"
               PROVE  LET p == job[w].payment IN
                      /\ p \in Payments /\ SessionOf[p] = job[w].session
                      /\ pay[p] = "captured" /\ paidAmt[p] = Price
    OBVIOUS
  <2>1. ~job[w].retry
    BY DEF ClaimInv, RetryIsOwed, Marking
  <2> QED
    BY <2>1 DEF ReportInv, ClaimInv, WriteIsExact, PaymentLabels, Claimed
<1>1. ASSUME NEW p \in Payments, NEW a \in PaidAmounts, Attempt(p, a)
     PROVE  OrderHasItsMoney'
  BY <1>1, <1>w DEF Attempt, rows, gateway
<1>2. ASSUME NEW p \in Payments, NEW o \in PayStates, Resolve(p, o)
     PROVE  OrderHasItsMoney'
  BY <1>2, <1>w DEF Resolve, rows, gateway
<1>3. ASSUME NEW s \in Sessions, Age(s)
     PROVE  OrderHasItsMoney'
  BY <1>3, <1>w DEF Age, rows, gateway
<1>4. ASSUME NEW s \in Sessions, ReportPaymentFailed(s)
     PROVE  OrderHasItsMoney'
  BY <1>4, <1>w DEF ReportPaymentFailed, rows, gateway
<1>5. ASSUME ReopenStuck
     PROVE  OrderHasItsMoney'
  BY <1>5, <1>w DEF ReopenStuck, Stuck, rows, gateway
<1>6. ASSUME NEW w \in Requests, NEW s \in Sessions, StartSession(w, s)
     PROVE  OrderHasItsMoney'
  BY <1>6, <1>w DEF StartSession, Begin, WorkOn, rows, gateway
<1>7. ASSUME NEW w \in Requests, NEW p \in Payments, ConfirmRazorpay(w, p)
     PROVE  OrderHasItsMoney'
  BY <1>7, <1>w DEF ConfirmRazorpay, Begin, ReportOf, rows, gateway
<1>8. ASSUME NEW w \in Requests, NEW e \in events, RazorpayWebhook(w, e[1], e[2])
     PROVE  OrderHasItsMoney'
  BY <1>8, <1>w DEF RazorpayWebhook, Begin, ReportOf, rows, gateway
<1>9. ASSUME NEW w \in Requests, NEW e \in events, PayuReturn(w, e[1], e[2])
     PROVE  OrderHasItsMoney'
  BY <1>9, <1>w DEF PayuReturn, Begin, ReportOf, rows, gateway
<1>10. ASSUME NEW w \in Passes, NEW s \in Sessions, LookAt(w, s)
     PROVE  OrderHasItsMoney'
  BY <1>10, <1>w DEF LookAt, Begin, WorkOn, rows, gateway
<1>11. ASSUME NEW w \in Passes, NEW s \in Sessions, RetryRefund(w, s)
     PROVE  OrderHasItsMoney'
  BY <1>11, <1>w DEF RetryRefund, Begin, rows, gateway
<1>12. ASSUME NEW w \in Workers, SessionOpened(w)
     PROVE  OrderHasItsMoney'
  BY <1>12, <1>w DEF SessionOpened, Done, rows, gateway
<1>13. ASSUME NEW w \in Workers, LookUp(w)
     PROVE  OrderHasItsMoney'
  BY <1>13, <1>w DEF LookUp, Goto, Done, ReportOf, FoundPayments, PaymentsOf, rows, gateway
<1>14. ASSUME NEW w \in Workers, Expire(w)
     PROVE  OrderHasItsMoney'
  BY <1>14, <1>w DEF Expire, Done, rows, gateway
<1>15. ASSUME NEW w \in Workers, ReadSession(w)
     PROVE  OrderHasItsMoney'
  BY <1>15, <1>w DEF ReadSession, Goto, Done, rows, gateway
<1>16. ASSUME NEW w \in Workers, MarkSessionFailed(w)
     PROVE  OrderHasItsMoney'
  BY <1>16, <1>w DEF MarkSessionFailed, Goto, rows, gateway
<1>17. ASSUME NEW w \in Workers, Capture(w)
     PROVE  OrderHasItsMoney'
  BY <1>17, <1>w DEF Capture, Goto, rows, gateway
<1>18. ASSUME NEW w \in Workers, Claim(w)
     PROVE  OrderHasItsMoney'
  BY <1>18, <1>w DEF Claim, Goto, rows, gateway
<1>19. ASSUME NEW w \in Workers, WriteOrder(w)
     PROVE  OrderHasItsMoney'
  BY <1>19, <1>w DEF WriteOrder, WriteCommits, Goto, rows, gateway
<1>20. ASSUME NEW w \in Workers, WriteRefused(w)
     PROVE  OrderHasItsMoney'
  BY <1>20, <1>w DEF WriteRefused, Goto, rows, gateway
<1>21. ASSUME NEW w \in Workers, HandBack(w)
     PROVE  OrderHasItsMoney'
  BY <1>21, <1>w DEF HandBack, Done, rows, gateway
<1>22. ASSUME NEW w \in Workers, Refund(w)
     PROVE  OrderHasItsMoney'
  BY <1>22, <1>w DEF Refund, Goto, Refundable, rows, gateway
<1>23. ASSUME NEW w \in Workers, MarkRefund(w)
     PROVE  OrderHasItsMoney'
  BY <1>23, <1>w DEF MarkRefund, Goto, Done, rows, gateway
<1>24. ASSUME NEW w \in Workers, Reply(w)
     PROVE  OrderHasItsMoney'
  BY <1>24, <1>w DEF Reply, Done, rows, gateway
<1>25. ASSUME NEW w \in Workers, OpeningFailed(w)
     PROVE  OrderHasItsMoney'
  BY <1>25, <1>w DEF OpeningFailed, Done, Fault, rows, gateway
<1>26. ASSUME NEW w \in Workers, LookUpFails(w)
     PROVE  OrderHasItsMoney'
  BY <1>26, <1>w DEF LookUpFails, Done, Fault, rows, gateway
<1>27. ASSUME NEW w \in Workers, CaptureFails(w)
     PROVE  OrderHasItsMoney'
  BY <1>27, <1>w DEF CaptureFails, Done, Fault, rows, gateway
<1>28. ASSUME NEW w \in Workers, WriteThrows(w)
     PROVE  OrderHasItsMoney'
  <2>1. CASE UNCHANGED <<placed, ledger, status>>
    BY <2>1, <1>28 DEF WriteThrows, Goto, gateway
  <2>2. CASE WriteCommits(job[w].session, job[w].payment)
    BY <2>2, <1>28, <1>w DEF WriteThrows, WriteCommits, gateway
  <2> QED
    BY <1>28, <2>1, <2>2 DEF WriteThrows
<1>29. ASSUME NEW w \in Workers, RefundFails(w)
     PROVE  OrderHasItsMoney'
  BY <1>29, <1>w DEF RefundFails, Goto, Fault, Refundable, rows, gateway
<1>30. ASSUME NEW w \in Workers, Crash(w)
     PROVE  OrderHasItsMoney'
  BY <1>30, <1>w DEF Crash, Done, Fault, rows, gateway
<1>31. CASE UNCHANGED vars
  BY <1>31 DEF vars, rows, gateway
<1> QED
  BY <1>1, <1>2, <1>3, <1>4, <1>5, <1>6, <1>7, <1>8, <1>9, <1>10, <1>11, <1>12, <1>13, <1>14, <1>15, <1>16, <1>17, <1>18, <1>19, <1>20, <1>21, <1>22, <1>23, <1>24, <1>25, <1>26, <1>27, <1>28, <1>29, <1>30, <1>31
     DEF Next, Customer, Request, Pass, Step, Failure

\* Money does not come to a session that was given up on.
LEMMA ExpiryStep == ASSUME ~LatePayments
    PROVE  /\ TypeOK /\ OpeningInv /\ GatewayInv /\ ReportInv /\ ClaimInv /\ ExpiryInv
           /\ [Next]_vars
           => ExpiryInv'
<1> SUFFICES ASSUME TypeOK, OpeningInv, GatewayInv, ReportInv, ClaimInv, ExpiryInv, [Next]_vars
             PROVE  ExpiryInv'
  OBVIOUS
<1> USE ConstantsAssumption
    DEF ExpiryInv, Unpaid, PaymentsOf, CanStillPay, TypeOK, RowTypes, GatewayTypes, WorkerTypes
<1>n. NoJob \in Job /\ \A w \in Workers : job[w].session \in Sessions
  BY JobTypes
<1>w. Requests \subseteq Workers /\ Passes \subseteq Workers
  BY DEF Workers
<1>o. \A w \in Workers : pc[w] = "opening" =>
         status[job[w].session] = "CREATED" /\ ~opened[job[w].session]
  BY DEF OpeningInv
<1>g. /\ \A p \in Payments : pay[p] # "none" => opened[SessionOf[p]]
      /\ \A w \in Workers : pc[w] = "capture" =>
           /\ job[w].payment \in Payments
           /\ pay[job[w].payment] \in {"authorized", "captured"}
  BY DEF GatewayInv, ReportInv, PaymentLabels
<1>h. \A w \in Workers :
         /\ pc[w] = "write" => HoldsClaim(w, job[w].session)
         /\ pc[w] = "reopen" => HoldsClaim(w, job[w].session)
  BY <1>n DEF ClaimInv, RetryIsOwed, HoldsClaim, Claimed, Marking
<1>1. ASSUME NEW p \in Payments, NEW a \in PaidAmounts, Attempt(p, a)
     PROVE  ExpiryInv'
  BY <1>1, <1>n, <1>w, <1>o, <1>g DEF Attempt, rows, gateway
<1>2. ASSUME NEW p \in Payments, NEW o \in PayStates, Resolve(p, o)
     PROVE  ExpiryInv'
  BY <1>2, <1>n, <1>w, <1>o, <1>g DEF Resolve, rows, gateway
<1>3. ASSUME NEW s \in Sessions, Age(s)
     PROVE  ExpiryInv'
  BY <1>3, <1>n, <1>w, <1>o, <1>g DEF Age, rows, gateway
<1>4. ASSUME NEW s \in Sessions, ReportPaymentFailed(s)
     PROVE  ExpiryInv'
  BY <1>4, <1>n, <1>w, <1>o, <1>g DEF ReportPaymentFailed, rows, gateway
<1>5. ASSUME ReopenStuck
     PROVE  ExpiryInv'
  BY <1>5, <1>n, <1>w, <1>o, <1>g DEF ReopenStuck, Stuck, rows, gateway
<1>6. ASSUME NEW w \in Requests, NEW s \in Sessions, StartSession(w, s)
     PROVE  ExpiryInv'
  BY <1>6, <1>n, <1>w, <1>o, <1>g DEF StartSession, Begin, WorkOn, rows, gateway
<1>7. ASSUME NEW w \in Requests, NEW p \in Payments, ConfirmRazorpay(w, p)
     PROVE  ExpiryInv'
  BY <1>7, <1>n, <1>w, <1>o, <1>g DEF ConfirmRazorpay, Begin, ReportOf, rows, gateway
<1>8. ASSUME NEW w \in Requests, NEW e \in events, RazorpayWebhook(w, e[1], e[2])
     PROVE  ExpiryInv'
  BY <1>8, <1>n, <1>w, <1>o, <1>g DEF RazorpayWebhook, Begin, ReportOf, rows, gateway
<1>9. ASSUME NEW w \in Requests, NEW e \in events, PayuReturn(w, e[1], e[2])
     PROVE  ExpiryInv'
  BY <1>9, <1>n, <1>w, <1>o, <1>g DEF PayuReturn, Begin, ReportOf, rows, gateway
<1>10. ASSUME NEW w \in Passes, NEW s \in Sessions, LookAt(w, s)
     PROVE  ExpiryInv'
  BY <1>10, <1>n, <1>w, <1>o, <1>g DEF LookAt, Begin, WorkOn, rows, gateway
<1>11. ASSUME NEW w \in Passes, NEW s \in Sessions, RetryRefund(w, s)
     PROVE  ExpiryInv'
  BY <1>11, <1>n, <1>w, <1>o, <1>g DEF RetryRefund, Begin, rows, gateway
<1>12. ASSUME NEW w \in Workers, SessionOpened(w)
     PROVE  ExpiryInv'
  BY <1>12, <1>n, <1>w, <1>o, <1>g DEF SessionOpened, Done, rows, gateway
<1>13. ASSUME NEW w \in Workers, LookUp(w)
     PROVE  ExpiryInv'
  BY <1>13, <1>n, <1>w, <1>o, <1>g DEF LookUp, Goto, Done, ReportOf, FoundPayments, rows, gateway
<1>14. ASSUME NEW w \in Workers, Expire(w)
     PROVE  ExpiryInv'
  BY <1>14, <1>n, <1>w, <1>o, <1>g DEF Expire, Done, rows, gateway
<1>15. ASSUME NEW w \in Workers, ReadSession(w)
     PROVE  ExpiryInv'
  BY <1>15, <1>n, <1>w, <1>o, <1>g DEF ReadSession, Goto, Done, rows, gateway
<1>16. ASSUME NEW w \in Workers, MarkSessionFailed(w)
     PROVE  ExpiryInv'
  BY <1>16, <1>n, <1>w, <1>o, <1>g DEF MarkSessionFailed, Goto, rows, gateway
<1>17. ASSUME NEW w \in Workers, Capture(w)
     PROVE  ExpiryInv'
  BY <1>17, <1>n, <1>w, <1>o, <1>g DEF Capture, Goto, rows, gateway
<1>18. ASSUME NEW w \in Workers, Claim(w)
     PROVE  ExpiryInv'
  BY <1>18, <1>n, <1>w, <1>o, <1>g DEF Claim, Goto, rows, gateway
<1>19. ASSUME NEW w \in Workers, WriteOrder(w)
     PROVE  ExpiryInv'
  BY <1>19, <1>n, <1>w, <1>o, <1>g DEF WriteOrder, WriteCommits, Goto, rows, gateway
<1>20. ASSUME NEW w \in Workers, WriteRefused(w)
     PROVE  ExpiryInv'
  BY <1>20, <1>n, <1>w, <1>o, <1>g DEF WriteRefused, Goto, rows, gateway
<1>21. ASSUME NEW w \in Workers, HandBack(w)
     PROVE  ExpiryInv'
  BY <1>21, <1>n, <1>w, <1>o, <1>g DEF HandBack, Done, rows, gateway
<1>22. ASSUME NEW w \in Workers, Refund(w)
     PROVE  ExpiryInv'
  BY <1>22, <1>n, <1>w, <1>o, <1>g DEF Refund, Goto, Refundable, rows, gateway
<1>23. ASSUME NEW w \in Workers, MarkRefund(w)
     PROVE  ExpiryInv'
  BY <1>23, <1>n, <1>w, <1>o, <1>g DEF MarkRefund, Goto, Done, rows, gateway
<1>24. ASSUME NEW w \in Workers, Reply(w)
     PROVE  ExpiryInv'
  BY <1>24, <1>n, <1>w, <1>o, <1>g DEF Reply, Done, rows, gateway
<1>25. ASSUME NEW w \in Workers, OpeningFailed(w)
     PROVE  ExpiryInv'
  BY <1>25, <1>n, <1>w, <1>o, <1>g DEF OpeningFailed, Done, rows, gateway
<1>26. ASSUME NEW w \in Workers, LookUpFails(w)
     PROVE  ExpiryInv'
  BY <1>26, <1>n, <1>w, <1>o, <1>g DEF LookUpFails, Done, rows, gateway
<1>27. ASSUME NEW w \in Workers, CaptureFails(w)
     PROVE  ExpiryInv'
  BY <1>27, <1>n, <1>w, <1>o, <1>g DEF CaptureFails, Done, rows, gateway
<1>28. ASSUME NEW w \in Workers, WriteThrows(w)
     PROVE  ExpiryInv'
  BY <1>28, <1>n, <1>w, <1>o, <1>g DEF WriteThrows, WriteCommits, Goto, rows, gateway
<1>29. ASSUME NEW w \in Workers, RefundFails(w)
     PROVE  ExpiryInv'
  BY <1>29, <1>n, <1>w, <1>o, <1>g DEF RefundFails, Goto, Refundable, rows, gateway
<1>30. ASSUME NEW w \in Workers, Crash(w)
     PROVE  ExpiryInv'
  BY <1>30, <1>n, <1>w, <1>o, <1>g DEF Crash, Done, rows, gateway
<1>31. CASE UNCHANGED vars
  BY <1>31 DEF vars, rows, gateway
<1> QED
  BY <1>1, <1>2, <1>3, <1>4, <1>5, <1>6, <1>7, <1>8, <1>9, <1>10, <1>11, <1>12,
     <1>13, <1>14, <1>15, <1>16, <1>17, <1>18, <1>19, <1>20, <1>21, <1>22, <1>23, <1>24,
     <1>25, <1>26, <1>27, <1>28, <1>29, <1>30, <1>31
     DEF Next, Customer, Request, Pass, Step, Failure

\* The gateway's books stay in order.
LEMMA BooksStep == TypeOK /\ ReportInv /\ BooksInv /\ [Next]_vars => BooksInv'
<1> SUFFICES ASSUME TypeOK, ReportInv, BooksInv, [Next]_vars
             PROVE  BooksInv'
  OBVIOUS
<1> USE ConstantsAssumption
    DEF BooksInv, PaymentsOf, TypeOK, RowTypes, GatewayTypes, WorkerTypes
<1>n. \A w \in Workers : job[w].amount \in Nat
  BY JobTypes
<1>g. \A w \in Workers :
         /\ pc[w] \in {"capture", "refund"} => job[w].payment \in Payments
         /\ pc[w] = "capture" => pay[job[w].payment] \in {"authorized", "captured"}
  BY DEF ReportInv, PaymentLabels
<1>1. ASSUME NEW p \in Payments, NEW a \in PaidAmounts, Attempt(p, a)
     PROVE  BooksInv'
  BY <1>1, <1>n, <1>g DEF Attempt, rows, gateway
<1>2. ASSUME NEW p \in Payments, NEW o \in PayStates, Resolve(p, o)
     PROVE  BooksInv'
  BY <1>2, <1>n, <1>g DEF Resolve, rows, gateway
<1>3. ASSUME NEW s \in Sessions, Age(s)
     PROVE  BooksInv'
  BY <1>3, <1>n, <1>g DEF Age, rows, gateway
<1>4. ASSUME NEW s \in Sessions, ReportPaymentFailed(s)
     PROVE  BooksInv'
  BY <1>4, <1>n, <1>g DEF ReportPaymentFailed, rows, gateway
<1>5. ASSUME ReopenStuck
     PROVE  BooksInv'
  BY <1>5, <1>n, <1>g DEF ReopenStuck, Stuck, rows, gateway
<1>6. ASSUME NEW w \in Requests, NEW s \in Sessions, StartSession(w, s)
     PROVE  BooksInv'
  BY <1>6, <1>n, <1>g DEF StartSession, Begin, WorkOn, rows, gateway
<1>7. ASSUME NEW w \in Requests, NEW p \in Payments, ConfirmRazorpay(w, p)
     PROVE  BooksInv'
  BY <1>7, <1>n, <1>g DEF ConfirmRazorpay, Begin, ReportOf, rows, gateway
<1>8. ASSUME NEW w \in Requests, NEW e \in events, RazorpayWebhook(w, e[1], e[2])
     PROVE  BooksInv'
  BY <1>8, <1>n, <1>g DEF RazorpayWebhook, Begin, ReportOf, rows, gateway
<1>9. ASSUME NEW w \in Requests, NEW e \in events, PayuReturn(w, e[1], e[2])
     PROVE  BooksInv'
  BY <1>9, <1>n, <1>g DEF PayuReturn, Begin, ReportOf, rows, gateway
<1>10. ASSUME NEW w \in Passes, NEW s \in Sessions, LookAt(w, s)
     PROVE  BooksInv'
  BY <1>10, <1>n, <1>g DEF LookAt, Begin, WorkOn, rows, gateway
<1>11. ASSUME NEW w \in Passes, NEW s \in Sessions, RetryRefund(w, s)
     PROVE  BooksInv'
  BY <1>11, <1>n, <1>g DEF RetryRefund, Begin, rows, gateway
<1>12. ASSUME NEW w \in Workers, SessionOpened(w)
     PROVE  BooksInv'
  BY <1>12, <1>n, <1>g DEF SessionOpened, Done, rows, gateway
<1>13. ASSUME NEW w \in Workers, LookUp(w)
     PROVE  BooksInv'
  BY <1>13, <1>n, <1>g DEF LookUp, Goto, Done, ReportOf, FoundPayments, rows, gateway
<1>14. ASSUME NEW w \in Workers, Expire(w)
     PROVE  BooksInv'
  BY <1>14, <1>n, <1>g DEF Expire, Done, rows, gateway
<1>15. ASSUME NEW w \in Workers, ReadSession(w)
     PROVE  BooksInv'
  BY <1>15, <1>n, <1>g DEF ReadSession, Goto, Done, rows, gateway
<1>16. ASSUME NEW w \in Workers, MarkSessionFailed(w)
     PROVE  BooksInv'
  BY <1>16, <1>n, <1>g DEF MarkSessionFailed, Goto, rows, gateway
<1>17. ASSUME NEW w \in Workers, Capture(w)
     PROVE  BooksInv'
  BY <1>17, <1>n, <1>g DEF Capture, Goto, rows, gateway
<1>18. ASSUME NEW w \in Workers, Claim(w)
     PROVE  BooksInv'
  BY <1>18, <1>n, <1>g DEF Claim, Goto, rows, gateway
<1>19. ASSUME NEW w \in Workers, WriteOrder(w)
     PROVE  BooksInv'
  BY <1>19, <1>n, <1>g DEF WriteOrder, WriteCommits, Goto, rows, gateway
<1>20. ASSUME NEW w \in Workers, WriteRefused(w)
     PROVE  BooksInv'
  BY <1>20, <1>n, <1>g DEF WriteRefused, Goto, rows, gateway
<1>21. ASSUME NEW w \in Workers, HandBack(w)
     PROVE  BooksInv'
  BY <1>21, <1>n, <1>g DEF HandBack, Done, rows, gateway
<1>22. ASSUME NEW w \in Workers, Refund(w)
     PROVE  BooksInv'
  BY <1>22, <1>n, <1>g DEF Refund, Goto, Refundable, rows, gateway
<1>23. ASSUME NEW w \in Workers, MarkRefund(w)
     PROVE  BooksInv'
  BY <1>23, <1>n, <1>g DEF MarkRefund, Goto, Done, rows, gateway
<1>24. ASSUME NEW w \in Workers, Reply(w)
     PROVE  BooksInv'
  BY <1>24, <1>n, <1>g DEF Reply, Done, rows, gateway
<1>25. ASSUME NEW w \in Workers, OpeningFailed(w)
     PROVE  BooksInv'
  BY <1>25, <1>n, <1>g DEF OpeningFailed, Done, rows, gateway
<1>26. ASSUME NEW w \in Workers, LookUpFails(w)
     PROVE  BooksInv'
  BY <1>26, <1>n, <1>g DEF LookUpFails, Done, rows, gateway
<1>27. ASSUME NEW w \in Workers, CaptureFails(w)
     PROVE  BooksInv'
  BY <1>27, <1>n, <1>g DEF CaptureFails, Done, rows, gateway
<1>28. ASSUME NEW w \in Workers, WriteThrows(w)
     PROVE  BooksInv'
  BY <1>28, <1>n, <1>g DEF WriteThrows, WriteCommits, Goto, rows, gateway
<1>29. ASSUME NEW w \in Workers, RefundFails(w)
     PROVE  BooksInv'
  BY <1>29, <1>n, <1>g DEF RefundFails, Goto, Refundable, rows, gateway
<1>30. ASSUME NEW w \in Workers, Crash(w)
     PROVE  BooksInv'
  BY <1>30, <1>n, <1>g DEF Crash, Done, rows, gateway
<1>31. CASE UNCHANGED vars
  BY <1>31 DEF vars, rows, gateway
<1> QED
  BY <1>1, <1>2, <1>3, <1>4, <1>5, <1>6, <1>7, <1>8, <1>9, <1>10, <1>11, <1>12,
     <1>13, <1>14, <1>15, <1>16, <1>17, <1>18, <1>19, <1>20, <1>21, <1>22, <1>23, <1>24,
     <1>25, <1>26, <1>27, <1>28, <1>29, <1>30, <1>31
     DEF Next, Customer, Request, Pass, Step, Failure

\* What a row says of its refund stays what the gateway did.
LEMMA ReturnStep == ASSUME ~AckLoss, PaidAmounts \subseteq {Price},
                           \A v, w \in Passes : v = w
    PROVE  /\ TypeOK /\ OpeningInv /\ GatewayInv /\ ReportInv /\ ClaimInv
           /\ BooksInv /\ ReturnInv /\ [Next]_vars
           => ReturnInv'
<1> SUFFICES ASSUME TypeOK, OpeningInv, GatewayInv, ReportInv, ClaimInv, BooksInv,
                    ReturnInv, [Next]_vars
             PROVE  ReturnInv'
  OBVIOUS
<1> USE ConstantsAssumption
    DEF ReturnInv, PaysThePrice, ClaimNamesPayment, RetryNamesPayment,
        MarkedIsReturned, BackNamesPayment, RefundedInFull, HoldsClaim, Claimed, Marking, BackStatuses,
        PaymentsOf, TypeOK, RowTypes, GatewayTypes, WorkerTypes
<1>n. /\ NoJob \in Job /\ ~NoJob.retry
      /\ \A w \in Workers : job[w].session \in Sessions /\ job[w].amount \in Nat
  BY JobTypes DEF NoJob, WorkOn
<1>w. Requests \subseteq Workers /\ Passes \subseteq Workers
  BY DEF Workers
<1>o. \A w \in Workers : pc[w] = "opening" => status[job[w].session] = "CREATED"
  BY DEF OpeningInv
<1>c. /\ \A w \in Workers : job[w].retry => pc[w] \in {"refund", "markRefunded", "markPending"}
      /\ \A s \in Sessions : \A w \in Workers :
           HoldsClaim(w, s) => status[s] = "FINALIZING"
      /\ \A s \in Sessions : \A v, w \in Workers :
           HoldsClaim(v, s) /\ HoldsClaim(w, s) => v = w
  BY DEF ClaimInv, ClaimIsExclusive, ClaimShows, RetryIsOwed
<1>p. \A w \in Workers : pc[w] \in {"capture", "claim"} \cup Claimed =>
         /\ job[w].payment \in Payments
         /\ SessionOf[job[w].payment] = job[w].session
         /\ pay[job[w].payment] # "none"
         /\ ~job[w].retry => job[w].amount = paidAmt[job[w].payment]
  BY DEF ReportInv, PaymentLabels
<1>g. \A s \in Sessions : payId[s] # NoPayment =>
         SessionOf[payId[s]] = s /\ pay[payId[s]] = "captured"
  BY DEF GatewayInv
<1>b. \A p \in Payments : refunded[p] <= paidAmt[p]
  BY DEF BooksInv
<1>1. ASSUME NEW p \in Payments, NEW a \in PaidAmounts, Attempt(p, a)
     PROVE  ReturnInv'
  BY <1>1, <1>n, <1>w, <1>o, <1>c, <1>p, <1>g, <1>b DEF Attempt, rows, gateway, Open, Waiting
<1>2. ASSUME NEW p \in Payments, NEW o \in PayStates, Resolve(p, o)
     PROVE  ReturnInv'
  BY <1>2, <1>n, <1>w, <1>o, <1>c, <1>p, <1>g, <1>b DEF Resolve, rows, gateway, Open, Waiting
<1>3. ASSUME NEW s \in Sessions, Age(s)
     PROVE  ReturnInv'
  BY <1>3, <1>n, <1>w, <1>o, <1>c, <1>p, <1>g, <1>b DEF Age, rows, gateway, Open, Waiting
<1>4. ASSUME NEW s \in Sessions, ReportPaymentFailed(s)
     PROVE  ReturnInv'
  BY <1>4, <1>n, <1>w, <1>o, <1>c, <1>p, <1>g, <1>b DEF ReportPaymentFailed, rows, gateway, Open, Waiting
<1>5. ASSUME ReopenStuck
     PROVE  ReturnInv'
  BY <1>5, <1>n, <1>w, <1>o, <1>c, <1>p, <1>g, <1>b DEF ReopenStuck, Stuck, rows, gateway, Open, Waiting
<1>6. ASSUME NEW w \in Requests, NEW s \in Sessions, StartSession(w, s)
     PROVE  ReturnInv'
  BY <1>6, <1>n, <1>w, <1>o, <1>c, <1>p, <1>g, <1>b DEF StartSession, Begin, WorkOn, rows, gateway, Open, Waiting
<1>7. ASSUME NEW w \in Requests, NEW p \in Payments, ConfirmRazorpay(w, p)
     PROVE  ReturnInv'
  BY <1>7, <1>n, <1>w, <1>o, <1>c, <1>p, <1>g, <1>b DEF ConfirmRazorpay, Begin, ReportOf, rows, gateway, Open, Waiting
<1>8. ASSUME NEW w \in Requests, NEW e \in events, RazorpayWebhook(w, e[1], e[2])
     PROVE  ReturnInv'
  BY <1>8, <1>n, <1>w, <1>o, <1>c, <1>p, <1>g, <1>b DEF RazorpayWebhook, Begin, ReportOf, rows, gateway, Open, Waiting
<1>9. ASSUME NEW w \in Requests, NEW e \in events, PayuReturn(w, e[1], e[2])
     PROVE  ReturnInv'
  BY <1>9, <1>n, <1>w, <1>o, <1>c, <1>p, <1>g, <1>b DEF PayuReturn, Begin, ReportOf, rows, gateway, Open, Waiting
<1>10. ASSUME NEW w \in Passes, NEW s \in Sessions, LookAt(w, s)
     PROVE  ReturnInv'
  BY <1>10, <1>n, <1>w, <1>o, <1>c, <1>p, <1>g, <1>b DEF LookAt, Begin, WorkOn, rows, gateway, Open, Waiting
<1>11. ASSUME NEW w \in Passes, NEW s \in Sessions, RetryRefund(w, s)
     PROVE  ReturnInv'
  BY <1>11, <1>n, <1>w, <1>o, <1>c, <1>p, <1>g, <1>b DEF RetryRefund, Begin, rows, gateway, Open, Waiting
<1>12. ASSUME NEW w \in Workers, SessionOpened(w)
     PROVE  ReturnInv'
  BY <1>12, <1>n, <1>w, <1>o, <1>c, <1>p, <1>g, <1>b DEF SessionOpened, Done, rows, gateway, Open, Waiting
<1>13. ASSUME NEW w \in Workers, LookUp(w)
     PROVE  ReturnInv'
  <2>j. /\ ~job'[w].retry
        /\ \A v \in Workers : v # w => job'[v] = job[v]
        /\ UNCHANGED <<status, payId>>
    BY <1>13, <1>n, <1>c, SMTT(30) DEF LookUp, Goto, Done, ReportOf, rows
  <2>1. PaysThePrice'
    BY <1>13, <1>n, <1>w, <1>o, <1>c, <1>p, <1>g, <1>b DEF LookUp, Goto, Done, ReportOf, FoundPayments, rows, gateway, Open
  <2>2. ClaimNamesPayment'
    BY <1>13, <1>n, <1>w, <1>o, <1>c, <1>p, <1>g, <1>b DEF LookUp, Goto, Done, ReportOf, FoundPayments, rows, gateway, Open
  <2>3. RetryNamesPayment'
    BY <2>j
  <2>4. MarkedIsReturned'
    BY <1>13, <1>n, <1>w, <1>o, <1>c, <1>p, <1>g, <1>b DEF LookUp, Goto, Done, ReportOf, FoundPayments, rows, gateway, Open
  <2>5. BackNamesPayment'
    BY <1>13, <1>n, <1>w, <1>o, <1>c, <1>p, <1>g, <1>b DEF LookUp, Goto, Done, ReportOf, FoundPayments, rows, gateway, Open
  <2>6. RefundedInFull'
    BY <1>13, <1>n, <1>w, <1>o, <1>c, <1>p, <1>g, <1>b DEF LookUp, Goto, Done, ReportOf, FoundPayments, rows, gateway, Open
  <2> QED
    BY <2>1, <2>2, <2>3, <2>4, <2>5, <2>6
<1>14. ASSUME NEW w \in Workers, Expire(w)
     PROVE  ReturnInv'
  BY <1>14, <1>n, <1>w, <1>o, <1>c, <1>p, <1>g, <1>b DEF Expire, Done, rows, gateway, Open, Waiting
<1>15. ASSUME NEW w \in Workers, ReadSession(w)
     PROVE  ReturnInv'
  <2>1. PaysThePrice'
    BY <1>15, <1>n, <1>w, <1>o, <1>c, <1>p, <1>g, <1>b DEF ReadSession, Goto, Done, rows, gateway, Open
  <2>2. ClaimNamesPayment'
    BY <1>15, <1>n, <1>w, <1>o, <1>c, <1>p, <1>g, <1>b DEF ReadSession, Goto, Done, rows, gateway, Open
  <2>3. RetryNamesPayment'
    BY <1>15, <1>n, <1>w, <1>o, <1>c, <1>p, <1>g, <1>b, SMTT(30) DEF ReadSession, Goto, Done, rows, gateway, Open
  <2>4. MarkedIsReturned'
    BY <1>15, <1>n, <1>w, <1>o, <1>c, <1>p, <1>g, <1>b DEF ReadSession, Goto, Done, rows, gateway, Open
  <2>5. BackNamesPayment'
    BY <1>15, <1>n, <1>w, <1>o, <1>c, <1>p, <1>g, <1>b DEF ReadSession, Goto, Done, rows, gateway, Open
  <2>6. RefundedInFull'
    BY <1>15, <1>n, <1>w, <1>o, <1>c, <1>p, <1>g, <1>b DEF ReadSession, Goto, Done, rows, gateway, Open
  <2> QED
    BY <2>1, <2>2, <2>3, <2>4, <2>5, <2>6
<1>16. ASSUME NEW w \in Workers, MarkSessionFailed(w)
     PROVE  ReturnInv'
  BY <1>16, <1>n, <1>w, <1>o, <1>c, <1>p, <1>g, <1>b DEF MarkSessionFailed, Goto, rows, gateway, Open, Waiting
<1>17. ASSUME NEW w \in Workers, Capture(w)
     PROVE  ReturnInv'
  BY <1>17, <1>n, <1>w, <1>o, <1>c, <1>p, <1>g, <1>b DEF Capture, Goto, rows, gateway, Open, Waiting
<1>18. ASSUME NEW w \in Workers, Claim(w)
     PROVE  ReturnInv'
  <2>1. PaysThePrice'
    BY <1>18, <1>n, <1>w, <1>o, <1>c, <1>p, <1>g, <1>b DEF Claim, Goto, rows, gateway, Open
  <2>2. ClaimNamesPayment'
    BY <1>18, <1>n, <1>w, <1>o, <1>c, <1>p, <1>g, <1>b DEF Claim, Goto, rows, gateway, Open
  <2>3. RetryNamesPayment'
    BY <1>18, <1>n, <1>w, <1>o, <1>c, <1>p, <1>g, <1>b DEF Claim, Goto, rows, gateway, Open
  <2>4. MarkedIsReturned'
    BY <1>18, <1>n, <1>w, <1>o, <1>c, <1>p, <1>g, <1>b DEF Claim, Goto, rows, gateway, Open
  <2>5. BackNamesPayment'
    BY <1>18, <1>n, <1>w, <1>o, <1>c, <1>p, <1>g, <1>b, SMTT(30) DEF Claim, Goto, rows, gateway, Open
  <2>6. RefundedInFull'
    BY <1>18, <1>n, <1>w, <1>o, <1>c, <1>p, <1>g, <1>b DEF Claim, Goto, rows, gateway, Open
  <2> QED
    BY <2>1, <2>2, <2>3, <2>4, <2>5, <2>6
<1>19. ASSUME NEW w \in Workers, WriteOrder(w)
     PROVE  ReturnInv'
  BY <1>19, <1>n, <1>w, <1>o, <1>c, <1>p, <1>g, <1>b, SMTT(30) DEF WriteOrder, WriteCommits, Goto, rows, gateway, Open, Waiting
<1>20. ASSUME NEW w \in Workers, WriteRefused(w)
     PROVE  ReturnInv'
  BY <1>20, <1>n, <1>w, <1>o, <1>c, <1>p, <1>g, <1>b DEF WriteRefused, Goto, rows, gateway, Open, Waiting
<1>21. ASSUME NEW w \in Workers, HandBack(w)
     PROVE  ReturnInv'
  BY <1>21, <1>n, <1>w, <1>o, <1>c, <1>p, <1>g, <1>b DEF HandBack, Done, rows, gateway, Open, Waiting
<1>22. ASSUME NEW w \in Workers, Refund(w)
     PROVE  ReturnInv'
  BY <1>22, <1>n, <1>w, <1>o, <1>c, <1>p, <1>g, <1>b DEF Refund, Goto, Refundable, rows, gateway, Open, Waiting
<1>23. ASSUME NEW w \in Workers, MarkRefund(w)
     PROVE  ReturnInv'
  <2>1. PaysThePrice'
    BY <1>23, <1>n, <1>w, <1>o, <1>c, <1>p, <1>g, <1>b DEF MarkRefund, Goto, Done, rows, gateway, Open
  <2>2. ClaimNamesPayment'
    BY <1>23, <1>n, <1>w, <1>o, <1>c, <1>p, <1>g, <1>b DEF MarkRefund, Goto, Done, rows, gateway, Open
  <2>3. RetryNamesPayment'
    BY <1>23, <1>n, <1>w, <1>o, <1>c, <1>p, <1>g, <1>b DEF MarkRefund, Goto, Done, rows, gateway, Open
  <2>4. MarkedIsReturned'
    BY <1>23, <1>n, <1>w, <1>o, <1>c, <1>p, <1>g, <1>b DEF MarkRefund, Goto, Done, rows, gateway, Open
  <2>5. BackNamesPayment'
    BY <1>23, <1>n, <1>w, <1>o, <1>c, <1>p, <1>g, <1>b DEF MarkRefund, Goto, Done, rows, gateway, Open
  <2>6. RefundedInFull'
    BY <1>23, <1>n, <1>w, <1>o, <1>c, <1>p, <1>g, <1>b DEF MarkRefund, Goto, Done, rows, gateway, Open
  <2> QED
    BY <2>1, <2>2, <2>3, <2>4, <2>5, <2>6
<1>24. ASSUME NEW w \in Workers, Reply(w)
     PROVE  ReturnInv'
  BY <1>24, <1>n, <1>w, <1>o, <1>c, <1>p, <1>g, <1>b DEF Reply, Done, rows, gateway, Open, Waiting
<1>25. ASSUME NEW w \in Workers, OpeningFailed(w)
     PROVE  ReturnInv'
  BY <1>25, <1>n, <1>w, <1>o, <1>c, <1>p, <1>g, <1>b DEF OpeningFailed, Done, rows, gateway, Open, Waiting
<1>26. ASSUME NEW w \in Workers, LookUpFails(w)
     PROVE  ReturnInv'
  BY <1>26, <1>n, <1>w, <1>o, <1>c, <1>p, <1>g, <1>b DEF LookUpFails, Done, rows, gateway, Open, Waiting
<1>27. ASSUME NEW w \in Workers, CaptureFails(w)
     PROVE  ReturnInv'
  BY <1>27, <1>n, <1>w, <1>o, <1>c, <1>p, <1>g, <1>b DEF CaptureFails, Done, rows, gateway, Open, Waiting
<1>28. ASSUME NEW w \in Workers, WriteThrows(w)
     PROVE  ReturnInv'
  BY <1>28, <1>n, <1>w, <1>o, <1>c, <1>p, <1>g, <1>b DEF WriteThrows, WriteCommits, Goto, rows, gateway, Open, Waiting
<1>29. ASSUME NEW w \in Workers, RefundFails(w)
     PROVE  ReturnInv'
  BY <1>29, <1>n, <1>w, <1>o, <1>c, <1>p, <1>g, <1>b DEF RefundFails, Goto, Refundable, rows, gateway, Open, Waiting
<1>30. ASSUME NEW w \in Workers, Crash(w)
     PROVE  ReturnInv'
  BY <1>30, <1>n, <1>w, <1>o, <1>c, <1>p, <1>g, <1>b DEF Crash, Done, rows, gateway, Open, Waiting
<1>31. CASE UNCHANGED vars
  BY <1>31 DEF vars, rows, gateway
<1> QED
  BY <1>1, <1>2, <1>3, <1>4, <1>5, <1>6, <1>7, <1>8, <1>9, <1>10, <1>11, <1>12,
     <1>13, <1>14, <1>15, <1>16, <1>17, <1>18, <1>19, <1>20, <1>21, <1>22, <1>23, <1>24,
     <1>25, <1>26, <1>27, <1>28, <1>29, <1>30, <1>31
     DEF Next, Customer, Request, Pass, Step, Failure

\* No step settles a settled session another way.
LEMMA SettledStays == ASSUME ~AckLoss
    PROVE  /\ TypeOK /\ OpeningInv /\ ReportInv /\ ClaimInv /\ ReturnInv /\ [Next]_vars
           => \A s \in Sessions : status[s] \in {"ORDER_CREATED", "REFUNDED"}
                                     => status'[s] = status[s]
<1> SUFFICES ASSUME TypeOK, OpeningInv, ReportInv, ClaimInv, ReturnInv, [Next]_vars,
                    NEW t \in Sessions, status[t] \in {"ORDER_CREATED", "REFUNDED"}
             PROVE  status'[t] = status[t]
  OBVIOUS
<1> USE ConstantsAssumption
    DEF HoldsClaim, Claimed, Marking, TypeOK, RowTypes, WorkerTypes
<1>n. \A w \in Workers : job[w].session \in Sessions
  BY JobTypes
<1>o. \A w \in Workers : pc[w] = "opening" => status[job[w].session] = "CREATED"
  BY DEF OpeningInv
<1>c. \A w \in Workers :
         /\ pc[w] \in {"write", "reopen"} => status[job[w].session] = "FINALIZING"
         /\ pc[w] \in Marking => status[job[w].session] \in {"FINALIZING", "REFUND_PENDING"}
  BY <1>n DEF ClaimInv, ClaimShows, RetryIsOwed, ReturnInv,
     RetryNamesPayment
<1>1. ASSUME NEW p \in Payments, NEW a \in PaidAmounts, Attempt(p, a)
     PROVE  status'[t] = status[t]
  BY <1>1, <1>n, <1>o, <1>c DEF Attempt, rows, gateway, Open, Waiting
<1>2. ASSUME NEW p \in Payments, NEW o \in PayStates, Resolve(p, o)
     PROVE  status'[t] = status[t]
  BY <1>2, <1>n, <1>o, <1>c DEF Resolve, rows, gateway, Open, Waiting
<1>3. ASSUME NEW s \in Sessions, Age(s)
     PROVE  status'[t] = status[t]
  BY <1>3, <1>n, <1>o, <1>c DEF Age, rows, gateway, Open, Waiting
<1>4. ASSUME NEW s \in Sessions, ReportPaymentFailed(s)
     PROVE  status'[t] = status[t]
  BY <1>4, <1>n, <1>o, <1>c DEF ReportPaymentFailed, rows, gateway, Open, Waiting
<1>5. ASSUME ReopenStuck
     PROVE  status'[t] = status[t]
  BY <1>5, <1>n, <1>o, <1>c DEF ReopenStuck, Stuck, rows, gateway, Open, Waiting
<1>6. ASSUME NEW w \in Requests, NEW s \in Sessions, StartSession(w, s)
     PROVE  status'[t] = status[t]
  BY <1>6, <1>n, <1>o, <1>c DEF StartSession, Begin, WorkOn, rows, gateway, Open, Waiting
<1>7. ASSUME NEW w \in Requests, NEW p \in Payments, ConfirmRazorpay(w, p)
     PROVE  status'[t] = status[t]
  BY <1>7, <1>n, <1>o, <1>c DEF ConfirmRazorpay, Begin, ReportOf, rows, gateway, Open, Waiting
<1>8. ASSUME NEW w \in Requests, NEW e \in events, RazorpayWebhook(w, e[1], e[2])
     PROVE  status'[t] = status[t]
  BY <1>8, <1>n, <1>o, <1>c DEF RazorpayWebhook, Begin, ReportOf, rows, gateway, Open, Waiting
<1>9. ASSUME NEW w \in Requests, NEW e \in events, PayuReturn(w, e[1], e[2])
     PROVE  status'[t] = status[t]
  BY <1>9, <1>n, <1>o, <1>c DEF PayuReturn, Begin, ReportOf, rows, gateway, Open, Waiting
<1>10. ASSUME NEW w \in Passes, NEW s \in Sessions, LookAt(w, s)
     PROVE  status'[t] = status[t]
  BY <1>10, <1>n, <1>o, <1>c DEF LookAt, Begin, WorkOn, rows, gateway, Open, Waiting
<1>11. ASSUME NEW w \in Passes, NEW s \in Sessions, RetryRefund(w, s)
     PROVE  status'[t] = status[t]
  BY <1>11, <1>n, <1>o, <1>c DEF RetryRefund, Begin, rows, gateway, Open, Waiting
<1>12. ASSUME NEW w \in Workers, SessionOpened(w)
     PROVE  status'[t] = status[t]
  BY <1>12, <1>n, <1>o, <1>c DEF SessionOpened, Done, rows, gateway, Open, Waiting
<1>13. ASSUME NEW w \in Workers, LookUp(w)
     PROVE  status'[t] = status[t]
  BY <1>13, <1>n, <1>o, <1>c DEF LookUp, Goto, Done, ReportOf, FoundPayments, rows, gateway, Open, Waiting
<1>14. ASSUME NEW w \in Workers, Expire(w)
     PROVE  status'[t] = status[t]
  BY <1>14, <1>n, <1>o, <1>c DEF Expire, Done, rows, gateway, Open, Waiting
<1>15. ASSUME NEW w \in Workers, ReadSession(w)
     PROVE  status'[t] = status[t]
  BY <1>15, <1>n, <1>o, <1>c DEF ReadSession, Goto, Done, rows, gateway, Open, Waiting
<1>16. ASSUME NEW w \in Workers, MarkSessionFailed(w)
     PROVE  status'[t] = status[t]
  BY <1>16, <1>n, <1>o, <1>c DEF MarkSessionFailed, Goto, rows, gateway, Open, Waiting
<1>17. ASSUME NEW w \in Workers, Capture(w)
     PROVE  status'[t] = status[t]
  BY <1>17, <1>n, <1>o, <1>c DEF Capture, Goto, rows, gateway, Open, Waiting
<1>18. ASSUME NEW w \in Workers, Claim(w)
     PROVE  status'[t] = status[t]
  BY <1>18, <1>n, <1>o, <1>c DEF Claim, Goto, rows, gateway, Open, Waiting
<1>19. ASSUME NEW w \in Workers, WriteOrder(w)
     PROVE  status'[t] = status[t]
  BY <1>19, <1>n, <1>o, <1>c DEF WriteOrder, WriteCommits, Goto, rows, gateway, Open, Waiting
<1>20. ASSUME NEW w \in Workers, WriteRefused(w)
     PROVE  status'[t] = status[t]
  BY <1>20, <1>n, <1>o, <1>c DEF WriteRefused, Goto, rows, gateway, Open, Waiting
<1>21. ASSUME NEW w \in Workers, HandBack(w)
     PROVE  status'[t] = status[t]
  BY <1>21, <1>n, <1>o, <1>c DEF HandBack, Done, rows, gateway, Open, Waiting
<1>22. ASSUME NEW w \in Workers, Refund(w)
     PROVE  status'[t] = status[t]
  BY <1>22, <1>n, <1>o, <1>c DEF Refund, Goto, Refundable, rows, gateway, Open, Waiting
<1>23. ASSUME NEW w \in Workers, MarkRefund(w)
     PROVE  status'[t] = status[t]
  BY <1>23, <1>n, <1>o, <1>c DEF MarkRefund, Goto, Done, rows, gateway, Open, Waiting
<1>24. ASSUME NEW w \in Workers, Reply(w)
     PROVE  status'[t] = status[t]
  BY <1>24, <1>n, <1>o, <1>c DEF Reply, Done, rows, gateway, Open, Waiting
<1>25. ASSUME NEW w \in Workers, OpeningFailed(w)
     PROVE  status'[t] = status[t]
  BY <1>25, <1>n, <1>o, <1>c DEF OpeningFailed, Done, rows, gateway, Open, Waiting
<1>26. ASSUME NEW w \in Workers, LookUpFails(w)
     PROVE  status'[t] = status[t]
  BY <1>26, <1>n, <1>o, <1>c DEF LookUpFails, Done, rows, gateway, Open, Waiting
<1>27. ASSUME NEW w \in Workers, CaptureFails(w)
     PROVE  status'[t] = status[t]
  BY <1>27, <1>n, <1>o, <1>c DEF CaptureFails, Done, rows, gateway, Open, Waiting
<1>28. ASSUME NEW w \in Workers, WriteThrows(w)
     PROVE  status'[t] = status[t]
  BY <1>28, <1>n, <1>o, <1>c DEF WriteThrows, WriteCommits, Goto, rows, gateway, Open, Waiting
<1>29. ASSUME NEW w \in Workers, RefundFails(w)
     PROVE  status'[t] = status[t]
  BY <1>29, <1>n, <1>o, <1>c DEF RefundFails, Goto, Refundable, rows, gateway, Open, Waiting
<1>30. ASSUME NEW w \in Workers, Crash(w)
     PROVE  status'[t] = status[t]
  BY <1>30, <1>n, <1>o, <1>c DEF Crash, Done, rows, gateway, Open, Waiting
<1>31. CASE UNCHANGED vars
  BY <1>31 DEF vars, rows, gateway
<1> QED
  BY <1>1, <1>2, <1>3, <1>4, <1>5, <1>6, <1>7, <1>8, <1>9, <1>10, <1>11, <1>12,
     <1>13, <1>14, <1>15, <1>16, <1>17, <1>18, <1>19, <1>20, <1>21, <1>22, <1>23, <1>24,
     <1>25, <1>26, <1>27, <1>28, <1>29, <1>30, <1>31
     DEF Next, Customer, Request, Pass, Step, Failure

-----------------------------------------------------------------------------

LEMMA InitIInv == Init => IInv
<1> SUFFICES ASSUME Init
             PROVE  IInv
  OBVIOUS
<1> USE ConstantsAssumption DEF Init
<1>1. TypeOK
  <2>1. RowTypes /\ GatewayTypes
    BY DEF RowTypes, GatewayTypes, Statuses, Open, PayStates
  <2>2. NoJob \in Job
    BY DEF NoJob, WorkOn, Job, Reported
  <2>3. WorkerTypes
    BY <2>2 DEF WorkerTypes, PaymentLabels
  <2> QED
    BY <2>1, <2>3 DEF TypeOK
<1>2. NoJob.retry = FALSE
  BY DEF NoJob, WorkOn
<1>3. OpeningInv /\ GatewayInv /\ ReportInv
  BY DEF OpeningInv, GatewayInv, ReportInv, PaymentLabels
<1>4. ClaimInv
  BY <1>2 DEF ClaimInv, ClaimIsExclusive, ClaimShows, RetryIsOwed, WriteIsExact,
     PlacedShows, HoldsClaim, Claimed
<1>5. RefundInv /\ OrderHasItsMoney
  BY DEF RefundInv, OrderHasItsMoney
<1> QED
  BY <1>1, <1>3, <1>4, <1>5 DEF IInv

\* What the properties follow from.
LEMMA IInvImplies ==
    IInv => /\ OneOrderPerSession /\ NeverOrderAndRefund
            /\ OrderHasItsMoney /\ ClaimIsExclusive
<1> SUFFICES ASSUME IInv
             PROVE  OneOrderPerSession /\ NeverOrderAndRefund
  BY DEF IInv, ClaimInv
<1> USE DEF IInv, ClaimInv, TypeOK, RowTypes, GatewayTypes
<1>1. OneOrderPerSession
  BY DEF OneOrderPerSession, PlacedShows
<1>2. ASSUME NEW s \in Sessions, placed[s] > 0, NEW p \in PaymentsOf(s)
      PROVE  refunded[p] = 0
  <2>1. status[s] = "ORDER_CREATED"
    BY <1>2 DEF PlacedShows
  <2>2. p \in Payments /\ SessionOf[p] = s
    BY <1>2 DEF PaymentsOf
  <2>3. ~(refunded[p] > 0)
    BY <2>1, <2>2 DEF RefundInv, ClaimShows, BackStatuses
  <2> QED
    BY <2>2, <2>3
<1> QED
  BY <1>1, <1>2 DEF NeverOrderAndRefund

LEMMA IInvStep == ASSUME ~AckLoss, CrashAt \cap Marking = {}
    PROVE  IInv /\ [Next]_vars => IInv'
BY TypeInductive, OpeningStep, GatewayStep, ReportStep, ClaimStep, RefundStep,
   OrderMoneyStep DEF IInv

LEMMA InitReasons == Init => ExpiryInv /\ BooksInv /\ ReturnInv
<1> SUFFICES ASSUME Init
             PROVE  ExpiryInv /\ BooksInv /\ ReturnInv
  OBVIOUS
<1> USE ConstantsAssumption DEF Init
<1>1. NoJob.retry = FALSE
  BY DEF NoJob, WorkOn
<1>2. ExpiryInv
  BY DEF ExpiryInv
<1>3. BooksInv
  BY DEF BooksInv
<1>4. ReturnInv
  BY <1>1 DEF ReturnInv, PaysThePrice, ClaimNamesPayment, RetryNamesPayment, MarkedIsReturned,
     BackNamesPayment, RefundedInFull, HoldsClaim, Claimed, BackStatuses
<1> QED
  BY <1>2, <1>3, <1>4

LEMMA IInvBooks == ASSUME ~AckLoss, CrashAt \cap Marking = {}
    PROVE  Spec => [](IInv /\ BooksInv)
<1>1. IInv /\ BooksInv /\ [Next]_vars => BooksInv'
  BY BooksStep DEF IInv
<1> QED
  BY <1>1, IInvStep, InitIInv, InitReasons, PTL DEF Spec

-----------------------------------------------------------------------------
(* PaymentSession implements PaymentSettlement.                            *)

\* What a session's money is, told by the one payment captured for it.
LEMMA MoneyTold ==
    TypeOK /\ BooksInv =>
        /\ \A s \in Sessions : Captured(s) = {} => MoneyOf(s) = "none"
        /\ \A p \in Payments : pay[p] = "captured" =>
              /\ Captured(SessionOf[p]) = {p}
              /\ MoneyOf(SessionOf[p]) =
                     IF refunded[p] = paidAmt[p] THEN "returned" ELSE "taken"
<1> SUFFICES ASSUME TypeOK, BooksInv
             PROVE  /\ \A s \in Sessions : Captured(s) = {} => MoneyOf(s) = "none"
                    /\ \A p \in Payments : pay[p] = "captured" =>
                          /\ Captured(SessionOf[p]) = {p}
                          /\ MoneyOf(SessionOf[p]) =
                                 IF refunded[p] = paidAmt[p] THEN "returned" ELSE "taken"
  OBVIOUS
<1>1. ASSUME NEW p \in Payments, pay[p] = "captured"
      PROVE  /\ Captured(SessionOf[p]) = {p}
             /\ MoneyOf(SessionOf[p]) =
                    IF refunded[p] = paidAmt[p] THEN "returned" ELSE "taken"
  <2>1. Captured(SessionOf[p]) = {p}
    BY <1>1 DEF Captured, PaymentsOf, BooksInv
  <2> QED
    BY <2>1 DEF MoneyOf
<1> QED
  BY <1>1 DEF MoneyOf

\* A session whose captured payments and refunds stay has its money as it was.
LEMMA MoneyKept ==
    ASSUME NEW s \in Sessions,
           \A p \in PaymentsOf(s) :
              /\ (pay'[p] = "captured") <=> (pay[p] = "captured")
              /\ pay[p] = "captured" => refunded'[p] = refunded[p] /\ paidAmt'[p] = paidAmt[p]
    PROVE  MoneyOf(s)' = MoneyOf(s)
<1>1. Captured(s)' = Captured(s)
  BY DEF Captured, PaymentsOf
<1>2. \A p \in Captured(s) : refunded'[p] = refunded[p] /\ paidAmt'[p] = paidAmt[p]
  BY DEF Captured
<1> QED
  BY <1>1, <1>2 DEF MoneyOf

\* What leaves the gateway's books and the orders alone is no abstract step.
LEMMA QuietStep ==
    ASSUME \A s \in Sessions : MoneyOf(s)' = MoneyOf(s), UNCHANGED placed
    PROVE  UNCHANGED Settlement!vars
BY DEF Settlement!vars

\* Money captured is Take.
LEMMA TakeStep ==
    ASSUME TypeOK, BooksInv, TypeOK', BooksInv', NEW p \in Payments,
           NEW s \in Sessions, s = SessionOf[p],
           pay[p] \in {"created", "authorized"},
           pay' = [pay EXCEPT ![p] = "captured"],
           UNCHANGED <<placed, paidAmt, refunded>>
    PROVE  Settlement!Take(s)
<1> USE ConstantsAssumption DEF TypeOK, GatewayTypes
<1>1. Captured(s) = {}
  BY DEF Captured, PaymentsOf, BooksInv
<1>2. MoneyOf(s) = "none"
  BY <1>1, MoneyTold
<1>3. refunded[p] # paidAmt[p]
  BY DEF BooksInv
<1>4. MoneyOf(s)' = "taken"
  <2>1. Captured(s)' = {p}
    BY <1>1 DEF Captured, PaymentsOf
  <2> QED
    BY <2>1, <1>3 DEF MoneyOf
<1>5. ASSUME NEW t \in Sessions, t # s
      PROVE  MoneyOf(t)' = MoneyOf(t)
  BY <1>5, MoneyKept DEF PaymentsOf
<1> QED
  BY <1>2, <1>4, <1>5 DEF Settlement!Take

\* Money refunded is Return, once all of it went back.
LEMMA ReturnsStep ==
    ASSUME TypeOK, BooksInv, NEW p \in Payments, NEW a \in Nat,
           NEW s \in Sessions, s = SessionOf[p],
           Refundable(p, a),
           refunded' = [refunded EXCEPT ![p] = @ + a],
           placed[s] = 0,
           UNCHANGED <<placed, paidAmt, pay>>
    PROVE  Settlement!Return(s) \/ UNCHANGED Settlement!vars
<1> USE ConstantsAssumption DEF TypeOK, GatewayTypes, Refundable
<1>1. /\ Captured(s) = {p}
      /\ MoneyOf(s) = IF refunded[p] = paidAmt[p] THEN "returned" ELSE "taken"
  BY MoneyTold
<1>2. MoneyOf(s)' = IF refunded[p] + a = paidAmt[p] THEN "returned" ELSE "taken"
  <2>1. Captured(s)' = {p}
    BY <1>1 DEF Captured, PaymentsOf
  <2> QED
    BY <2>1 DEF MoneyOf
<1>3. ASSUME NEW t \in Sessions, t # s
      PROVE  MoneyOf(t)' = MoneyOf(t)
  BY <1>3, MoneyKept DEF PaymentsOf
<1>4. CASE MoneyOf(s)' = MoneyOf(s)
  BY <1>3, <1>4, QuietStep
<1>5. CASE MoneyOf(s)' # MoneyOf(s)
  <2>1. MoneyOf(s) = "taken" /\ MoneyOf(s)' = "returned"
    BY <1>1, <1>2, <1>5
  <2>2. ~(placed[s] > 0)
    OBVIOUS
  <2>3. UNCHANGED [t \in Sessions |-> placed[t] > 0]
    OBVIOUS
  <2>4. [t \in Sessions |-> MoneyOf(t)]'
           = [[t \in Sessions |-> MoneyOf(t)] EXCEPT ![s] = "returned"]
    BY <2>1, <1>3
  <2>5. [t \in Sessions |-> MoneyOf(t)][s] = "taken" /\ ~[t \in Sessions |-> placed[t] > 0][s]
    BY <2>1, <2>2
  <2> QED
    BY <2>3, <2>4, <2>5, Zenon DEF Settlement!Return
<1> QED
  BY <1>4, <1>5

\* An order written on captured money that is not refunded is Place.
LEMMA PlaceStep ==
    ASSUME TypeOK, BooksInv, NEW p \in Payments, pay[p] = "captured", refunded[p] = 0,
           NEW s \in Sessions, s = SessionOf[p],
           placed[s] = 0,
           placed' = [placed EXCEPT ![s] = @ + 1],
           UNCHANGED <<pay, paidAmt, refunded>>
    PROVE  Settlement!Place(s)
<1> USE ConstantsAssumption DEF TypeOK, RowTypes, GatewayTypes
<1>1. MoneyOf(s) = "taken"
  BY MoneyTold DEF BooksInv
<1>2. \A t \in Sessions : MoneyOf(t)' = MoneyOf(t)
  BY MoneyKept
<1>3. ~(placed[s] > 0) /\ placed'[s] > 0
  OBVIOUS
<1>4. ASSUME NEW t \in Sessions, t # s
      PROVE  (placed'[t] > 0) = (placed[t] > 0)
  BY <1>4
<1>5. [t \in Sessions |-> placed[t] > 0]'
          = [[t \in Sessions |-> placed[t] > 0] EXCEPT ![s] = TRUE]
  BY <1>3, <1>4, Zenon
<1>6. [t \in Sessions |-> MoneyOf(t)][s] = "taken" /\ ~[t \in Sessions |-> placed[t] > 0][s]
  BY <1>1, <1>3
<1>7. UNCHANGED [t \in Sessions |-> MoneyOf(t)]
  BY <1>2
<1> QED
  BY <1>5, <1>6, <1>7, Zenon DEF Settlement!Place

\* Every step takes or returns the money of a session, places its order, or
\* is none of the abstract specification's business.
LEMMA SettlementStep == ASSUME ~AckLoss
    PROVE  /\ IInv /\ IInv' /\ BooksInv /\ BooksInv' /\ [Next]_vars
           => [Settlement!Next]_(Settlement!vars)
<1> SUFFICES ASSUME IInv, IInv', BooksInv, BooksInv', [Next]_vars
             PROVE  [Settlement!Next]_(Settlement!vars)
  OBVIOUS
<1> USE ConstantsAssumption
<1>i. TypeOK /\ TypeOK' /\ ReportInv /\ ClaimInv /\ RefundInv
  BY DEF IInv
<1>t. \A w \in Workers : job[w].session \in Sessions /\ job[w].amount \in Nat
  BY <1>i, JobTypes DEF TypeOK, WorkerTypes
<1>q. UNCHANGED <<pay, paidAmt, refunded, placed>> => UNCHANGED Settlement!vars
  BY MoneyKept, QuietStep
<1>p. \A w \in Workers : pc[w] \in {"capture", "write", "refund"} =>
         /\ job[w].payment \in Payments
         /\ SessionOf[job[w].payment] = job[w].session
         /\ pc[w] = "capture" => pay[job[w].payment] \in {"authorized", "captured"}
         /\ pc[w] = "write" => pay[job[w].payment] = "captured"
  BY <1>i DEF TypeOK, WorkerTypes, ReportInv, PaymentLabels, Claimed
<1>r. \A w \in Workers : pc[w] = "refund" => placed[job[w].session] = 0
  BY <1>i, <1>t DEF ClaimInv, ClaimShows, RetryIsOwed, PlacedShows, HoldsClaim, Claimed,
     BackStatuses
<1>o. \A w \in Workers : pc[w] = "write" =>
         placed[job[w].session] = 0 /\ refunded[job[w].payment] = 0
  <2> SUFFICES ASSUME NEW w \in Workers, pc[w] = "write"
               PROVE  placed[job[w].session] = 0 /\ refunded[job[w].payment] = 0
    OBVIOUS
  <2>1. HoldsClaim(w, job[w].session)
    BY <1>i DEF ClaimInv, RetryIsOwed, HoldsClaim, Claimed, Marking
  <2>2. status[job[w].session] = "FINALIZING"
    BY <2>1, <1>i, <1>t DEF ClaimInv, ClaimShows
  <2>3. \A v \in Workers : HoldsClaim(v, job[w].session) => v = w
    BY <2>1, <1>i, <1>t DEF ClaimInv, ClaimIsExclusive
  <2>4. ~(refunded[job[w].payment] > 0)
    BY <2>2, <2>3, <1>p, <1>i DEF RefundInv, BackStatuses, Marking
  <2> QED
    BY <2>2, <2>4, <1>p, <1>i, <1>t DEF ClaimInv, PlacedShows, TypeOK, GatewayTypes
<1>n. \A s \in Sessions : Settlement!Take(s) \/ Settlement!Place(s) \/ Settlement!Return(s)
                          => Settlement!Next
  BY DEF Settlement!Next
<1>s. \A p \in Payments : SessionOf[p] \in Sessions
  OBVIOUS
<1>1. ASSUME NEW p \in Payments, NEW a \in PaidAmounts, Attempt(p, a)
      PROVE  UNCHANGED Settlement!vars
  <2>1. \A q \in Payments : /\ (pay'[q] = "captured") <=> (pay[q] = "captured")
                            /\ pay[q] = "captured" => refunded'[q] = refunded[q]
                                                      /\ paidAmt'[q] = paidAmt[q]
    BY <1>1, <1>i DEF Attempt, TypeOK, GatewayTypes
  <2>2. UNCHANGED placed
    BY <1>1 DEF Attempt, rows
  <2> QED
    BY <2>1, <2>2, MoneyKept, QuietStep DEF PaymentsOf
<1>2. ASSUME NEW p \in Payments, NEW o \in PayStates, Resolve(p, o)
      PROVE  Settlement!Next \/ UNCHANGED Settlement!vars
  <2>1. CASE o = "captured"
    BY <2>1, <1>2, <1>i, <1>n, <1>s, TakeStep DEF Resolve, rows
  <2>2. CASE o # "captured"
    <3>1. \A q \in Payments : (pay'[q] = "captured") <=> (pay[q] = "captured")
      BY <2>2, <1>2, <1>i DEF Resolve, TypeOK, GatewayTypes
    <3>2. UNCHANGED <<placed, refunded, paidAmt>>
      BY <1>2 DEF Resolve, rows
    <3> QED
      BY <3>1, <3>2, MoneyKept, QuietStep DEF PaymentsOf
  <2> QED
    BY <2>1, <2>2
<1>3. ASSUME NEW w \in Workers, pc[w] = "capture",
             pay' = [pay EXCEPT ![job[w].payment] = "captured"],
             UNCHANGED <<placed, paidAmt, refunded>>
      PROVE  Settlement!Next \/ UNCHANGED Settlement!vars
  <2>1. CASE pay[job[w].payment] = "captured"
    <3>1. pay' = pay
      BY <2>1, <1>3, <1>i DEF TypeOK, GatewayTypes
    <3> QED
      BY <3>1, <1>3, <1>q
  <2>2. CASE pay[job[w].payment] = "authorized"
    BY <2>2, <1>3, <1>i, <1>n, <1>p, <1>s, TakeStep
  <2> QED
    BY <2>1, <2>2, <1>3, <1>p
<1>4. ASSUME NEW w \in Workers, Capture(w)
      PROVE  Settlement!Next \/ UNCHANGED Settlement!vars
  BY <1>4, <1>3 DEF Capture, rows
<1>5. ASSUME NEW w \in Workers, CaptureFails(w)
      PROVE  Settlement!Next \/ UNCHANGED Settlement!vars
  BY <1>5, <1>3, <1>q DEF CaptureFails, rows
<1>6. ASSUME NEW w \in Workers, pc[w] = "refund",
             Refundable(job[w].payment, job[w].amount),
             refunded' = [refunded EXCEPT ![job[w].payment] = @ + job[w].amount],
             UNCHANGED <<placed, paidAmt, pay>>
      PROVE  Settlement!Next \/ UNCHANGED Settlement!vars
  BY <1>6, <1>i, <1>n, <1>p, <1>r, <1>s, <1>t, ReturnsStep
<1>7. ASSUME NEW w \in Workers, Refund(w)
      PROVE  Settlement!Next \/ UNCHANGED Settlement!vars
  BY <1>7, <1>6, <1>q DEF Refund, rows
<1>8. ASSUME NEW w \in Workers, RefundFails(w)
      PROVE  Settlement!Next \/ UNCHANGED Settlement!vars
  BY <1>8, <1>6, <1>q DEF RefundFails, rows
<1>9. ASSUME NEW w \in Workers, WriteOrder(w)
      PROVE  Settlement!Next
  <2>1. /\ pc[w] = "write"
        /\ placed' = [placed EXCEPT ![job[w].session] = @ + 1]
        /\ UNCHANGED <<pay, paidAmt, refunded>>
    BY <1>9 DEF WriteOrder, WriteCommits, gateway
  <2> QED
    BY <2>1, <1>i, <1>n, <1>o, <1>p, <1>s, PlaceStep
<1>10. ASSUME NEW w \in Workers, WriteThrows(w)
       PROVE  UNCHANGED Settlement!vars
  BY <1>10, <1>q DEF WriteThrows, gateway
<1>11. ASSUME NEW w \in Workers,
              \/ SessionOpened(w) \/ LookUp(w) \/ Expire(w) \/ ReadSession(w)
              \/ MarkSessionFailed(w) \/ Claim(w) \/ WriteRefused(w) \/ HandBack(w)
              \/ MarkRefund(w) \/ Reply(w) \/ OpeningFailed(w) \/ LookUpFails(w) \/ Crash(w)
       PROVE  UNCHANGED Settlement!vars
  BY <1>11, <1>q DEF SessionOpened, LookUp, Expire, ReadSession, MarkSessionFailed, Claim,
     WriteRefused, HandBack, MarkRefund, Reply, OpeningFailed, LookUpFails, Crash, rows, gateway
<1>12. ASSUME NEW w, Request(w) \/ Pass(w)
       PROVE  UNCHANGED Settlement!vars
  BY <1>12, <1>q DEF Request, Pass, StartSession, ConfirmRazorpay, RazorpayWebhook, PayuReturn,
     LookAt, RetryRefund, rows, gateway
<1>13. ASSUME NEW s \in Sessions, Age(s) \/ ReportPaymentFailed(s)
       PROVE  UNCHANGED Settlement!vars
  BY <1>13, <1>q DEF Age, ReportPaymentFailed, gateway
<1>14. CASE ReopenStuck \/ UNCHANGED vars
  BY <1>14, <1>q DEF ReopenStuck, vars, rows, gateway
<1> QED
  BY <1>1, <1>2, <1>4, <1>5, <1>7, <1>8, <1>9, <1>10, <1>11, <1>12, <1>13, <1>14
     DEF Next, Customer, Step, Failure

-----------------------------------------------------------------------------
(* The theorems.                                                           *)

\* The variables only ever hold what the code puts in them, whatever faults
\* the gateway, the database and the process meet.
THEOREM Typing == Spec => []TypeOK
<1>1. Init => TypeOK
  BY InitIInv DEF IInv
<1> QED
  BY <1>1, TypeInductive, PTL DEF Spec

\* If no answer to a COMMIT is lost and no process dies between a refund and
\* its record, then one payment places one order at most, on captured money of
\* exactly its amount, and no session has both its order and its money back.
THEOREM OnePaymentOneOrder ==
    ASSUME ~AckLoss, CrashAt \cap Marking = {}
    PROVE  Spec => [](/\ OneOrderPerSession /\ NeverOrderAndRefund
                      /\ OrderHasItsMoney /\ ClaimIsExclusive)
BY InitIInv, IInvStep, IInvImplies, PTL DEF Spec

\* If moreover no money arrives once a session's time is over, a session that
\* expired was not paid: with the rest, its money is accounted for.
THEOREM MoneyAccountedFor ==
    ASSUME ~AckLoss, CrashAt \cap Marking = {}, ~LatePayments
    PROVE  Spec => []MoneyIsAccountedFor
<1>1. IInv /\ ExpiryInv /\ [Next]_vars => ExpiryInv'
  BY ExpiryStep DEF IInv
<1>2. IInv /\ ExpiryInv => MoneyIsAccountedFor
  BY IInvImplies DEF ExpiryInv, Unpaid, MoneyIsAccountedFor, ExpiredMeansUnpaid
<1> QED
  BY <1>1, <1>2, IInvStep, InitIInv, InitReasons, PTL DEF Spec

\* Whatever overlaps, fails or arrives late, what the code does with money is
\* what PaymentSettlement promises: taken once, then one order or the money back.
THEOREM Refinement ==
    ASSUME ~AckLoss, CrashAt \cap Marking = {}
    PROVE  Spec => ImplementsSettlement
<1>1. ASSUME Init
      PROVE  Settlement!Init
  <2>1. \A s \in Sessions : MoneyOf(s) = "none"
    BY <1>1 DEF Init, MoneyOf, Captured, PaymentsOf
  <2>2. ASSUME NEW s \in Sessions
        PROVE  (placed[s] > 0) = FALSE
    BY <1>1 DEF Init
  <2>3. [s \in Sessions |-> placed[s] > 0] = [s \in Sessions |-> FALSE]
    BY <2>2, Zenon
  <2> QED
    BY <2>1, <2>3 DEF Settlement!Init
<1> QED
  BY <1>1, IInvBooks, SettlementStep, PTL
     DEF Spec, ImplementsSettlement, Settlement!Spec

\* Where attempts pay the price and passes of the cron do not overlap, a settled
\* session stays as it was settled, one marked REFUNDED had all of its money
\* returned, and the whole implements PaymentSettlement.
THEOREM SettledForGood ==
    ASSUME ~AckLoss, CrashAt \cap Marking = {}, PaidAmounts \subseteq {Price},
           \A v, w \in Passes : v = w
    PROVE  Spec => SettledSideBySide
<1>1. IInv /\ BooksInv /\ ReturnInv /\ [Next]_vars => ReturnInv'
  BY ReturnStep DEF IInv
<1>2. IInv /\ ReturnInv /\ [Next]_vars
         => \A s \in Sessions : status[s] \in {"ORDER_CREATED", "REFUNDED"}
                                  => status'[s] = status[s]
  BY SettledStays DEF IInv
<1>3. ReturnInv => RefundedInFull
  BY DEF ReturnInv
<1>4. Spec => [](IInv /\ BooksInv /\ ReturnInv)
  BY <1>1, IInvBooks, InitReasons, PTL DEF Spec
<1>5. Spec => SettledIsFinal
  BY <1>2, <1>4, PTL DEF Spec, SettledIsFinal
<1>6. Spec => [][RefundedInFull']_vars
  BY <1>3, <1>4, PTL
<1> QED
  BY <1>5, <1>6, Refinement DEF SettledSideBySide
=============================================================================
