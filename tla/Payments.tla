------------------------------ MODULE Payments ------------------------------
(***************************************************************************)
(* The routes of payment-svc (routes/payments.ts): intent and the mock     *)
(* provider's confirm callback.  Each reads the reservation, decides, and  *)
(* writes in the same transaction; at READ COMMITTED nothing ties the      *)
(* write to what was read.  A member of PayReq is a request being served.  *)
(***************************************************************************)
EXTENDS BookingDB

CONSTANT PayReq  \* requests payment-svc may be serving at one time (a bound)

VARIABLE preq    \* the payment-svc requests in flight

PayKind == {"intent", "success", "fail", "timeout"}  \* the last three are ?outcome=

PayRequest == [pc : {"idle", "read", "write"}, kind : PayKind \cup {None},
               user : User \cup {None}, rid : Rid \cup {None}, now : 0 .. MaxClock]

NoPayRequest == [pc |-> "idle", kind |-> None, user |-> None, rid |-> None, now |-> 0]

PayTypeOK == preq \in [PayReq -> PayRequest]

PayInit == preq = [p \in PayReq |-> NoPayRequest]

EndPay(p) == preq' = [preq EXCEPT ![p] = NoPayRequest]

BeginPay(p, u, r, kind) ==
  /\ preq[p].pc = "idle"
  /\ preq' = [preq EXCEPT ![p] = [pc |-> "read", kind |-> kind, user |-> u,
                                  rid |-> r, now |-> clock]]
  /\ UNCHANGED dbVars

\* Mutant: a confirmed reservation can be paid again.
PayableAgain(p) ==
  LET row == rows[preq[p].rid] IN
  /\ row.user = preq[p].user
  /\ row.status \in {"HELD", "CONFIRMED"}
  /\ preq[p].kind # "intent" => payments[preq[p].rid] # "NONE"

\* The hold is the caller's, current, and (to confirm it) has a payment.
Payable(p) ==
  LET row == rows[preq[p].rid] IN
  /\ row.user = preq[p].user
  /\ row.status = "HELD"
  /\ row.expires > preq[p].now
  /\ preq[p].kind # "intent" => payments[preq[p].rid] # "NONE"

\* Refused (404, 409) or already CONFIRMED: nothing is written.  The EXPIRED
\* status an expired hold is given is rolled back by the throw that follows it.
PayRead(p) ==
  /\ preq[p].pc = "read"
  /\ \/ Payable(p) /\ preq' = [preq EXCEPT ![p].pc = "write", ![p].now = 0]
     \/ ~Payable(p) /\ EndPay(p)
  /\ UNCHANGED dbVars

PaymentStatusFor(kind) ==
  CASE kind = "intent" -> "PENDING" [] kind = "success" -> "SUCCEEDED"
    [] kind = "fail" -> "FAILED"    [] kind = "timeout" -> "TIMEOUT"

SetPayment(p) ==
  payments' = [payments EXCEPT ![preq[p].rid] = PaymentStatusFor(preq[p].kind)]

Enqueue(r, e) == outbox' = [outbox EXCEPT ![r][e] = @ + 1]

\* Mutant: a timed-out payment puts the reservation back to HELD.
TimeoutReholds(p) ==
  /\ preq[p].pc = "write" /\ preq[p].kind \in {"intent", "timeout"}
  /\ locks[preq[p].rid] = None
  /\ SetPayment(p) /\ EndPay(p)
  /\ rows' = WithStatus({preq[p].rid}, "HELD")
  /\ UNCHANGED <<clock, locks, outbox>>

\* intent's upsert, and confirm?outcome=timeout: the reservation is not written.
PaymentOnly(p) ==
  /\ preq[p].pc = "write" /\ preq[p].kind \in {"intent", "timeout"}
  /\ SetPayment(p) /\ EndPay(p)
  /\ UNCHANGED <<clock, rows, locks, outbox>>

ConfirmSuccess(p) ==
  /\ preq[p].pc = "write" /\ preq[p].kind = "success"
  /\ locks[preq[p].rid] = None
  /\ ~SeatConflictOf(preq[p].rid)
  /\ SetPayment(p) /\ Enqueue(preq[p].rid, "reservation_confirmed")
  /\ rows' = WithStatus({preq[p].rid}, "CONFIRMED")
  /\ EndPay(p)
  /\ UNCHANGED <<clock, locks>>

\* The hold lapsed after the read and its seat is another reservation's: the
\* partial unique index refuses the update and everything is rolled back.
ConfirmConflict(p) ==
  /\ preq[p].pc = "write" /\ preq[p].kind = "success"
  /\ rows[preq[p].rid].status \notin Active
  /\ \E r \in IndexEntries(rows[preq[p].rid].seat) : locks[r] = None
  /\ EndPay(p)
  /\ UNCHANGED dbVars

ConfirmFail(p) ==
  /\ preq[p].pc = "write" /\ preq[p].kind = "fail"
  /\ locks[preq[p].rid] = None
  /\ SetPayment(p) /\ Enqueue(preq[p].rid, "reservation_failed")
  /\ rows' = WithStatus({preq[p].rid}, "FAILED")
  /\ EndPay(p)
  /\ UNCHANGED <<clock, locks>>

\* The transaction fails, or payment-svc dies: rolled back, no answer.
PayAbort(p) ==
  /\ preq[p].pc # "idle"
  /\ EndPay(p)
  /\ UNCHANGED dbVars

PayStep(p) ==
  PayRead(p) \/ PaymentOnly(p) \/ ConfirmSuccess(p) \/ ConfirmConflict(p) \/ ConfirmFail(p)
=============================================================================
