---------------------------- MODULE DecisionProofs ---------------------------
(***************************************************************************)
(* What a payment and a release can do to each other.  A reservation whose *)
(* user never had two requests that decide about it in flight together has *)
(* one decider at a time, so what that one read still stands when it       *)
(* writes.  Nothing is assumed of clients: overlapped holds the            *)
(* reservations the theorems do not speak of.                              *)
(***************************************************************************)
EXTENDS RequestProofs

\* Nobody has decided about the reservation: only its time may have run out.
Undecided(r) == rows[r].status \in {"HELD", "EXPIRED"}

\* No outcome of a reservation has been reported.
Unreported(r) ==
  outbox[r]["reservation_confirmed"] = 0 /\ outbox[r]["reservation_failed"] = 0

Noted == \A r \in Rid : Contended(r) => r \in overlapped

\* Whoever is about to pay for a reservation owns it.
PayersOwn == \A p \in PayReq : preq[p].pc = "write" => rows[preq[p].rid].user = preq[p].user

\* Whoever is about to decide has the reservation undecided.
Deciding == \A r \in Alone : Writing(r) => Undecided(r)

Settled(r) ==
  /\ payments[r] = "SUCCEEDED" <=> rows[r].status = "CONFIRMED"
  /\ outbox[r]["reservation_confirmed"] + outbox[r]["reservation_failed"] <= 1
  /\ rows[r].status \in {"NONE", "HELD", "EXPIRED"} => Unreported(r)

DecisionInv == OwnInv /\ Noted /\ PayersOwn /\ Deciding /\ \A r \in Alone : Settled(r)

LEMMA OwnTypes ==
  ASSUME OwnInv
  PROVE  /\ sreq \in [SeatReq -> SeatRequest] /\ preq \in [PayReq -> PayRequest]
         /\ rows \in [Rid -> Reservation] /\ payments \in [Rid -> PaymentStatus]
         /\ outbox \in [Rid -> [EventType -> Nat]] /\ SeatShape /\ PayShape /\ LockInv
BY DEF OwnInv, RealInv, LockInv, Typing, ServicesTypeOK, DBTypeOK, HoldsTypeOK, PayTypeOK

-----------------------------------------------------------------------------
(* What a step decides. *)

\* A step that decides nothing: rows stay, lapse, or come to be held.
Idle(r) ==
  \/ rows'[r].status = rows[r].status
  \/ rows[r].status = "HELD" /\ rows'[r].status = "EXPIRED"
  \/ rows[r].status = "NONE" /\ rows'[r].status = "HELD"

\* The four ways to decide, or to write a payment, and everything else.
LEMMA StepKinds ==
  ASSUME OwnInv, [Next]_vars
  PROVE  \/ \E q \in SeatReq : CancelWrite(q) /\ UNCHANGED preq
         \/ \E p \in PayReq : /\ ConfirmSuccess(p) \/ ConfirmFail(p) \/ PaymentOnly(p)
                             /\ UNCHANGED sreq
         \/ UNCHANGED <<payments, outbox>> /\ \A r \in Rid : Idle(r)
<1> DEFINE Rest == UNCHANGED <<payments, outbox>> /\ \A r \in Rid : Idle(r)
<1>0. rows \in [Rid -> Reservation]
  BY OwnTypes
<1>1. ASSUME UNCHANGED <<rows, payments, outbox>> PROVE Rest
  BY <1>1 DEF Idle
<1>2. ASSUME NEW R, \A r \in R : rows[r].status = "HELD", rows' = WithStatus(R, "EXPIRED"),
             UNCHANGED <<payments, outbox>>
      PROVE  Rest
  BY <1>0, <1>2 DEF Idle, WithStatus, Reservation
<1>3. ASSUME NEW q \in SeatReq, HoldStep(q), ~CancelWrite(q) PROVE Rest
  <2>1. \A x \in LocksOf(q) : rows[x].status = "HELD"
    BY OwnTypes, OwnFlipsLapsed
  <2>2. CommitFlips(q) => Rest
    BY <1>2, <2>1 DEF CommitFlips
  <2>3. ASSUME NEW r \in Rid, ~Exists(r), UNCHANGED <<payments, outbox>>,
               rows' = [WithStatus(LocksOf(q), "EXPIRED") EXCEPT ![r] = NewRow(q)]
        PROVE  Rest
    BY <1>0, <2>1, <2>3 DEF Idle, WithStatus, Reservation, NewRow, Exists
  <2>4. Insert(q) => Rest
    BY <1>1, <2>3 DEF Insert, Rollback
  <2>5. Replay(q) \/ FindExisting(q) \/ CountHeld(q) => Rest
    BY <1>1, <2>2 DEF Replay, FindExisting, CountHeld, Rollback, OnlyReads, dbVars
  <2>6. LazyExpire(q) \/ LazyFlip(q) \/ Created(q) \/ Winner(q) \/ CancelRead(q) \/ Released(q)
          \/ Reply(q) \/ DeadlockVictim(q) => Rest
    BY <1>1
    DEF LazyExpire, LazyFlip, Created, Winner, CancelRead, Released, Reply, DeadlockVictim, Rollback,
        OnlyReads, dbVars
  <2> QED BY <1>3, <2>4, <2>5, <2>6 DEF HoldStep
<1>4. ASSUME NEW i \in Inst, ExpiryStep(i) PROVE Rest
  <2>1. ASSUME NEW r \in Rid, TimerFire(i, r) PROVE Rest
    BY <1>1, <1>2, <2>1 DEF TimerFire, TimerGuard
  <2>2. SweepUpdate(i) => Rest
    BY <1>2 DEF SweepUpdate, StaleAt
  <2> QED
    BY <1>1, <1>4, <2>1, <2>2
    DEF ExpiryStep, TimerFail, TimerPublish, SweepLock, SweepFail, SweepPublish, SweepUnlock,
        SweepUnlockFail, dbVars
<1>5. ASSUME NEW p \in PayReq, PayStep(p) \/ PayAbort(p),
             ~(ConfirmSuccess(p) \/ ConfirmFail(p) \/ PaymentOnly(p))
      PROVE  Rest
  BY <1>1, <1>5 DEF PayStep, PayRead, ConfirmConflict, PayAbort, dbVars
<1>6. ASSUME Call \/ Clock \/ (\E q \in SeatReq : Abort(q)) \/ (\E i \in Inst : Crash(i))
             \/ UNCHANGED vars
      PROVE  Rest
  BY <1>1, <1>6
  DEF Call, BeginHold, BeginCancel, BeginPay, Clock, Tick, Abort, Crash, OnlyReads, vars, dbVars
<1> QED BY <1>3, <1>4, <1>5, <1>6 DEF Next, SeatSvc, PaymentSvc, seatVars

\* A request about to write a payment has been about to since, or has just read
\* its own hold.
LEMMA PayerOwns ==
  ASSUME OwnInv, PayersOwn, [Next]_vars, NEW p \in PayReq, preq'[p].pc = "write"
  PROVE  /\ preq'[p].rid \in Rid /\ rows'[preq'[p].rid].user = preq'[p].user
         /\ preq'[p] = preq[p] \/ PayRead(p)
<1>0. preq \in [PayReq -> PayRequest] /\ PayShape /\ RealInv /\ TableStep
  BY OwnTypes, NextTable DEF OwnInv, RealInv
<1>1. preq'[p] = preq[p] \/ PayRead(p)
  <2>1. ASSUME NEW x \in PayReq, PayStep(x) \/ PayAbort(x) PROVE preq'[p] = preq[p] \/ PayRead(p)
    <3>1. EndPay(x) => preq'[p] = preq[p]
      BY <1>0 DEF EndPay, NoPayRequest
    <3>2. PayRead(x) => preq'[p] = preq[p] \/ PayRead(p)
      BY <1>0 DEF PayRead, EndPay
    <3> QED
      BY <2>1, <3>1, <3>2
      DEF PayStep, PaymentOnly, ConfirmSuccess, ConfirmConflict, ConfirmFail, PayAbort
  <2>2. Call => preq'[p] = preq[p]
    BY <1>0 DEF Call, BeginPay, PayRequest
  <2> QED BY <2>1, <2>2 DEF Next, SeatSvc, PaymentSvc, Clock, vars
<1>2. /\ preq'[p].rid = preq[p].rid /\ preq'[p].user = preq[p].user
      /\ preq[p].pc # "idle" /\ rows[preq[p].rid].user = preq[p].user
  <2>1. CASE preq'[p] = preq[p]
    BY <2>1 DEF PayersOwn
  <2>2. CASE PayRead(p)
    <3>1. Payable(p) /\ preq' = [preq EXCEPT ![p].pc = "write", ![p].now = 0] /\ preq[p].pc = "read"
      BY <1>0, <2>2 DEF PayRead, EndPay, NoPayRequest
    <3> QED BY <1>0, <3>1 DEF PayRequest, Payable
  <2> QED BY <1>1, <2>1, <2>2
<1>3. preq[p].rid \in Rid /\ preq[p].user \in User
  BY <1>0, <1>2 DEF PayShape
<1>4. Exists(preq[p].rid)
  BY <1>2, <1>3 DEF OwnInv, Vacant
<1>5. rows'[preq[p].rid].user = rows[preq[p].rid].user
  BY <1>0, <1>3, <1>4, RowKept
<1> QED BY <1>1, <1>2, <1>3, <1>5

\* Of two that could decide about such a reservation there is only one.
LEMMA OneDecider ==
  ASSUME DecisionInv, NEW r \in Alone
  PROVE  /\ \A q1, q2 \in SeatReq :
              /\ sreq[q1].pc = "release" /\ sreq[q1].rid = r
              /\ sreq[q2].pc = "release" /\ sreq[q2].rid = r
              => q1 = q2
         /\ \A p1, p2 \in PayReq :
              /\ preq[p1].pc = "write" /\ preq[p1].rid = r
              /\ preq[p2].pc = "write" /\ preq[p2].rid = r
              => p1 = p2
         /\ \A p \in PayReq, q \in SeatReq :
              ~(preq[p].pc = "write" /\ preq[p].rid = r /\ sreq[q].pc = "release" /\ sreq[q].rid = r)
<1>0. /\ SeatShape /\ PayShape /\ Own /\ PayersOwn /\ r \in Rid
      /\ ~Contended(r)
  BY OwnTypes DEF DecisionInv, OwnInv, Alone, Noted
<1>1. \A q \in SeatReq : sreq[q].pc = "release" /\ sreq[q].rid = r =>
        rows[r].user \in User /\ Releasing(q, rows[r].user, r)
  BY <1>0 DEF SeatShape, Own, Holding, Releasing
<1>2. \A p \in PayReq : preq[p].pc = "write" /\ preq[p].rid = r =>
        rows[r].user \in User /\ Paying(p, rows[r].user, r)
  BY <1>0 DEF PayShape, PayersOwn, Paying
<1> QED BY <1>0, <1>1, <1>2 DEF Contended

\* Whether a step decides about r or not, whoever goes on to decide about it
\* was to decide about it before, or has just read it as a hold.
LEMMA DecidingStep ==
  ASSUME DecisionInv, [Next]_vars, NEW r \in Alone, Writing(r)'
  PROVE  Undecided(r)'
<1>0. /\ sreq \in [SeatReq -> SeatRequest] /\ preq \in [PayReq -> PayRequest] /\ LockInv
      /\ rows \in [Rid -> Reservation] /\ SeatShape /\ PayShape /\ r \in Rid
  BY OwnTypes DEF DecisionInv, Alone
<1>2. Undecided(r)
  BY <1>0, NextWriting DEF DecisionInv, Deciding, Undecided
<1>3. ASSUME rows'[r] = rows[r] \/ Idle(r) PROVE Undecided(r)'
  BY <1>2, <1>3 DEF Undecided, Idle
<1>4. ASSUME NEW q \in SeatReq, CancelWrite(q), UNCHANGED preq PROVE Undecided(r)'
  <2>1. CASE r = sreq[q].rid
    <3>1. /\ sreq[q].pc = "release" /\ sreq'[q].pc = "released"
          /\ \A x \in SeatReq : x # q => sreq'[x] = sreq[x]
      BY <1>0, <1>4 DEF CancelWrite, Goto, SeatRequest
    <3>2. ~Writing(r)'
      BY <1>4, <2>1, <3>1, OneDecider DEF Writing
    <3> QED BY <3>2
  <2>2. CASE r # sreq[q].rid
    <3>1. rows'[r] = rows[r]
      BY <1>0, <1>4, <2>2 DEF CancelWrite, WithStatus
    <3> QED BY <1>3, <3>1
  <2> QED BY <2>1, <2>2
<1>5. ASSUME NEW p \in PayReq, ConfirmSuccess(p) \/ ConfirmFail(p) \/ PaymentOnly(p), UNCHANGED sreq
      PROVE  Undecided(r)'
  <2>1. CASE PaymentOnly(p)
    BY <1>3, <2>1 DEF PaymentOnly
  <2>2. CASE r = preq[p].rid
    <3>1. /\ preq[p].pc = "write" /\ preq'[p].pc = "idle"
          /\ \A x \in PayReq : x # p => preq'[x] = preq[x]
      BY <1>0, <1>5 DEF ConfirmSuccess, ConfirmFail, PaymentOnly, EndPay, NoPayRequest
    <3>2. ~Writing(r)'
      BY <1>5, <2>2, <3>1, OneDecider DEF Writing
    <3> QED BY <3>2
  <2>3. CASE r # preq[p].rid /\ ~PaymentOnly(p)
    <3>1. rows'[r] = rows[r]
      BY <1>0, <1>5, <2>3 DEF ConfirmSuccess, ConfirmFail, WithStatus
    <3> QED BY <1>3, <3>1
  <2> QED BY <2>1, <2>2, <2>3
<1> QED BY <1>0, <1>3, <1>4, <1>5, StepKinds DEF DecisionInv

-----------------------------------------------------------------------------
(* Decisions and their reports. *)

LEMMA SettledStep ==
  ASSUME DecisionInv, [Next]_vars, NEW r \in Alone
  PROVE  Settled(r)' /\ (rows[r].status = "CONFIRMED" => rows'[r].status = "CONFIRMED")
<1> DEFINE Steady == rows[r].status = "CONFIRMED" => rows'[r].status = "CONFIRMED"
<1>0. /\ sreq \in [SeatReq -> SeatRequest] /\ preq \in [PayReq -> PayRequest]
      /\ rows \in [Rid -> Reservation] /\ payments \in [Rid -> PaymentStatus]
      /\ outbox \in [Rid -> [EventType -> Nat]] /\ SeatShape /\ PayShape
      /\ r \in Rid /\ Settled(r)
  BY OwnTypes DEF DecisionInv, Alone
<1>1. ASSUME payments'[r] = payments[r], outbox'[r] = outbox[r], Idle(r) PROVE Settled(r)' /\ Steady
  BY <1>0, <1>1 DEF Idle, Settled, Unreported
<1>2. ASSUME NEW q \in SeatReq, CancelWrite(q) PROVE Settled(r)' /\ Steady
  <2>1. rows'[r].status = IF r = sreq[q].rid THEN "CANCELLED" ELSE rows[r].status
    BY <1>0, <1>2 DEF CancelWrite, WithStatus, Reservation
  <2>2. UNCHANGED <<payments, outbox>>
    BY <1>2 DEF CancelWrite
  <2>3. CASE r = sreq[q].rid
    <3>1. Undecided(r)
      BY <1>0, <1>2, <2>3 DEF CancelWrite, DecisionInv, Deciding, Writing
    <3> QED BY <1>0, <2>1, <2>2, <2>3, <3>1 DEF Undecided, Settled, Unreported
  <2>4. CASE r # sreq[q].rid
    BY <1>1, <2>1, <2>2, <2>4 DEF Idle
  <2> QED BY <2>3, <2>4
<1>3. ASSUME NEW p \in PayReq, ConfirmSuccess(p) \/ ConfirmFail(p) \/ PaymentOnly(p)
      PROVE  Settled(r)' /\ Steady
  <2>1. CASE r # preq[p].rid
    <3>1. payments'[r] = payments[r] /\ outbox'[r] = outbox[r] /\ rows'[r] = rows[r]
      BY <1>0, <1>3, <2>1
      DEF ConfirmSuccess, ConfirmFail, PaymentOnly, SetPayment, Enqueue, WithStatus
    <3> QED BY <1>1, <3>1 DEF Idle
  <2>2. CASE r = preq[p].rid
    <3>1. /\ Undecided(r) /\ Unreported(r) /\ payments[r] # "SUCCEEDED"
      BY <1>0, <1>3, <2>2
      DEF ConfirmSuccess, ConfirmFail, PaymentOnly, DecisionInv, Deciding, Writing, Undecided, Settled
    <3>2. payments'[r] = PaymentStatusFor(preq[p].kind)
      BY <1>0, <1>3, <2>2 DEF ConfirmSuccess, ConfirmFail, PaymentOnly, SetPayment
    <3>3. CASE ConfirmSuccess(p)
      <4>1. rows'[r].status = "CONFIRMED" /\ payments'[r] = "SUCCEEDED"
        BY <1>0, <2>2, <3>2, <3>3 DEF ConfirmSuccess, WithStatus, Reservation, PaymentStatusFor
      <4>2. /\ outbox'[r]["reservation_confirmed"] = 1 /\ outbox'[r]["reservation_failed"] = 0
        BY <1>0, <2>2, <3>1, <3>3 DEF ConfirmSuccess, Enqueue, EventType, Unreported
      <4> QED BY <4>1, <4>2 DEF Settled
    <3>4. CASE ConfirmFail(p)
      <4>1. rows'[r].status = "FAILED" /\ payments'[r] = "FAILED"
        BY <1>0, <2>2, <3>2, <3>4 DEF ConfirmFail, WithStatus, Reservation, PaymentStatusFor
      <4>2. /\ outbox'[r]["reservation_confirmed"] = 0 /\ outbox'[r]["reservation_failed"] = 1
        BY <1>0, <2>2, <3>1, <3>4 DEF ConfirmFail, Enqueue, EventType, Unreported
      <4> QED BY <3>1, <4>1, <4>2 DEF Settled, Undecided
    <3>5. CASE PaymentOnly(p)
      <4>1. UNCHANGED <<rows, outbox>> /\ payments'[r] # "SUCCEEDED"
        BY <3>2, <3>5 DEF PaymentOnly, PaymentStatusFor
      <4> QED BY <1>0, <3>1, <4>1 DEF Settled, Undecided, Unreported
    <3> QED BY <1>3, <3>3, <3>4, <3>5
  <2> QED BY <2>1, <2>2
<1> QED BY <1>0, <1>1, <1>2, <1>3, StepKinds DEF DecisionInv

LEMMA DecisionInvariant == Spec => []DecisionInv
<1>1. Init => DecisionInv
  <2> SUFFICES ASSUME Init PROVE DecisionInv
    OBVIOUS
  <2>1. OwnInv
    <3>1. RealInv
      BY InitIsLedger
    <3> QED BY <3>1, NoneAssumption
        DEF OwnInv, Init, DBInit, HoldsInit, Absent, NoSeatRequest, Vacant, Own, Holding
  <2>2. Noted /\ PayersOwn /\ Deciding
    BY DEF Init, HoldsInit, PayInit, NoSeatRequest, NoPayRequest, Noted, Contended,
           Releasing, Paying, PayersOwn, Deciding, Writing
  <2>3. \A r \in Alone : Settled(r)
    BY DEF Init, DBInit, Absent, EventType, Settled, Unreported, Alone
  <2> QED BY <2>1, <2>2, <2>3 DEF DecisionInv
<1>2. DecisionInv /\ [Next]_vars => DecisionInv'
  <2> SUFFICES ASSUME DecisionInv, [Next]_vars PROVE DecisionInv'
    OBVIOUS
  <2>1. \A r \in Alone' : r \in Alone
    BY NextNoted DEF vars, Alone
  <2>2. OwnInv'
    BY NextOwn DEF DecisionInv
  <2>3. Noted'
    <3>1. CASE overlapped' = overlapped \cup {r \in Rid : Contended(r)'}
      BY <3>1 DEF Noted
    <3>2. CASE UNCHANGED vars
      BY <3>2 DEF vars, seatVars, DecisionInv, Noted, Contended, Releasing, Paying
    <3> QED BY <3>1, <3>2, NextNoted
  <2>4. PayersOwn'
    BY PayerOwns DEF DecisionInv, PayersOwn
  <2>5. Deciding'
    BY <2>1, DecidingStep DEF Deciding
  <2>6. \A r \in Alone' : Settled(r)'
    BY <2>1, SettledStep
  <2> QED BY <2>2, <2>3, <2>4, <2>5, <2>6 DEF DecisionInv
<1> QED BY <1>1, <1>2, PTL DEF Spec

(* The payment has been taken exactly if the reservation is confirmed, unless *)
(* its user's own requests about it overlapped: no expiry, sweep, crash,      *)
(* failed or repeated request, or other user slips between a payment's read   *)
(* and its write.                                                             *)
THEOREM PaymentSettles == Spec => []PaidIffConfirmed
<1>1. DecisionInv => PaidIffConfirmed
  BY DEF DecisionInv, Settled, PaidIffConfirmed
<1> QED BY <1>1, DecisionInvariant, PTL

(* ... and one outcome of it is put into the outbox, once.                   *)
THEOREM OneOutcomeReported == Spec => []OneOutcome
<1>1. DecisionInv => OneOutcome
  BY DEF DecisionInv, Settled, OneOutcome
<1> QED BY <1>1, DecisionInvariant, PTL

(* A confirmed seat is taken back only if its user's own requests about it   *)
(* overlapped.                                                               *)
THEOREM ConfirmationsStay == Spec => ConfirmedStays
<1>1. DecisionInv /\ [Next]_vars =>
        \A r \in Alone : rows[r].status = "CONFIRMED" => rows'[r].status = "CONFIRMED"
  BY SettledStep
<1> QED BY <1>1, DecisionInvariant, PTL DEF Spec, ConfirmedStays
=============================================================================
