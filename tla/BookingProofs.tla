---------------------------- MODULE BookingProofs ---------------------------
(***************************************************************************)
(* Theorems about Booking for every number of seats, users, requests and   *)
(* instances, every TTL, limit and bound.                                  *)
(***************************************************************************)
EXTENDS Booking, TLAPS

(* What a request in flight carries, given where it is. *)
SeatShape ==
  \A q \in SeatReq :
    /\ sreq[q].pc # "idle" => sreq[q].user \in User /\ sreq[q].inst \in Inst \cup {None}
    /\ sreq[q].pc \in {"lazy", "flip", "replay"} => sreq[q].seat \in Seat \cup {UnknownSeat}
    /\ sreq[q].pc \in {"existing", "count", "insert", "created"} => sreq[q].seat \in Seat
    /\ sreq[q].pc \in {"flip", "created", "read", "release", "released", "reply"} => sreq[q].rid \in Rid

PayShape ==
  \A p \in PayReq : preq[p].pc # "idle" =>
    preq[p].kind \in PayKind /\ preq[p].user \in User /\ preq[p].rid \in Rid

Typing == ServicesTypeOK /\ SeatShape /\ PayShape

-----------------------------------------------------------------------------
\* Writing one status into some rows of the table yields a table.
LEMMA WithStatusType ==
  ASSUME rows \in [Rid -> Reservation], NEW R, NEW st \in Status
  PROVE  WithStatus(R, st) \in [Rid -> Reservation]
BY DEF WithStatus, Reservation

\* A publication leaves told a table of counters.
LEMMA PublishType ==
  ASSUME told \in [Rid -> [SeatEvent -> Nat]], NEW R, NEW t \in SeatEvent, Publish(R, t)
  PROVE  told' \in [Rid -> [SeatEvent -> Nat]]
BY DEF Publish

LEMMA InitTyping == Init => Typing
<1> SUFFICES ASSUME Init PROVE Typing
  OBVIOUS
<1> USE DEF Init, SeatPc, HoldPc, NoSeatRequest, NoPayRequest
<1>1. Absent \in Reservation
  BY HoldTtlAssumption, MaxClockAssumption DEF Absent, Reservation, Status, Time
<1>2. DBTypeOK
  BY <1>1, MaxClockAssumption DEF DBInit, DBTypeOK, PaymentStatus
<1>3. ExpiryTypeOK
  <2>1. told \in [Rid -> [SeatEvent -> Nat]]
    <3>1. [t \in SeatEvent |-> 0] \in [SeatEvent -> Nat]
      OBVIOUS
    <3> QED BY <3>1 DEF ExpiryInit
  <2>2. timers \in [Inst -> SUBSET Rid] /\ due \in [Inst -> SUBSET Rid] /\ swept \in [Inst -> SUBSET Rid]
    BY DEF ExpiryInit
  <2> QED BY <2>1, <2>2, MaxFaultsAssumption DEF ExpiryInit, ExpiryTypeOK
<1>4. HoldsTypeOK /\ SeatShape
  BY MaxClockAssumption DEF HoldsInit, HoldsTypeOK, SeatRequest, SeatShape
<1>5. PayTypeOK /\ PayShape
  BY MaxClockAssumption DEF PayInit, PayTypeOK, PayRequest, PayShape
<1> QED BY <1>2, <1>3, <1>4, <1>5 DEF Typing, ServicesTypeOK

\* What the background expirers leave: a typed state, requests untouched.
LEMMA ExpiryTyping ==
  ASSUME Typing, NEW i \in Inst, ExpiryStep(i), UNCHANGED <<sreq, preq>>
  PROVE  Typing'
<1> USE DEF Typing, ServicesTypeOK, DBTypeOK, ExpiryTypeOK, HoldsTypeOK, PayTypeOK, dbVars
<1>0. SeatShape' /\ PayShape' /\ HoldsTypeOK' /\ PayTypeOK'
  BY DEF SeatShape, PayShape
<1>1. ASSUME NEW r \in Rid, TimerFire(i, r) PROVE Typing'
  <2>1. rows' \in [Rid -> Reservation]
    BY <1>1, WithStatusType DEF TimerFire, Status
  <2>2. due' \in [Inst -> SUBSET Rid]
    <3>1. due' = due \/ due' = [due EXCEPT ![i] = @ \cup {r}]
      BY <1>1 DEF TimerFire, TimerGuard
    <3>2. due \in [Inst -> SUBSET Rid] /\ due[i] \cup {r} \in SUBSET Rid
      OBVIOUS
    <3> QED BY <3>1, <3>2
  <2>3. UNCHANGED <<clock, locks, payments, outbox, sweep, swept, holder, extra, told, faults>>
    BY <1>1 DEF TimerFire
  <2>4. timers' \in [Inst -> SUBSET Rid]
    BY <1>1 DEF TimerFire
  <2> QED BY <1>0, <2>1, <2>2, <2>3, <2>4
<1>2. ASSUME NEW r \in Rid, TimerFail(i, r) PROVE Typing'
  <2>1. due' = due \/ due' = [due EXCEPT ![i] = @ \ {r}]
    BY <1>2 DEF TimerFail
  <2>2. timers' = timers \/ timers' = [timers EXCEPT ![i] = @ \ {r}]
    BY <1>2 DEF TimerFail
  <2>3. due' \in [Inst -> SUBSET Rid] /\ timers' \in [Inst -> SUBSET Rid]
    <3>1. due \in [Inst -> SUBSET Rid] /\ due[i] \ {r} \in SUBSET Rid
      OBVIOUS
    <3>2. timers \in [Inst -> SUBSET Rid] /\ timers[i] \ {r} \in SUBSET Rid
      OBVIOUS
    <3>3. due' \in [Inst -> SUBSET Rid]
      BY <2>1, <3>1
    <3>4. timers' \in [Inst -> SUBSET Rid]
      BY <2>2, <3>2
    <3> QED BY <3>3, <3>4
  <2>4. UNCHANGED <<dbVars, sweep, swept, holder, extra, told>> /\ Fault
    BY <1>2 DEF TimerFail
  <2> QED BY <1>0, <2>3, <2>4, MaxFaultsAssumption DEF Fault
<1>3. ASSUME NEW r \in Rid, TimerPublish(i, r) PROVE Typing'
  <2>1. told' \in [Rid -> [SeatEvent -> Nat]]
    BY <1>3, PublishType DEF TimerPublish, SeatEvent
  <2> QED BY <1>0, <1>3, <2>1 DEF TimerPublish
<1>4. CASE SweepLock(i)
  BY <1>0, <1>4 DEF SweepLock
<1>5. CASE SweepUpdate(i)
  <2>1. rows' \in [Rid -> Reservation]
    BY <1>5, WithStatusType DEF SweepUpdate, Status
  <2> QED BY <1>0, <1>5, <2>1 DEF SweepUpdate, StaleAt
<1>6. CASE SweepFail(i)
  BY <1>0, <1>6, MaxFaultsAssumption DEF SweepFail, Fault
<1>7. CASE SweepPublish(i)
  <2>1. told' \in [Rid -> [SeatEvent -> Nat]]
    BY <1>7, PublishType DEF SweepPublish, SeatEvent
  <2> QED BY <1>0, <1>7, <2>1 DEF SweepPublish
<1>8. CASE SweepUnlock(i)
  BY <1>0, <1>8 DEF SweepUnlock
<1>9. CASE SweepUnlockFail(i)
  BY <1>0, <1>9, MaxFaultsAssumption DEF SweepUnlockFail, Fault
<1> QED
  BY <1>1, <1>2, <1>3, <1>4, <1>5, <1>6, <1>7, <1>8, <1>9 DEF ExpiryStep

\* A seat-svc request that is given a new record of the right shape, while the
\* payment requests and the types of everything else are kept.
LEMMA SeatSlotTyping ==
  ASSUME Typing, NEW q \in SeatReq, NEW req \in SeatRequest,
         sreq' = [sreq EXCEPT ![q] = req], UNCHANGED preq,
         req.pc # "idle" => req.user \in User,
         req.pc \in {"lazy", "flip", "replay"} => req.seat \in Seat \cup {UnknownSeat},
         req.pc \in {"existing", "count", "insert", "created"} => req.seat \in Seat,
         req.pc \in {"flip", "created", "read", "release", "released", "reply"} => req.rid \in Rid
  PROVE  HoldsTypeOK' /\ SeatShape' /\ PayTypeOK' /\ PayShape'
<1> USE DEF Typing, ServicesTypeOK, HoldsTypeOK, PayTypeOK, SeatShape, PayShape
<1>1. HoldsTypeOK'
  OBVIOUS
<1>2. SeatShape'
  <2>1. \A x \in SeatReq : sreq'[x] = IF x = q THEN req ELSE sreq[x]
    OBVIOUS
  <2>2. req.inst \in Inst \cup {None}
    BY DEF SeatRequest
  <2> QED BY <2>1, <2>2
<1> QED BY <1>1, <1>2

LEMMA SeatReadTyping ==
  ASSUME Typing, HoldsTypeOK', SeatShape', PayTypeOK', PayShape', OnlyReads
  PROVE  Typing'
BY DEF Typing, ServicesTypeOK, DBTypeOK, ExpiryTypeOK, OnlyReads, dbVars, expiryVars

LEMMA RollbackTyping ==
  ASSUME Typing, HoldsTypeOK', SeatShape', PayTypeOK', PayShape', NEW q, Rollback(q)
  PROVE  Typing'
BY DEF Typing, ServicesTypeOK, DBTypeOK, ExpiryTypeOK, Rollback, Unlocked, NotDB, expiryVars

LEMMA CommitTyping ==
  ASSUME Typing, HoldsTypeOK', SeatShape', PayTypeOK', PayShape', NEW q, CommitFlips(q)
  PROVE  Typing'
<1>1. rows' \in [Rid -> Reservation]
  BY WithStatusType DEF Typing, ServicesTypeOK, DBTypeOK, CommitFlips, Status
<1> QED
  BY <1>1 DEF Typing, ServicesTypeOK, DBTypeOK, ExpiryTypeOK, CommitFlips, Unlocked, NotDB, expiryVars

\* Ending a request, moving it on, and answering it keep its shape.
LEMMA EndShape ==
  ASSUME Typing, NEW q \in SeatReq, End(q), UNCHANGED preq
  PROVE  HoldsTypeOK' /\ SeatShape' /\ PayTypeOK' /\ PayShape'
<1>1. NoSeatRequest \in SeatRequest
  BY MaxClockAssumption DEF NoSeatRequest, SeatRequest, SeatPc
<1> QED BY <1>1, SeatSlotTyping DEF End, NoSeatRequest

LEMMA AnswerShape ==
  ASSUME Typing, NEW q \in SeatReq, NEW r \in Rid, Answer(q, r), sreq[q].pc # "idle", UNCHANGED preq
  PROVE  HoldsTypeOK' /\ SeatShape' /\ PayTypeOK' /\ PayShape'
<1> DEFINE req == [pc |-> "reply", inst |-> None, user |-> sreq[q].user, seat |-> sreq[q].seat,
                  key |-> None, rid |-> r, now |-> 0, todo |-> {}]
<1>1. sreq[q] \in SeatRequest /\ sreq[q].user \in User
  BY DEF Typing, ServicesTypeOK, HoldsTypeOK, SeatShape
<1>2. req \in SeatRequest /\ req.user \in User /\ req.pc = "reply" /\ req.rid = r
  BY <1>1, MaxClockAssumption DEF SeatRequest, SeatPc
<1>3. sreq' = [sreq EXCEPT ![q] = req]
  BY DEF Answer
<1> HIDE DEF req
<1> QED BY <1>2, <1>3, SeatSlotTyping

LEMMA GotoShape ==
  ASSUME Typing, NEW q \in SeatReq, NEW pc \in SeatPc, Goto(q, pc), sreq[q].pc # "idle", UNCHANGED preq,
         pc \in {"lazy", "flip", "replay"} => sreq[q].seat \in Seat \cup {UnknownSeat},
         pc \in {"existing", "count", "insert", "created"} => sreq[q].seat \in Seat,
         pc \in {"flip", "created", "read", "release", "released", "reply"} => sreq[q].rid \in Rid
  PROVE  HoldsTypeOK' /\ SeatShape' /\ PayTypeOK' /\ PayShape'
<1> DEFINE req == [sreq[q] EXCEPT !.pc = pc]
<1>1. sreq[q] \in SeatRequest /\ sreq[q].user \in User
  BY DEF Typing, ServicesTypeOK, HoldsTypeOK, SeatShape
<1>2. /\ req \in SeatRequest /\ req.user \in User /\ req.pc = pc
      /\ req.rid = sreq[q].rid /\ req.seat = sreq[q].seat
  BY <1>1 DEF SeatRequest
<1>3. sreq' = [sreq EXCEPT ![q] = req]
  BY DEF Goto
<1> HIDE DEF req
<1> QED BY <1>2, <1>3, SeatSlotTyping

LEMMA VisitShape ==
  ASSUME Typing, NEW q \in SeatReq, NEW R \in SUBSET Rid, Visit(q, R),
         sreq[q].pc \in {"lazy", "flip"}, UNCHANGED preq
  PROVE  HoldsTypeOK' /\ SeatShape' /\ PayTypeOK' /\ PayShape'
<1>1. /\ sreq[q] \in SeatRequest /\ sreq \in [SeatReq -> SeatRequest]
      /\ sreq[q].user \in User /\ sreq[q].seat \in Seat \cup {UnknownSeat}
  BY DEF Typing, ServicesTypeOK, HoldsTypeOK, SeatShape
<1>2. \E pc \in {"flip", "replay"}, r \in Rid \cup {None}, T \in SUBSET Rid :
        /\ sreq' = [sreq EXCEPT ![q].pc = pc, ![q].rid = r, ![q].todo = T]
        /\ pc = "flip" => r \in Rid
  <2>1. CASE sreq' = [sreq EXCEPT ![q].pc = "replay", ![q].rid = None, ![q].todo = {}]
    <3>1. "replay" \in {"flip", "replay"} /\ None \in Rid \cup {None} /\ {} \in SUBSET Rid
      OBVIOUS
    <3> QED BY <2>1, <3>1, Zenon
  <2>2. ASSUME NEW r \in R, sreq' = [sreq EXCEPT ![q].pc = "flip", ![q].rid = r, ![q].todo = R]
        PROVE  \E pc \in {"flip", "replay"}, x \in Rid \cup {None}, T \in SUBSET Rid :
                 /\ sreq' = [sreq EXCEPT ![q].pc = pc, ![q].rid = x, ![q].todo = T]
                 /\ pc = "flip" => x \in Rid
    <3>1. "flip" \in {"flip", "replay"} /\ r \in Rid /\ R \in SUBSET Rid
      OBVIOUS
    <3> QED BY <2>2, <3>1, Zenon
  <2> QED BY <2>1, <2>2 DEF Visit
<1>3. PICK pc \in {"flip", "replay"}, r \in Rid \cup {None}, T \in SUBSET Rid :
        /\ sreq' = [sreq EXCEPT ![q].pc = pc, ![q].rid = r, ![q].todo = T]
        /\ pc = "flip" => r \in Rid
  BY <1>2
<1> DEFINE req == [sreq[q] EXCEPT !.pc = pc, !.rid = r, !.todo = T]
<1>4. /\ req \in SeatRequest /\ req.user = sreq[q].user /\ req.seat = sreq[q].seat
      /\ req.pc = pc /\ req.rid = r
  BY <1>1 DEF SeatRequest, SeatPc, HoldPc
<1>5. sreq' = [sreq EXCEPT ![q] = req]
  BY <1>1, <1>3 DEF SeatRequest
<1> HIDE DEF req
<1> QED BY <1>1, <1>3, <1>4, <1>5, SeatSlotTyping

LEMMA HoldStepTyping ==
  ASSUME Typing, NEW q \in SeatReq, HoldStep(q), UNCHANGED preq
  PROVE  Typing'
<1> USE DEF SeatPc, HoldPc
<1>0. sreq[q] \in SeatRequest
  BY DEF Typing, ServicesTypeOK, HoldsTypeOK
<1>1. CASE LazyExpire(q)
  <2>1. HoldsTypeOK' /\ SeatShape' /\ PayTypeOK' /\ PayShape'
    BY <1>1, VisitShape DEF LazyExpire, StaleAt
  <2> QED BY <1>1, <2>1, SeatReadTyping DEF LazyExpire
<1>12. CASE LazyFlip(q)
  <2>1. HoldsTypeOK' /\ SeatShape' /\ PayTypeOK' /\ PayShape'
    <3>1. sreq[q].todo \ {sreq[q].rid} \in SUBSET Rid
      BY <1>0 DEF SeatRequest
    <3> QED BY <1>12, <3>1, VisitShape DEF LazyFlip
  <2>2. locks' \in [Rid -> SeatReq \cup {None}]
    <3>1. locks' = locks \/ locks' = [locks EXCEPT ![sreq[q].rid] = q]
      BY <1>12 DEF LazyFlip
    <3>2. locks \in [Rid -> SeatReq \cup {None}]
      BY DEF Typing, ServicesTypeOK, DBTypeOK
    <3> QED BY <3>1, <3>2
  <2>3. UNCHANGED <<clock, rows, payments, outbox>> /\ NotDB
    BY <1>12 DEF LazyFlip
  <2> QED
    BY <2>1, <2>2, <2>3 DEF Typing, ServicesTypeOK, DBTypeOK, ExpiryTypeOK, NotDB, expiryVars
<1>13. CASE DeadlockVictim(q)
  BY <1>13, EndShape, RollbackTyping DEF DeadlockVictim
<1>2. CASE Replay(q)
  <2>1. CASE End(q) /\ Rollback(q)
    BY <1>2, <2>1, EndShape, RollbackTyping
  <2>2. CASE \E r \in ReplayOf(q) : Answer(q, r) /\ CommitFlips(q)
    BY <1>2, <2>2, AnswerShape, CommitTyping DEF Replay, ReplayOf
  <2>3. CASE sreq[q].seat # UnknownSeat /\ Goto(q, "existing") /\ OnlyReads
    BY <1>2, <2>3, GotoShape, SeatReadTyping DEF Replay, Typing, SeatShape
  <2> QED BY <1>2, <2>1, <2>2, <2>3 DEF Replay
<1>3. CASE FindExisting(q)
  <2>1. CASE \E r \in ExistingOf(q) : Answer(q, r) /\ CommitFlips(q)
    BY <1>3, <2>1, AnswerShape, CommitTyping DEF FindExisting, ExistingOf
  <2>2. CASE Goto(q, "count") /\ OnlyReads
    BY <1>0, <1>3, <2>2, GotoShape, SeatReadTyping DEF FindExisting, Typing, SeatShape
  <2> QED BY <1>3, <2>1, <2>2 DEF FindExisting
<1>4. CASE CountHeld(q)
  <2>1. CASE End(q) /\ Rollback(q)
    BY <1>4, <2>1, EndShape, RollbackTyping
  <2>2. CASE Goto(q, "insert") /\ OnlyReads
    BY <1>0, <1>4, <2>2, GotoShape, SeatReadTyping DEF CountHeld, Typing, SeatShape
  <2> QED BY <1>4, <2>1, <2>2 DEF CountHeld
<1>5. CASE Insert(q)
  <2>1. CASE Goto(q, "winner") /\ Rollback(q)
    BY <1>5, <2>1, GotoShape, RollbackTyping DEF Insert
  <2>2. CASE End(q) /\ Rollback(q)
    BY <1>5, <2>2, EndShape, RollbackTyping
  <2>3. ASSUME NEW r \in Rid,
               rows' = [WithStatus(LocksOf(q), "EXPIRED") EXCEPT ![r] = NewRow(q)],
               sreq' = [sreq EXCEPT ![q].pc = "created", ![q].rid = r],
               locks' = Unlocked(q), UNCHANGED <<clock, payments, outbox>>, NotDB
        PROVE  Typing'
    <3>1. sreq[q].user \in User /\ sreq[q].seat \in Seat
      BY <1>5 DEF Insert, Typing, SeatShape
    <3>2. NewRow(q) \in Reservation
      BY <1>0, <3>1, HoldTtlAssumption, MaxClockAssumption
      DEF NewRow, Reservation, SeatRequest, Status, Time
    <3>3. rows' \in [Rid -> Reservation]
      BY <2>3, <3>2, WithStatusType DEF Typing, ServicesTypeOK, DBTypeOK, Status
    <3>4. HoldsTypeOK' /\ SeatShape' /\ PayTypeOK' /\ PayShape'
      <4> DEFINE req == [sreq[q] EXCEPT !.pc = "created", !.rid = r]
      <4>1. req \in SeatRequest /\ req.user \in User /\ req.seat \in Seat /\ req.rid \in Rid
        BY <1>0, <3>1 DEF SeatRequest
      <4>2. sreq' = [sreq EXCEPT ![q] = req]
        BY <1>0, <2>3 DEF SeatRequest, Typing, ServicesTypeOK, HoldsTypeOK
      <4> HIDE DEF req
      <4> QED BY <4>1, <4>2, SeatSlotTyping
    <3> QED
      BY <2>3, <3>3, <3>4 DEF Typing, ServicesTypeOK, DBTypeOK, ExpiryTypeOK, Unlocked, NotDB, expiryVars
  <2> QED BY <1>5, <2>1, <2>2, <2>3 DEF Insert
<1>6. CASE Created(q)
  <2>1. HoldsTypeOK' /\ SeatShape' /\ PayTypeOK' /\ PayShape'
    BY <1>6, AnswerShape DEF Created, Typing, SeatShape
  <2>2. told' \in [Rid -> [SeatEvent -> Nat]]
    BY <1>6, PublishType DEF Created, SeatEvent, Typing, ServicesTypeOK, ExpiryTypeOK
  <2>3. timers' \in [Inst -> SUBSET Rid]
    BY <1>6 DEF Created, Typing, ServicesTypeOK, ExpiryTypeOK, SeatShape
  <2> QED
    BY <1>6, <2>1, <2>2, <2>3 DEF Created, Typing, ServicesTypeOK, DBTypeOK, ExpiryTypeOK, dbVars
<1>7. CASE Winner(q)
  BY <1>7, EndShape, AnswerShape, SeatReadTyping DEF Winner, ReplayOf
<1>8. CASE CancelRead(q)
  BY <1>8, EndShape, AnswerShape, GotoShape, SeatReadTyping DEF CancelRead, Typing, SeatShape
<1>9. CASE CancelWrite(q)
  <2>1. HoldsTypeOK' /\ SeatShape' /\ PayTypeOK' /\ PayShape'
    BY <1>9, GotoShape DEF CancelWrite, Typing, SeatShape
  <2>2. rows' \in [Rid -> Reservation]
    BY <1>9, WithStatusType DEF CancelWrite, Typing, ServicesTypeOK, DBTypeOK, Status
  <2> QED
    BY <1>9, <2>1, <2>2 DEF CancelWrite, Typing, ServicesTypeOK, DBTypeOK, ExpiryTypeOK, NotDB, expiryVars
<1>10. CASE Released(q)
  <2>1. HoldsTypeOK' /\ SeatShape' /\ PayTypeOK' /\ PayShape'
    BY <1>10, AnswerShape DEF Released, Typing, SeatShape
  <2>2. told' \in [Rid -> [SeatEvent -> Nat]]
    BY <1>10, PublishType DEF Released, SeatEvent, Typing, ServicesTypeOK, ExpiryTypeOK
  <2>3. timers' \in [Inst -> SUBSET Rid]
    BY <1>10 DEF Released, Typing, ServicesTypeOK, ExpiryTypeOK
  <2> QED
    BY <1>10, <2>1, <2>2, <2>3 DEF Released, Typing, ServicesTypeOK, DBTypeOK, ExpiryTypeOK, dbVars
<1>11. CASE Reply(q)
  BY <1>11, EndShape, SeatReadTyping DEF Reply
<1> QED
  BY <1>1, <1>2, <1>3, <1>4, <1>5, <1>6, <1>7, <1>8, <1>9, <1>10, <1>11, <1>12, <1>13
  DEF HoldStep

LEMMA CallTyping ==
  ASSUME Typing, Call
  PROVE  Typing'
<1>1. ASSUME NEW q \in SeatReq, NEW i \in Inst, NEW u \in User, NEW s \in Seat \cup {UnknownSeat},
             NEW k \in Key \cup {None}, BeginHold(q, i, u, s, k), UNCHANGED preq
      PROVE  Typing'
  <2> DEFINE req == [pc |-> "lazy", inst |-> i, user |-> u, seat |-> s, key |-> k,
                     rid |-> None, now |-> clock, todo |-> {}]
  <2>1. req \in SeatRequest /\ req.user \in User /\ req.seat = s /\ req.pc = "lazy"
    BY DEF SeatRequest, SeatPc, HoldPc, Typing, ServicesTypeOK, DBTypeOK
  <2>2. sreq' = [sreq EXCEPT ![q] = req]
    BY <1>1 DEF BeginHold
  <2> HIDE DEF req
  <2> QED BY <1>1, <2>1, <2>2, SeatSlotTyping, SeatReadTyping DEF BeginHold
<1>2. ASSUME NEW q \in SeatReq, NEW i \in Inst, NEW u \in User, NEW r \in Rid,
             BeginCancel(q, i, u, r), UNCHANGED preq
      PROVE  Typing'
  <2> DEFINE req == [pc |-> "read", inst |-> i, user |-> u, seat |-> None, key |-> None,
                     rid |-> r, now |-> 0, todo |-> {}]
  <2>1. req \in SeatRequest /\ req.user \in User /\ req.rid = r /\ req.pc = "read"
    BY MaxClockAssumption DEF SeatRequest, SeatPc, HoldPc
  <2>2. sreq' = [sreq EXCEPT ![q] = req]
    BY <1>2 DEF BeginCancel
  <2> HIDE DEF req
  <2> QED BY <1>2, <2>1, <2>2, SeatSlotTyping, SeatReadTyping DEF BeginCancel
<1>3. ASSUME NEW p \in PayReq, NEW u \in User, NEW r \in Rid, NEW kind \in PayKind,
             BeginPay(p, u, r, kind), UNCHANGED seatVars
      PROVE  Typing'
  <2>1. PayTypeOK' /\ PayShape'
    BY <1>3 DEF BeginPay, PayTypeOK, PayShape, PayRequest, Typing, ServicesTypeOK, DBTypeOK
  <2> QED
    BY <1>3, <2>1 DEF BeginPay, Typing, ServicesTypeOK, DBTypeOK, ExpiryTypeOK, HoldsTypeOK, SeatShape,
       dbVars, seatVars, expiryVars
<1> QED BY <1>1, <1>2, <1>3 DEF Call

LEMMA AbortTyping ==
  ASSUME Typing, NEW q \in SeatReq, Abort(q), UNCHANGED preq
  PROVE  Typing'
<1>1. HoldsTypeOK' /\ SeatShape' /\ PayTypeOK' /\ PayShape'
  BY EndShape DEF Abort
<1> QED
  BY <1>1, MaxFaultsAssumption
  DEF Abort, Fault, Unlocked, Typing, ServicesTypeOK, DBTypeOK, ExpiryTypeOK

LEMMA CrashTyping ==
  ASSUME Typing, NEW i \in Inst, Crash(i), UNCHANGED preq
  PROVE  Typing'
<1> USE DEF Typing, ServicesTypeOK
<1>1. NoSeatRequest \in SeatRequest /\ NoSeatRequest.pc = "idle"
  BY MaxClockAssumption DEF NoSeatRequest, SeatRequest, SeatPc
<1>2. HoldsTypeOK' /\ SeatShape'
  BY <1>1 DEF Crash, HoldsTypeOK, SeatShape
<1>3. PayTypeOK' /\ PayShape'
  BY DEF PayTypeOK, PayShape
<1>4. DBTypeOK'
  BY DEF Crash, DBTypeOK
<1>5. ExpiryTypeOK'
  BY MaxFaultsAssumption DEF Crash, Fault, ExpiryTypeOK
<1> QED BY <1>2, <1>3, <1>4, <1>5

LEMMA PayTyping ==
  ASSUME Typing, NEW p \in PayReq, PayStep(p) \/ PayAbort(p), UNCHANGED seatVars
  PROVE  Typing'
<1> USE DEF Typing, ServicesTypeOK, dbVars
<1>1. ExpiryTypeOK' /\ HoldsTypeOK' /\ SeatShape'
  BY DEF ExpiryTypeOK, HoldsTypeOK, SeatShape, seatVars, expiryVars
<1>2. EndPay(p) => PayTypeOK' /\ PayShape'
  BY MaxClockAssumption DEF EndPay, NoPayRequest, PayTypeOK, PayShape, PayRequest
<1>3. CASE PayRead(p)
  <2> DEFINE req == [preq[p] EXCEPT !.pc = "write", !.now = 0]
  <2>2. preq[p] \in PayRequest /\ preq[p].pc = "read"
    BY <1>3 DEF PayRead, PayTypeOK
  <2>3. /\ req \in PayRequest
        /\ req.kind = preq[p].kind /\ req.user = preq[p].user /\ req.rid = preq[p].rid
    <3>1. 0 \in 0 .. MaxClock
      BY MaxClockAssumption
    <3> QED BY <2>2, <3>1 DEF PayRequest
  <2>4. preq' = [preq EXCEPT ![p].pc = "write", ![p].now = 0] => preq' = [preq EXCEPT ![p] = req]
    OBVIOUS
  <2> HIDE DEF req
  <2>1. preq' = [preq EXCEPT ![p].pc = "write", ![p].now = 0] => PayTypeOK' /\ PayShape'
    BY <2>2, <2>3, <2>4 DEF PayTypeOK, PayShape
  <2> QED BY <1>1, <1>2, <1>3, <2>1 DEF PayRead, DBTypeOK
<1>4. preq[p].pc # "idle" /\ SetPayment(p) => payments' \in [Rid -> PaymentStatus]
  BY DEF SetPayment, PaymentStatusFor, PaymentStatus, PayShape, PayKind, DBTypeOK
<1>5. ASSUME NEW e \in EventType, preq[p].pc # "idle", Enqueue(preq[p].rid, e)
      PROVE  outbox' \in [Rid -> [EventType -> Nat]]
  BY <1>5 DEF Enqueue, PayShape, DBTypeOK
<1>6. CASE PaymentOnly(p)
  BY <1>1, <1>2, <1>4, <1>6 DEF PaymentOnly, DBTypeOK
<1>7. CASE ConfirmSuccess(p)
  <2>1. rows' \in [Rid -> Reservation]
    BY <1>7, WithStatusType DEF ConfirmSuccess, Status, DBTypeOK
  <2> QED BY <1>1, <1>2, <1>4, <1>5, <1>7, <2>1 DEF ConfirmSuccess, DBTypeOK, EventType
<1>8. CASE ConfirmConflict(p)
  BY <1>1, <1>2, <1>8 DEF ConfirmConflict, DBTypeOK
<1>9. CASE ConfirmFail(p)
  <2>1. rows' \in [Rid -> Reservation]
    BY <1>9, WithStatusType DEF ConfirmFail, Status, DBTypeOK
  <2> QED BY <1>1, <1>2, <1>4, <1>5, <1>9, <2>1 DEF ConfirmFail, DBTypeOK, EventType
<1>10. CASE PayAbort(p)
  BY <1>1, <1>2, <1>10 DEF PayAbort, DBTypeOK
<1> QED BY <1>3, <1>6, <1>7, <1>8, <1>9, <1>10 DEF PayStep

LEMMA NextTyping == Typing /\ [Next]_vars => Typing'
<1> SUFFICES ASSUME Typing, [Next]_vars PROVE Typing'
  OBVIOUS
<1>1. CASE Call
  BY <1>1, CallTyping
<1>2. CASE SeatSvc
  BY <1>2, HoldStepTyping, AbortTyping, ExpiryTyping, CrashTyping DEF SeatSvc
<1>3. CASE PaymentSvc
  BY <1>3, PayTyping DEF PaymentSvc
<1>4. CASE Clock
  BY <1>4, MaxClockAssumption
  DEF Clock, Tick, Typing, ServicesTypeOK, DBTypeOK, ExpiryTypeOK, HoldsTypeOK, PayTypeOK, SeatShape,
      PayShape, seatVars, expiryVars
<1>5. CASE UNCHANGED vars
  BY <1>5
  DEF Typing, ServicesTypeOK, DBTypeOK, ExpiryTypeOK, HoldsTypeOK, PayTypeOK, SeatShape,
      PayShape, vars, dbVars, seatVars, expiryVars
<1> QED BY <1>1, <1>2, <1>3, <1>4, <1>5 DEF Next

(* Every reachable state is typed, and every request carries what its place *)
(* in the handler needs: a seat that exists once the 404 is past, a         *)
(* reservation once one was named or created.                               *)
THEOREM Typed == Spec => []Typing
<1>1. Init => Typing
  BY InitTyping
<1>2. Typing /\ [Next]_vars => Typing'
  BY NextTyping
<1> QED BY <1>1, <1>2, PTL DEF Spec

\* What every step does to the history of overlapping requests.
LEMMA NextNoted ==
  ASSUME [Next]_vars
  PROVE  overlapped' = overlapped \cup {r \in Rid : Contended(r)'} \/ UNCHANGED vars
BY DEF Next, Call, SeatSvc, PaymentSvc, Clock, NoteOverlaps

(* Every variable of the booking modules keeps its type, for every value of *)
(* the constants.                                                           *)
THEOREM TypeCorrect == Spec => []TypeOK
<1>1. Init => overlapped \subseteq Rid
  BY DEF Init
<1>2. overlapped \subseteq Rid /\ [Next]_vars => (overlapped \subseteq Rid)'
  BY NextNoted DEF vars
<1>3. Typing /\ overlapped \subseteq Rid => TypeOK
  BY DEF Typing, TypeOK
<1> QED BY <1>1, <1>2, <1>3, Typed, PTL DEF Spec
-----------------------------------------------------------------------------
(***************************************************************************)
(* Row locks.  FlippedAreStale is inductive together with Typing and the   *)
(* fact that a request's `now' was read from the clock.                    *)
(***************************************************************************)
NowPast == \A q \in SeatReq : sreq[q].now <= clock

LockInv == Typing /\ FlippedAreStale /\ NowPast

\* A step of one request that keeps the locked rows, and that gives up its
\* locks if it leaves its transaction, keeps the lock invariant.
LEMMA LocksKept ==
  ASSUME LockInv, Typing', NEW q \in SeatReq, clock' = clock,
         \A x \in SeatReq \ {q} : sreq'[x] = sreq[x],
         sreq'[q].now = sreq[q].now \/ sreq'[q].now \in {0, clock},
         \/ locks' = locks /\ (sreq[q].pc \in HoldPc => sreq'[q].pc \in HoldPc)
         \/ locks' = Unlocked(q),
         \A r \in Rid : locks'[r] # None => rows'[r] = rows[r]
  PROVE  LockInv'
<1> USE DEF LockInv
<1>1. NowPast'
  BY DEF NowPast, Typing, ServicesTypeOK, DBTypeOK
<1>2. FlippedAreStale'
  <2> SUFFICES ASSUME NEW r \in Rid, locks'[r] # None
               PROVE  /\ rows'[r].status = "HELD" /\ rows'[r].expires < clock'
                      /\ sreq'[locks'[r]].pc \in HoldPc
    BY DEF FlippedAreStale
  <2>1. locks'[r] = locks[r] /\ locks[r] \in SeatReq
    BY DEF Unlocked, Typing, ServicesTypeOK, DBTypeOK
  <2>2. /\ rows[r].status = "HELD" /\ rows[r].expires < clock
        /\ sreq[locks[r]].pc \in HoldPc
    BY <2>1 DEF FlippedAreStale
  <2>3. CASE locks' = locks
    BY <2>1, <2>2, <2>3 DEF Typing, ServicesTypeOK, DBTypeOK, Unlocked
  <2>4. CASE locks' = Unlocked(q)
    <3>1. locks[r] # q
      BY <2>1, <2>4, NoneAssumption DEF Unlocked, Typing, ServicesTypeOK, DBTypeOK
    <3> QED BY <2>1, <2>2, <3>1
  <2> QED BY <2>3, <2>4
<1> QED BY <1>1, <1>2

LEMMA HoldStepLocks ==
  ASSUME LockInv, NEW q \in SeatReq, HoldStep(q), UNCHANGED preq
  PROVE  LockInv'
<1>0. Typing' /\ Typing
  BY HoldStepTyping DEF LockInv
<1> DEFINE Slots == /\ \A x \in SeatReq \ {q} : sreq'[x] = sreq[x]
                    /\ sreq'[q].now = sreq[q].now \/ sreq'[q].now \in {0, clock}
<1>t. sreq \in [SeatReq -> SeatRequest]
  BY <1>0 DEF Typing, ServicesTypeOK, HoldsTypeOK
<1>e. End(q) => Slots
  BY <1>t DEF End, NoSeatRequest
<1>a. ASSUME NEW r, Answer(q, r) PROVE Slots
  BY <1>t, <1>a DEF Answer
<1>g. ASSUME NEW pc, Goto(q, pc) PROVE Slots /\ sreq'[q].pc = pc
  BY <1>t, <1>g DEF Goto, SeatRequest
<1>v. ASSUME NEW R, Visit(q, R) PROVE Slots /\ sreq'[q].pc \in {"flip", "replay"}
  <2>1. ASSUME NEW pc, NEW r, NEW T,
               sreq' = [sreq EXCEPT ![q].pc = pc, ![q].rid = r, ![q].todo = T]
        PROVE  Slots /\ sreq'[q].pc = pc
    BY <1>t, <2>1 DEF SeatRequest
  <2> HIDE DEF Slots
  <2> QED BY <1>v, <2>1, Zenon DEF Visit
<1> HIDE DEF Slots
<1>s. ASSUME Slots, clock' = clock,
             \/ locks' = locks /\ (sreq[q].pc \in HoldPc => sreq'[q].pc \in HoldPc)
             \/ locks' = Unlocked(q),
             \A r \in Rid : locks'[r] # None => rows'[r] = rows[r]
      PROVE  LockInv'
  BY <1>0, <1>s, LocksKept DEF Slots
<1>r. ASSUME Slots, Rollback(q) PROVE LockInv'
  BY <1>r, <1>s DEF Rollback
<1>c. ASSUME Slots, CommitFlips(q) PROVE LockInv'
  <2>1. \A r \in Rid : locks'[r] # None => rows'[r] = rows[r]
    BY <1>c DEF CommitFlips, WithStatus, Unlocked, LocksOf
  <2> QED BY <1>c, <1>s, <2>1 DEF CommitFlips
<1>o. ASSUME Slots, OnlyReads, sreq[q].pc \in HoldPc => sreq'[q].pc \in HoldPc PROVE LockInv'
  BY <1>o, <1>s DEF OnlyReads, dbVars
<1>1. CASE LazyExpire(q)
  BY <1>1, <1>v, <1>o DEF LazyExpire, HoldPc
<1>12. CASE LazyFlip(q)
  <2>1. Slots /\ sreq'[q].pc \in {"flip", "replay"}
    BY <1>12, <1>v DEF LazyFlip
  <2>2. NowPast'
    BY <1>12, <2>1, <1>0 DEF LazyFlip, Slots, LockInv, NowPast, Typing, ServicesTypeOK, DBTypeOK
  <2>3. FlippedAreStale'
    <3> SUFFICES ASSUME NEW r \in Rid, locks'[r] # None
                 PROVE  /\ rows'[r].status = "HELD" /\ rows'[r].expires < clock'
                        /\ sreq'[locks'[r]].pc \in HoldPc
      BY DEF FlippedAreStale
    <3>1. CASE r = sreq[q].rid /\ r \in StaleAt(sreq[q].now)
      <4>1. rows[r].status = "HELD" /\ rows[r].expires < sreq[q].now /\ locks'[r] = q
        BY <1>0, <1>12, <3>1 DEF LazyFlip, StaleAt, Typing, ServicesTypeOK, DBTypeOK
      <4>2. sreq[q].now <= clock /\ sreq[q].now \in Nat /\ clock \in Nat /\ rows[r].expires \in Nat
        BY <1>0, <1>t, MaxClockAssumption, HoldTtlAssumption
        DEF LockInv, NowPast, SeatRequest, Typing, ServicesTypeOK, DBTypeOK, Reservation, Time
      <4> QED BY <1>12, <2>1, <4>1, <4>2 DEF LazyFlip, HoldPc
    <3>2. CASE ~(r = sreq[q].rid /\ r \in StaleAt(sreq[q].now))
      <4>1. locks'[r] = locks[r] /\ locks[r] \in SeatReq
        BY <1>0, <1>12, <3>2 DEF LazyFlip, Typing, ServicesTypeOK, DBTypeOK
      <4>2. sreq'[locks[r]].pc \in HoldPc
        BY <4>1, <2>1 DEF Slots, LockInv, FlippedAreStale, HoldPc
      <4> QED BY <1>12, <4>1, <4>2 DEF LazyFlip, LockInv, FlippedAreStale
    <3> QED BY <3>1, <3>2
  <2> QED BY <1>0, <2>2, <2>3 DEF LockInv
<1>13. CASE DeadlockVictim(q)
  BY <1>13, <1>e, <1>r DEF DeadlockVictim
<1>2. CASE Replay(q)
  BY <1>2, <1>e, <1>a, <1>g, <1>r, <1>c, <1>o DEF Replay, HoldPc
<1>3. CASE FindExisting(q)
  BY <1>3, <1>a, <1>g, <1>c, <1>o DEF FindExisting, HoldPc
<1>4. CASE CountHeld(q)
  BY <1>4, <1>e, <1>g, <1>r, <1>o DEF CountHeld, HoldPc
<1>5. CASE Insert(q)
  <2>1. CASE Goto(q, "winner") /\ Rollback(q)
    BY <2>1, <1>g, <1>r
  <2>2. CASE End(q) /\ Rollback(q)
    BY <2>2, <1>e, <1>r
  <2>3. ASSUME NEW r \in Rid, ~Exists(r),
               rows' = [WithStatus(LocksOf(q), "EXPIRED") EXCEPT ![r] = NewRow(q)],
               sreq' = [sreq EXCEPT ![q].pc = "created", ![q].rid = r],
               locks' = Unlocked(q), UNCHANGED <<clock, payments, outbox>>, NotDB
        PROVE  LockInv'
    <3>1. Slots
      BY <1>t, <2>3 DEF SeatRequest, Slots
    <3>2. locks[r] = None
      BY <2>3 DEF LockInv, FlippedAreStale, Exists
    <3>3. \A x \in Rid : locks'[x] # None => rows'[x] = rows[x]
      BY <2>3, <3>2 DEF WithStatus, Unlocked, LocksOf
    <3> QED BY <1>s, <2>3, <3>1, <3>3
  <2> QED BY <1>5, <2>1, <2>2, <2>3 DEF Insert
<1>6. CASE Created(q)
  BY <1>6, <1>a, <1>s DEF Created, dbVars, HoldPc
<1>7. CASE Winner(q)
  BY <1>7, <1>a, <1>e, <1>o DEF Winner, HoldPc
<1>8. CASE CancelRead(q)
  BY <1>8, <1>a, <1>e, <1>g, <1>o DEF CancelRead, HoldPc
<1>9. CASE CancelWrite(q)
  <2>1. \A r \in Rid : locks'[r] # None => rows'[r] = rows[r]
    BY <1>9 DEF CancelWrite, WithStatus
  <2> QED BY <1>9, <2>1, <1>g, <1>s DEF CancelWrite, HoldPc
<1>10. CASE Released(q)
  BY <1>10, <1>a, <1>s DEF Released, dbVars, HoldPc
<1>11. CASE Reply(q)
  BY <1>11, <1>e, <1>o DEF Reply, HoldPc
<1> QED
  BY <1>1, <1>2, <1>3, <1>4, <1>5, <1>6, <1>7, <1>8, <1>9, <1>10, <1>11, <1>12, <1>13
  DEF HoldStep
\* A step of no request that keeps the locked rows keeps the lock invariant.
LEMMA LocksUntouched ==
  ASSUME LockInv, Typing', UNCHANGED <<sreq, locks>>, clock' = clock \/ clock' = clock + 1,
         \A r \in Rid : locks[r] # None => rows'[r] = rows[r]
  PROVE  LockInv'
<1>1. clock \in Nat
  BY MaxClockAssumption DEF LockInv, Typing, ServicesTypeOK, DBTypeOK
<1>2. NowPast'
  BY <1>1, MaxClockAssumption
  DEF LockInv, NowPast, Typing, ServicesTypeOK, HoldsTypeOK, SeatRequest
<1>3. \A r \in Rid : rows[r].expires \in Nat
  BY MaxClockAssumption, HoldTtlAssumption
  DEF LockInv, Typing, ServicesTypeOK, DBTypeOK, Reservation, Time
<1>4. FlippedAreStale'
  BY <1>1, <1>3 DEF LockInv, FlippedAreStale
<1> QED BY <1>2, <1>4 DEF LockInv

LEMMA NextLocks == LockInv /\ [Next]_vars => LockInv'
<1> SUFFICES ASSUME LockInv, [Next]_vars PROVE LockInv'
  OBVIOUS
<1>0. Typing /\ Typing'
  BY NextTyping DEF LockInv
<1>t. sreq \in [SeatReq -> SeatRequest]
  BY <1>0 DEF Typing, ServicesTypeOK, HoldsTypeOK
<1>1. ASSUME NEW q \in SeatReq, NEW i \in Inst, NEW u \in User, NEW s, NEW k,
             BeginHold(q, i, u, s, k)
      PROVE  LockInv'
  <2>1. \A x \in SeatReq \ {q} : sreq'[x] = sreq[x]
    BY <1>t, <1>1 DEF BeginHold
  <2>2. sreq'[q].now = clock /\ sreq[q].pc \notin HoldPc
    BY <1>t, <1>1 DEF BeginHold, HoldPc
  <2> QED BY <1>0, <1>1, <2>1, <2>2, LocksKept DEF BeginHold, OnlyReads, dbVars
<1>2. ASSUME NEW q \in SeatReq, NEW i \in Inst, NEW u \in User, NEW r \in Rid,
             BeginCancel(q, i, u, r)
      PROVE  LockInv'
  <2>1. \A x \in SeatReq \ {q} : sreq'[x] = sreq[x]
    BY <1>t, <1>2 DEF BeginCancel
  <2>2. sreq'[q].now = 0 /\ sreq[q].pc \notin HoldPc
    BY <1>t, <1>2 DEF BeginCancel, HoldPc
  <2> QED BY <1>0, <1>2, <2>1, <2>2, LocksKept DEF BeginCancel, OnlyReads, dbVars
<1>3. ASSUME NEW p \in PayReq, NEW u, NEW r, NEW kind, BeginPay(p, u, r, kind), UNCHANGED seatVars
      PROVE  LockInv'
  BY <1>0, <1>3, LocksUntouched DEF BeginPay, dbVars, seatVars
<1>4. ASSUME NEW q \in SeatReq, Abort(q) PROVE LockInv'
  <2>1. \A x \in SeatReq \ {q} : sreq'[x] = sreq[x]
    BY <1>t, <1>4 DEF Abort, End
  <2>2. sreq'[q].now = 0
    BY <1>t, <1>4 DEF Abort, End, NoSeatRequest
  <2> QED BY <1>0, <1>4, <2>1, <2>2, LocksKept DEF Abort
<1>5. ASSUME NEW i \in Inst, ExpiryStep(i), UNCHANGED sreq PROVE LockInv'
  <2>1. ASSUME NEW r \in Rid, TimerFire(i, r)
        PROVE  \A x \in Rid : locks[x] # None => rows'[x] = rows[x]
    <3>1. rows' = rows \/ rows' = WithStatus({r}, "EXPIRED")
      BY <2>1 DEF TimerFire, TimerGuard
    <3>2. locks[r] = None
      BY <2>1 DEF TimerFire
    <3> QED BY <3>1, <3>2 DEF WithStatus
  <2>2. CASE SweepUpdate(i)
    <3>1. \A x \in Rid : locks[x] # None => rows'[x] = rows[x]
      BY <2>2 DEF SweepUpdate, WithStatus
    <3> QED BY <1>0, <1>5, <2>2, <3>1, LocksUntouched DEF SweepUpdate
  <2>3. CASE \E r \in Rid : TimerFire(i, r)
    BY <1>0, <1>5, <2>1, <2>3, LocksUntouched DEF TimerFire
  <2>4. ASSUME UNCHANGED dbVars PROVE LockInv'
    BY <1>0, <1>5, <2>4, LocksUntouched DEF dbVars
  <2> QED
    BY <1>5, <2>2, <2>3, <2>4
    DEF ExpiryStep, TimerFail, TimerPublish, SweepLock, SweepFail, SweepPublish, SweepUnlock,
        SweepUnlockFail
<1>6. ASSUME NEW i \in Inst, Crash(i) PROVE LockInv'
  <2>1. NowPast'
    BY <1>0, <1>6, MaxClockAssumption
    DEF Crash, NowPast, LockInv, NoSeatRequest, Typing, ServicesTypeOK, DBTypeOK
  <2>2. FlippedAreStale'
    <3> SUFFICES ASSUME NEW r \in Rid, locks'[r] # None
                 PROVE  /\ rows'[r].status = "HELD" /\ rows'[r].expires < clock'
                        /\ sreq'[locks'[r]].pc \in HoldPc
      BY DEF FlippedAreStale
    <3>1. /\ locks'[r] = locks[r] /\ locks[r] \in SeatReq
          /\ sreq[locks[r]].inst # i
      BY <1>0, <1>6 DEF Crash, Typing, ServicesTypeOK, DBTypeOK
    <3> QED BY <1>6, <3>1 DEF Crash, LockInv, FlippedAreStale
  <2> QED BY <1>0, <2>1, <2>2 DEF LockInv
<1>7. ASSUME NEW p \in PayReq, PayStep(p) \/ PayAbort(p), UNCHANGED seatVars PROVE LockInv'
  <2>1. \A r \in Rid : locks[r] # None => rows'[r] = rows[r]
    BY <1>7
    DEF PayStep, PayRead, PaymentOnly, ConfirmSuccess, ConfirmConflict, ConfirmFail, PayAbort,
        WithStatus, dbVars
  <2>2. UNCHANGED <<clock, locks, sreq>>
    BY <1>7
    DEF PayStep, PayRead, PaymentOnly, ConfirmSuccess, ConfirmConflict, ConfirmFail, PayAbort,
        dbVars, seatVars
  <2> QED BY <1>0, <2>1, <2>2, LocksUntouched
<1>8. CASE Clock
  BY <1>0, <1>8, LocksUntouched DEF Clock, Tick, seatVars
<1>9. CASE UNCHANGED vars
  BY <1>0, <1>9, LocksUntouched DEF vars, dbVars, seatVars
<1>10. CASE \E q \in SeatReq : HoldStep(q) /\ UNCHANGED preq
  BY <1>10, HoldStepLocks
<1>11. CASE Call
  BY <1>1, <1>2, <1>3, <1>11 DEF Call
<1>12. CASE SeatSvc
  BY <1>4, <1>5, <1>6, <1>10, <1>12 DEF SeatSvc
<1> QED BY <1>7, <1>8, <1>9, <1>11, <1>12 DEF Next, PaymentSvc

LEMMA LockInvariant == Spec => []LockInv
<1>1. Init => LockInv
  BY InitTyping
  DEF Init, DBInit, HoldsInit, LockInv, FlippedAreStale, NowPast, NoSeatRequest
<1> QED BY <1>1, NextLocks, PTL DEF Spec

(* A row that a hold transaction has flipped stays a lapsed hold, and its *)
(* transaction stays open, until that transaction ends.                   *)
THEOREM LocksSound == Spec => []FlippedAreStale
<1>1. LockInv => FlippedAreStale
  BY DEF LockInv
<1> QED BY <1>1, LockInvariant, PTL

-----------------------------------------------------------------------------
(***************************************************************************)
(* What one step can do to the Reservation table: nothing, expire lapsed   *)
(* holds, cancel or fail one row, confirm a row whose seat nobody else     *)
(* occupies, or insert a hold on a seat freed by its own transaction.      *)
(***************************************************************************)
Lapse(R) ==
  /\ \A r \in R : rows[r].status = "HELD" /\ rows[r].expires <= clock
  /\ rows' = WithStatus(R, "EXPIRED")

\* A request is about to write reservation r.
Writing(r) ==
  \/ \E q \in SeatReq : sreq[q].pc = "release" /\ sreq[q].rid = r
  \/ \E p \in PayReq : preq[p].pc = "write" /\ preq[p].rid = r

Drop(r) == Writing(r) /\ \E st \in {"CANCELLED", "FAILED"} : rows' = WithStatus({r}, st)

Confirm(r) == Writing(r) /\ ~SeatConflictOf(r) /\ rows' = WithStatus({r}, "CONFIRMED")

InsertHold(q, r) ==
  /\ sreq[q].pc = "insert"
  /\ ~Exists(r) /\ ~KeyConflict(sreq[q].key) /\ ~SeatConflict(sreq[q].seat, q)
  /\ \A x \in LocksOf(q) : rows[x].status = "HELD" /\ rows[x].expires < clock
  /\ rows' = [WithStatus(LocksOf(q), "EXPIRED") EXCEPT ![r] = NewRow(q)]

TableStep ==
  \/ rows' = rows
  \/ \E R \in SUBSET Rid : Lapse(R)
  \/ \E r \in Rid : Drop(r) \/ Confirm(r)
  \/ \E q \in SeatReq, r \in Rid : InsertHold(q, r)

\* The rows a request has flipped have lapsed.
LEMMA OwnFlipsLapsed ==
  ASSUME LockInv, NEW q \in SeatReq
  PROVE  /\ LocksOf(q) \in SUBSET Rid
         /\ \A x \in LocksOf(q) : rows[x].status = "HELD" /\ rows[x].expires < clock
         /\ \A x \in LocksOf(q) : rows[x].expires <= clock
<1>1. \A x \in LocksOf(q) : rows[x].status = "HELD" /\ rows[x].expires < clock
  BY NoneAssumption DEF LockInv, FlippedAreStale, LocksOf
<1>2. clock \in Nat /\ \A x \in Rid : rows[x].expires \in Nat
  BY MaxClockAssumption, HoldTtlAssumption DEF LockInv, Typing, ServicesTypeOK, DBTypeOK, Reservation, Time
<1> QED BY <1>1, <1>2 DEF LocksOf

LEMMA NextTable == LockInv /\ [Next]_vars => TableStep
<1> SUFFICES ASSUME LockInv, [Next]_vars PROVE TableStep
  OBVIOUS
<1>0. clock \in Nat /\ \A x \in Rid : rows[x].expires \in Nat
  BY MaxClockAssumption, HoldTtlAssumption DEF LockInv, Typing, ServicesTypeOK, DBTypeOK, Reservation, Time
<1>1. ASSUME NEW q \in SeatReq, HoldStep(q) PROVE TableStep
  <2>1. CommitFlips(q) => TableStep
    BY OwnFlipsLapsed DEF CommitFlips, Lapse, TableStep
  <2>2. Insert(q) => TableStep
    <3>1. ASSUME sreq[q].pc = "insert", NEW r \in Rid, ~Exists(r), ~KeyConflict(sreq[q].key),
                 ~SeatConflict(sreq[q].seat, q),
                 rows' = [WithStatus(LocksOf(q), "EXPIRED") EXCEPT ![r] = NewRow(q)]
          PROVE  TableStep
      BY <3>1, OwnFlipsLapsed DEF InsertHold, TableStep
    <3> QED BY <3>1 DEF Insert, Rollback, TableStep
  <2>3. CancelWrite(q) => TableStep
    <3>1. ASSUME CancelWrite(q) PROVE sreq[q].rid \in Rid
      BY <3>1 DEF CancelWrite, LockInv, Typing, SeatShape
    <3> QED BY <3>1 DEF CancelWrite, Writing, Drop, TableStep
  <2>4. LazyExpire(q) \/ LazyFlip(q) \/ Created(q) \/ Winner(q) \/ CancelRead(q) \/ Released(q)
          \/ Reply(q) \/ DeadlockVictim(q) => TableStep
    BY DEF LazyExpire, LazyFlip, Created, Winner, CancelRead, Released, Reply, DeadlockVictim,
       Rollback, OnlyReads, dbVars, TableStep
  <2>5. Replay(q) \/ FindExisting(q) \/ CountHeld(q) => TableStep
    BY <2>1 DEF Replay, FindExisting, CountHeld, Rollback, OnlyReads, dbVars, TableStep
  <2> QED BY <1>1, <2>2, <2>3, <2>4, <2>5 DEF HoldStep
<1>2. ASSUME NEW i \in Inst, ExpiryStep(i) PROVE TableStep
  <2>1. ASSUME NEW r \in Rid, TimerFire(i, r) PROVE TableStep
    <3>1. TimerGuard(r) => Lapse({r})
      BY <2>1 DEF TimerFire, TimerGuard, Lapse
    <3>2. ~TimerGuard(r) => rows' = rows
      BY <2>1 DEF TimerFire
    <3> QED BY <3>1, <3>2 DEF TableStep
  <2>2. SweepUpdate(i) => Lapse(StaleAt(clock)) /\ StaleAt(clock) \in SUBSET Rid
    BY <1>0 DEF SweepUpdate, Lapse, StaleAt
  <2> QED
    BY <1>2, <2>1, <2>2
    DEF ExpiryStep, TimerFail, TimerPublish, SweepLock, SweepFail, SweepPublish, SweepUnlock,
        SweepUnlockFail, dbVars, TableStep
<1>3. ASSUME NEW p \in PayReq, PayStep(p) \/ PayAbort(p) PROVE TableStep
  <2>1. ConfirmSuccess(p) => preq[p].rid \in Rid /\ Confirm(preq[p].rid)
    BY DEF ConfirmSuccess, Writing, Confirm, LockInv, Typing, PayShape
  <2>2. ConfirmFail(p) => preq[p].rid \in Rid /\ Drop(preq[p].rid)
    BY DEF ConfirmFail, Writing, Drop, LockInv, Typing, PayShape
  <2> QED
    BY <1>3, <2>1, <2>2
    DEF PayStep, PayRead, PaymentOnly, ConfirmConflict, PayAbort, dbVars, TableStep
<1>4. Call \/ Clock \/ (\E q \in SeatReq : Abort(q)) \/ (\E i \in Inst : Crash(i)) => rows' = rows
  BY DEF Call, BeginHold, BeginCancel, BeginPay, Clock, Tick, Abort, Crash, OnlyReads, dbVars
<1> QED
  BY <1>1, <1>2, <1>3, <1>4 DEF Next, SeatSvc, PaymentSvc, vars, dbVars, TableStep

\* Occupants are exactly the entries of the partial unique index.
LEMMA OccupantsAreEntries == \A s : Occupants(s) = IndexEntries(s)
BY DEF Occupants, IndexEntries, Active

LEMMA ExclusiveStep ==
  ASSUME LockInv, SeatExclusive, TableStep
  PROVE  SeatExclusive'
<1> SUFFICES ASSUME NEW s \in Seat, NEW r1 \in Occupants(s)', NEW r2 \in Occupants(s)'
             PROVE  r1 = r2
  BY DEF SeatExclusive
<1>0. rows \in [Rid -> Reservation] /\ r1 \in Rid /\ r2 \in Rid
  BY DEF LockInv, Typing, ServicesTypeOK, DBTypeOK, Occupants
<1>1. CASE rows' = rows
  BY <1>1 DEF SeatExclusive, Occupants
<1>2. ASSUME NEW R, NEW st, st \notin {"HELD", "CONFIRMED"}, rows' = WithStatus(R, st)
      PROVE  r1 = r2
  <2>1. r1 \in Occupants(s) /\ r2 \in Occupants(s)
    BY <1>0, <1>2 DEF Occupants, WithStatus, Reservation
  <2> QED BY <2>1 DEF SeatExclusive
<1>3. ASSUME NEW r \in Rid, Confirm(r) PROVE r1 = r2
  <2>1. \A x \in Occupants(s)' : x = r \/ x \in Occupants(s)
    BY <1>0, <1>3 DEF Confirm, Occupants, WithStatus
  <2>2. r \in Occupants(s)' => rows[r].seat = s
    BY <1>0, <1>3 DEF Confirm, Occupants, WithStatus, Reservation
  <2>3. rows[r].seat = s => Occupants(s) \subseteq {r}
    BY <1>3, OccupantsAreEntries DEF Confirm, SeatConflictOf
  <2> QED BY <2>1, <2>2, <2>3 DEF SeatExclusive
<1>4. ASSUME NEW q \in SeatReq, NEW r \in Rid, InsertHold(q, r) PROVE r1 = r2
  <2>1. \A x \in Occupants(s)' : x = r \/ (x \in Occupants(s) /\ x \notin LocksOf(q))
    BY <1>0, <1>4 DEF InsertHold, Occupants, WithStatus, Reservation
  <2>2. r \in Occupants(s)' => sreq[q].seat = s
    BY <1>0, <1>4 DEF InsertHold, Occupants, WithStatus, NewRow
  <2>3. sreq[q].seat = s => Occupants(s) \subseteq LocksOf(q)
    BY <1>4, OccupantsAreEntries DEF InsertHold, SeatConflict, LocksOf, IndexEntries
  <2> QED BY <2>1, <2>2, <2>3 DEF SeatExclusive
<1> QED
  BY <1>1, <1>2, <1>3, <1>4 DEF TableStep, Lapse, Drop

(* No interleaving of holds, cancels, expiries, late confirmations, aborts and *)
(* crashes leaves two reservations occupying one seat.                         *)
THEOREM Exclusive == Spec => []SeatExclusive
<1>1. Init => SeatExclusive
  BY DEF Init, DBInit, SeatExclusive, Occupants, Absent
<1>2. LockInv /\ SeatExclusive /\ [Next]_vars => SeatExclusive'
  BY NextTable, ExclusiveStep
<1> QED BY <1>1, <1>2, LockInvariant, PTL DEF Spec
-----------------------------------------------------------------------------
LEMMA KeyStep ==
  ASSUME LockInv, KeyUnique, TableStep
  PROVE  KeyUnique'
<1>0. rows \in [Rid -> Reservation]
  BY DEF LockInv, Typing, ServicesTypeOK, DBTypeOK
<1>1. ASSUME \A r \in Rid : rows'[r].key = rows[r].key PROVE KeyUnique'
  BY <1>1 DEF KeyUnique
<1>2. ASSUME NEW R, NEW st, rows' = WithStatus(R, st) PROVE KeyUnique'
  <2>1. \A r \in Rid : rows'[r].key = rows[r].key
    BY <1>0, <1>2 DEF WithStatus, Reservation
  <2> QED BY <1>1, <2>1
<1>3. ASSUME NEW q \in SeatReq, NEW r \in Rid, InsertHold(q, r) PROVE KeyUnique'
  <2>1. \A x \in Rid \ {r} : rows'[x].key = rows[x].key
    BY <1>0, <1>3 DEF InsertHold, WithStatus, Reservation
  <2>2. rows'[r].key = sreq[q].key
    BY <1>0, <1>3 DEF InsertHold, WithStatus, NewRow
  <2>3. sreq[q].key # None => \A x \in Rid : rows[x].key # sreq[q].key
    BY <1>3 DEF InsertHold, KeyConflict
  <2> QED BY <2>1, <2>2, <2>3 DEF KeyUnique
<1>4. CASE rows' = rows
  BY <1>1, <1>4
<1> QED BY <1>2, <1>3, <1>4 DEF TableStep, Lapse, Drop, Confirm

(* Retries under one idempotency key, however they race, leave one reservation. *)
THEOREM OnePerKey == Spec => []KeyUnique
<1>1. Init => KeyUnique
  BY DEF Init, DBInit, KeyUnique, Absent
<1>2. LockInv /\ KeyUnique /\ [Next]_vars => KeyUnique'
  BY NextTable, KeyStep
<1> QED BY <1>1, <1>2, LockInvariant, PTL DEF Spec

-----------------------------------------------------------------------------
(* No step, retry or late write turns a finished reservation into a hold. *)
THEOREM NoRehold == Spec => NeverReheld
<1>1. ASSUME LockInv, [Next]_vars
      PROVE  \A r \in Rid : Exists(r) /\ rows[r].status # "HELD" => rows'[r].status # "HELD"
  <2>0. rows \in [Rid -> Reservation]
    BY <1>1 DEF LockInv, Typing, ServicesTypeOK, DBTypeOK
  <2>1. TableStep
    BY <1>1, NextTable
  <2> SUFFICES ASSUME NEW r \in Rid, Exists(r), rows[r].status # "HELD"
               PROVE  rows'[r].status # "HELD"
    OBVIOUS
  <2>2. ASSUME NEW R, NEW st, st # "HELD", rows' = WithStatus(R, st) PROVE rows'[r].status # "HELD"
    BY <2>0, <2>2 DEF WithStatus, Reservation
  <2>3. ASSUME NEW q \in SeatReq, NEW x \in Rid, InsertHold(q, x) PROVE rows'[r].status # "HELD"
    BY <2>0, <2>3 DEF InsertHold, WithStatus, Reservation
  <2> QED BY <2>1, <2>2, <2>3 DEF TableStep, Lapse, Drop, Confirm
<1> QED BY <1>1, LockInvariant, PTL DEF Spec, NeverReheld

(* Whoever flips a hold to EXPIRED (a timer, a sweep, the commit of another *)
(* user's hold), its countdown has run out.                                 *)
THEOREM NoneExpiredEarly == Spec => NoEarlyExpiry
<1>1. ASSUME LockInv, [Next]_vars
      PROVE  \A r \in Rid : rows[r].status # "EXPIRED" /\ rows'[r].status = "EXPIRED"
               => rows[r].status = "HELD" /\ rows[r].expires <= clock
  <2>0. rows \in [Rid -> Reservation]
    BY <1>1 DEF LockInv, Typing, ServicesTypeOK, DBTypeOK
  <2>1. TableStep
    BY <1>1, NextTable
  <2> SUFFICES ASSUME NEW r \in Rid, rows[r].status # "EXPIRED", rows'[r].status = "EXPIRED"
               PROVE  rows[r].status = "HELD" /\ rows[r].expires <= clock
    OBVIOUS
  <2>2. ASSUME NEW R, Lapse(R) PROVE rows[r].status = "HELD" /\ rows[r].expires <= clock
    BY <2>0, <2>2 DEF Lapse, WithStatus
  <2>3. ASSUME NEW x, NEW st, st # "EXPIRED", rows' = WithStatus({x}, st) PROVE FALSE
    BY <2>0, <2>3 DEF WithStatus, Reservation
  <2>4. ASSUME NEW q \in SeatReq, NEW x \in Rid, InsertHold(q, x)
        PROVE  rows[r].status = "HELD" /\ rows[r].expires <= clock
    <3>1. r \in LocksOf(q)
      BY <2>0, <2>4 DEF InsertHold, WithStatus, NewRow
    <3> QED BY <1>1, <3>1, OwnFlipsLapsed
  <2> QED BY <2>1, <2>2, <2>3, <2>4 DEF TableStep, Drop, Confirm
<1> QED BY <1>1, LockInvariant, PTL DEF Spec, NoEarlyExpiry

(* A seat changes hands within one step only by way of a lapsed hold: nobody *)
(* loses a current hold or a confirmed seat to another reservation.          *)
THEOREM NoneDisplaced == Spec => NeverDisplaced
<1>1. ASSUME LockInv, SeatExclusive, [Next]_vars
      PROVE  \A s \in Seat : \A r \in Occupants(s) :
               Occupants(s)' # {} /\ r \notin Occupants(s)'
                 => rows[r].status = "HELD" /\ rows[r].expires < clock
  <2>0. rows \in [Rid -> Reservation]
    BY <1>1 DEF LockInv, Typing, ServicesTypeOK, DBTypeOK
  <2>1. TableStep
    BY <1>1, NextTable
  <2> SUFFICES ASSUME NEW s \in Seat, NEW r \in Occupants(s),
                      NEW r2 \in Occupants(s)', r \notin Occupants(s)'
               PROVE  rows[r].status = "HELD" /\ rows[r].expires < clock
    OBVIOUS
  <2>2. r \in Rid /\ r2 \in Rid /\ r2 # r
    BY DEF Occupants
  <2>3. r2 \notin Occupants(s)
    BY <1>1, <2>2 DEF SeatExclusive
  <2>4. rows' = rows => FALSE
    BY <2>3 DEF Occupants
  <2>5. ASSUME NEW R, NEW st, st \notin {"HELD", "CONFIRMED"}, rows' = WithStatus(R, st) PROVE FALSE
    BY <2>0, <2>2, <2>3, <2>5 DEF Occupants, WithStatus, Reservation
  <2>6. ASSUME NEW x \in Rid, Confirm(x) PROVE FALSE
    <3>1. r2 = x /\ rows[x].seat = s
      BY <2>0, <2>2, <2>3, <2>6 DEF Confirm, Occupants, WithStatus, Reservation
    <3>2. r \in IndexEntries(rows[x].seat) \ {x}
      BY <2>2, <3>1, OccupantsAreEntries
    <3> QED BY <2>6, <3>2 DEF Confirm, SeatConflictOf
  <2>7. ASSUME NEW q \in SeatReq, NEW x \in Rid, InsertHold(q, x)
        PROVE  rows[r].status = "HELD" /\ rows[r].expires < clock
    <3>1. r # x
      BY <2>7 DEF InsertHold, Exists, Occupants
    <3>2. r \in LocksOf(q)
      BY <2>0, <2>2, <2>7, <3>1 DEF InsertHold, Occupants, WithStatus
    <3> QED BY <2>7, <3>2 DEF InsertHold
  <2> QED BY <2>1, <2>4, <2>5, <2>6, <2>7 DEF TableStep, Lapse, Drop
<1> QED BY <1>1, LockInvariant, Exclusive, PTL DEF Spec, NeverDisplaced
=============================================================================
