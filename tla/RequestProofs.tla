---------------------------- MODULE RequestProofs ---------------------------
(***************************************************************************)
(* What requests are answered and what expiry announces.                   *)
(***************************************************************************)
EXTENDS LedgerProofs, FiniteSetTheorems

-----------------------------------------------------------------------------
(* What a step does to a row that is there, and to one that is not. *)

LEMMA RowKept ==
  ASSUME RealInv, TableStep, NEW r \in Rid
  PROVE  /\ Exists(r) => /\ rows'[r].user = rows[r].user /\ rows'[r].status # "NONE"
                         /\ rows[r].status # "HELD" => rows'[r].status # "HELD"
         /\ rows'[r].status = "NONE" => rows'[r].user = rows[r].user
<1>0. rows \in [Rid -> Reservation]
  BY DEF RealInv, LockInv, Typing, ServicesTypeOK, DBTypeOK
<1>1. CASE rows' = rows
  BY <1>1 DEF Exists
<1>2. ASSUME NEW R, NEW st, st \notin {"NONE", "HELD"}, rows' = WithStatus(R, st)
      PROVE  /\ rows'[r].user = rows[r].user
             /\ rows'[r].status = IF r \in R THEN st ELSE rows[r].status
  BY <1>0, <1>2 DEF WithStatus, Reservation
<1>3. ASSUME NEW q \in SeatReq, NEW x \in Rid, InsertHold(q, x)
      PROVE  /\ r # x => /\ rows'[r].user = rows[r].user
                         /\ rows'[r].status = IF r \in LocksOf(q) THEN "EXPIRED" ELSE rows[r].status
             /\ r = x => ~Exists(r) /\ rows'[r].status = "HELD"
  BY <1>0, <1>3 DEF InsertHold, WithStatus, Reservation, NewRow
<1>4. ASSUME NEW R \in SUBSET Rid, Lapse(R) PROVE rows' = WithStatus(R, "EXPIRED")
  BY <1>4 DEF Lapse
<1>5. ASSUME NEW R, NEW st \in {"EXPIRED", "CANCELLED", "FAILED", "CONFIRMED"},
             rows' = WithStatus(R, st), ~Exists(r) => r \notin R
      PROVE  /\ Exists(r) => /\ rows'[r].user = rows[r].user /\ rows'[r].status # "NONE"
                             /\ rows[r].status # "HELD" => rows'[r].status # "HELD"
             /\ rows'[r].status = "NONE" => rows'[r].user = rows[r].user
  BY <1>2, <1>5 DEF Exists
<1>6. CASE \E R \in SUBSET Rid : Lapse(R)
  BY <1>4, <1>5, <1>6 DEF Lapse, Exists
<1>7. CASE \E x \in Rid : Drop(x) \/ Confirm(x)
  <2>1. PICK x \in Rid, st \in {"CANCELLED", "FAILED", "CONFIRMED"} : rows' = WithStatus({x}, st)
    BY <1>7 DEF Drop, Confirm
  <2> QED BY <1>2, <2>1 DEF Exists
<1>8. CASE \E q \in SeatReq, x \in Rid : InsertHold(q, x)
  <2>1. PICK q \in SeatReq, x \in Rid : InsertHold(q, x)
    BY <1>8
  <2>2. CASE r = x
    BY <1>3, <2>1, <2>2
  <2>3. CASE r # x
    BY <1>3, <2>1, <2>3 DEF Exists
  <2> QED BY <2>2, <2>3
<1> QED BY <1>1, <1>6, <1>7, <1>8 DEF TableStep

-----------------------------------------------------------------------------
(* Requests are answered with their caller's reservations. *)

Holding == {"created", "release", "released", "reply"}

\* Absent rows are nobody's.
Vacant == \A r \in Rid : ~Exists(r) => rows[r].user \notin User
Own == \A q \in SeatReq : sreq[q].pc \in Holding => rows[sreq[q].rid].user = sreq[q].user
OwnInv == RealInv /\ Vacant /\ Own

\* A request that acts comes to hold only a reservation of its caller.
LEMMA HoldStepOwn ==
  ASSUME OwnInv, NEW q \in SeatReq, HoldStep(q), sreq'[q].pc \in Holding
  PROVE  /\ sreq'[q].user = sreq[q].user /\ sreq[q].user \in User /\ sreq'[q].rid \in Rid
         /\ \/ rows[sreq'[q].rid].user = sreq[q].user
            \/ rows'[sreq'[q].rid].user = sreq[q].user
<1> DEFINE Goal == /\ sreq'[q].user = sreq[q].user /\ sreq[q].user \in User /\ sreq'[q].rid \in Rid
                   /\ \/ rows[sreq'[q].rid].user = sreq[q].user
                      \/ rows'[sreq'[q].rid].user = sreq[q].user
<1>0. /\ sreq \in [SeatReq -> SeatRequest] /\ SeatShape /\ Own /\ rows \in [Rid -> Reservation]
      /\ sreq[q].pc # "idle" => sreq[q].user \in User
  BY DEF OwnInv, RealInv, LockInv, Typing, ServicesTypeOK, HoldsTypeOK, DBTypeOK, SeatShape
<1>1. ASSUME NEW r \in Rid, Answer(q, r), rows[r].user = sreq[q].user, sreq[q].pc # "idle" PROVE Goal
  BY <1>0, <1>1 DEF Answer
<1>2. ASSUME NEW pc, Goto(q, pc), pc \in Holding => sreq[q].pc \in {"read", "release"},
             sreq[q].pc = "read" => rows[sreq[q].rid].user = sreq[q].user
      PROVE  Goal
  BY <1>0, <1>2 DEF Goto, Own, SeatShape, SeatRequest, Holding
<1>3. ASSUME End(q) PROVE FALSE
  BY <1>0, <1>3 DEF End, NoSeatRequest, Holding
<1>10. CASE LazyExpire(q) \/ LazyFlip(q) \/ DeadlockVictim(q)
  <2>1. ASSUME NEW R, Visit(q, R) PROVE FALSE
    <3>1. ASSUME NEW pc \in {"flip", "replay"}, NEW r, NEW T,
                 sreq' = [sreq EXCEPT ![q].pc = pc, ![q].rid = r, ![q].todo = T]
          PROVE  FALSE
      BY <1>0, <3>1 DEF SeatRequest, Holding
    <3>2. "flip" \in {"flip", "replay"} /\ "replay" \in {"flip", "replay"}
      OBVIOUS
    <3> QED BY <2>1, <3>1, <3>2, Zenon DEF Visit
  <2> QED BY <1>3, <1>10, <2>1 DEF LazyExpire, LazyFlip, DeadlockVictim
<1>4. CASE Replay(q) \/ FindExisting(q) \/ CountHeld(q) \/ Winner(q)
  <2>2. CASE Replay(q)
    BY <1>1, <1>2, <1>3, <2>2 DEF Replay, ReplayOf, Holding
  <2>3. CASE FindExisting(q)
    BY <1>1, <1>2, <2>3 DEF FindExisting, ExistingOf, Holding
  <2>4. CASE CountHeld(q)
    BY <1>2, <1>3, <2>4 DEF CountHeld, Holding
  <2>5. CASE Winner(q)
    BY <1>1, <1>3, <2>5 DEF Winner, ReplayOf
  <2> QED BY <1>4, <2>2, <2>3, <2>4, <2>5
<1>5. CASE Insert(q)
  <2>1. CASE Goto(q, "winner")
    BY <1>0, <2>1 DEF Goto, SeatRequest, Holding
  <2>2. ASSUME NEW r \in Rid, rows' = [WithStatus(LocksOf(q), "EXPIRED") EXCEPT ![r] = NewRow(q)],
               sreq' = [sreq EXCEPT ![q].pc = "created", ![q].rid = r], sreq[q].pc = "insert"
        PROVE  Goal
    <3>1. rows'[r].user = sreq[q].user
      BY <2>2 DEF WithStatus, NewRow
    <3>2. sreq'[q].user = sreq[q].user /\ sreq'[q].rid = r
      BY <1>0, <2>2 DEF SeatRequest
    <3> QED BY <1>0, <2>2, <3>1, <3>2
  <2> QED BY <1>3, <1>5, <2>1, <2>2 DEF Insert
<1>6. CASE Created(q) \/ Released(q)
  BY <1>0, <1>1, <1>6 DEF Created, Released, Own, SeatShape, Holding
<1>7. CASE CancelRead(q)
  BY <1>0, <1>1, <1>2, <1>3, <1>7 DEF CancelRead, SeatShape
<1>8. CASE CancelWrite(q)
  BY <1>0, <1>2, <1>8 DEF CancelWrite
<1>9. CASE Reply(q)
  BY <1>3, <1>9 DEF Reply
<1> QED BY <1>4, <1>5, <1>6, <1>7, <1>8, <1>9, <1>10 DEF HoldStep

\* Whoever does not act keeps their request or loses it.
LEMMA OthersKept ==
  ASSUME OwnInv, [Next]_vars, NEW q \in SeatReq, sreq'[q].pc \in Holding
  PROVE  sreq'[q] = sreq[q] \/ HoldStep(q)
<1>0. sreq \in [SeatReq -> SeatRequest]
  BY DEF OwnInv, RealInv, LockInv, Typing, ServicesTypeOK, HoldsTypeOK
<1>1. ASSUME NEW x \in SeatReq, HoldStep(x), x # q PROVE sreq'[q] = sreq[q]
  BY <1>0, <1>1
  DEF HoldStep, LazyExpire, LazyFlip, Visit, Replay, FindExisting, CountHeld, Insert, Created,
      Winner, CancelRead, CancelWrite, Released, Reply, DeadlockVictim, Goto, Answer, End
<1>2. ASSUME Call PROVE sreq'[q] = sreq[q]
  BY <1>0, <1>2 DEF Call, BeginHold, BeginCancel, BeginPay, seatVars, Holding
<1>3. ASSUME NEW x \in SeatReq, Abort(x) PROVE sreq'[q] = sreq[q]
  BY <1>0, <1>3 DEF Abort, End, NoSeatRequest, Holding
<1>4. ASSUME NEW i \in Inst, Crash(i) PROVE sreq'[q] = sreq[q]
  BY <1>0, <1>4 DEF Crash, NoSeatRequest, Holding
<1> QED BY <1>1, <1>2, <1>3, <1>4 DEF Next, SeatSvc, PaymentSvc, Clock, seatVars, vars

LEMMA NextOwn == OwnInv /\ [Next]_vars => OwnInv'
<1> SUFFICES ASSUME OwnInv, [Next]_vars PROVE OwnInv'
  OBVIOUS
<1>0. RealInv' /\ TableStep
  BY NextReal, NextTable DEF OwnInv, RealInv
<1>1. \A r \in Rid : /\ Exists(r) => rows'[r].user = rows[r].user /\ rows'[r].status # "NONE"
                     /\ rows'[r].status = "NONE" => rows'[r].user = rows[r].user
  BY <1>0, RowKept DEF OwnInv
<1>2. Vacant'
  <2> SUFFICES ASSUME NEW r \in Rid, rows'[r].status = "NONE" PROVE rows'[r].user \notin User
    BY DEF Vacant, Exists
  <2>1. ~Exists(r) /\ rows'[r].user = rows[r].user
    BY <1>1 DEF Exists
  <2> QED BY <2>1 DEF OwnInv, Vacant
<1>3. Own'
  <2> SUFFICES ASSUME NEW q \in SeatReq, sreq'[q].pc \in Holding
               PROVE  rows'[sreq'[q].rid].user = sreq'[q].user
    BY DEF Own
  <2>1. /\ sreq'[q].user \in User /\ sreq'[q].rid \in Rid
        /\ \/ rows[sreq'[q].rid].user = sreq'[q].user
           \/ rows'[sreq'[q].rid].user = sreq'[q].user
    <3>1. CASE sreq'[q] = sreq[q]
      BY <3>1 DEF OwnInv, Own, Holding, RealInv, LockInv, Typing, SeatShape
    <3>2. CASE HoldStep(q)
      BY <3>2, HoldStepOwn
    <3> QED BY <3>1, <3>2, OthersKept
  <2>2. rows[sreq'[q].rid].user = sreq'[q].user => Exists(sreq'[q].rid)
    BY <2>1 DEF OwnInv, Vacant
  <2>3. CASE rows[sreq'[q].rid].user = sreq'[q].user
    <3> DEFINE r == sreq'[q].rid
    <3>1. r \in Rid /\ Exists(r) /\ rows[r].user = sreq'[q].user
      BY <2>1, <2>2, <2>3
    <3>2. rows'[r].user = rows[r].user
      <4> HIDE DEF r
      <4> QED BY <1>1, <3>1
    <3> QED BY <3>1, <3>2
  <2> QED BY <2>1, <2>3
<1> QED BY <1>0, <1>2, <1>3 DEF OwnInv

LEMMA OwnInvariant == Spec => []OwnInv
<1>1. Init => OwnInv
  <2> SUFFICES ASSUME Init PROVE OwnInv
    OBVIOUS
  <2>1. RealInv
    BY InitIsLedger
  <2>2. Vacant /\ Own
    BY NoneAssumption DEF Init, DBInit, HoldsInit, Absent, NoSeatRequest, Vacant, Own, Holding
  <2> QED BY <2>1, <2>2 DEF OwnInv
<1> QED BY <1>1, NextOwn, PTL DEF Spec

(* However retries, lost races for a key, cancels and crashes interleave, a  *)
(* caller is only ever answered with a reservation of their own.             *)
THEOREM AnsweredOwn == Spec => []AnswersOwn
<1>1. OwnInv => AnswersOwn
  BY DEF OwnInv, Own, AnswersOwn, Holding
<1> QED BY <1>1, OwnInvariant, PTL

-----------------------------------------------------------------------------
(* An expiry is announced at most once. *)

Told(r) == told[r]["hold_expired"]
Silent(r) == Told(r) = 0 /\ \A i \in Inst : r \notin due[i] /\ r \notin swept[i]

\* Of one expiry there is at most one announcement, made or owed.
Single(r) ==
  /\ Told(r) \in {0, 1}
  /\ Told(r) = 1 => \A i \in Inst : r \notin due[i] /\ r \notin swept[i]
  /\ \A i, j \in Inst : r \in due[i] => r \notin swept[j] /\ (r \in due[j] => i = j)
  /\ \A i, j \in Inst : r \in swept[i] /\ r \in swept[j] => i = j

\* A reservation that is not given out or still on hold has none.
Once == \A r \in Rid : Single(r) /\ (rows[r].status \in {"NONE", "HELD"} => Silent(r))
OnceInv == RealInv /\ Once

LEMMA ExpiryTypes ==
  ASSUME RealInv
  PROVE  /\ told \in [Rid -> [SeatEvent -> Nat]]
         /\ due \in [Inst -> SUBSET Rid] /\ swept \in [Inst -> SUBSET Rid]
         /\ sreq \in [SeatReq -> SeatRequest] /\ rows \in [Rid -> Reservation]
BY DEF RealInv, LockInv, Typing, ServicesTypeOK, ExpiryTypeOK, HoldsTypeOK, DBTypeOK

\* No row comes to be given out or on hold that was past that.
LEMMA NotBackOnHold ==
  ASSUME RealInv, TableStep, NEW r \in Rid, rows'[r].status \in {"NONE", "HELD"}
  PROVE  rows[r].status \in {"NONE", "HELD"}
BY RowKept DEF Exists

\* Nothing is announced, nothing new is owed.
LEMMA QuietStep ==
  ASSUME OnceInv, TableStep, \A r \in Rid : Told(r)' = Told(r),
         \A i \in Inst : due'[i] \subseteq due[i] /\ swept'[i] \subseteq swept[i]
  PROVE  Once'
<1> SUFFICES ASSUME NEW r \in Rid
             PROVE  Single(r)' /\ (rows'[r].status \in {"NONE", "HELD"} => Silent(r)')
  BY DEF Once
<1>1. Single(r) /\ (rows[r].status \in {"NONE", "HELD"} => Silent(r))
  BY DEF OnceInv, Once
<1>2. Single(r)'
  BY <1>1 DEF Single
<1>3. ASSUME rows'[r].status \in {"NONE", "HELD"} PROVE Silent(r)'
  BY <1>1, <1>3, NotBackOnHold DEF OnceInv, Silent
<1> QED BY <1>2, <1>3

\* The reservations in R turn from held to expired, and instance e owes them.
LEMMA FlipStep ==
  ASSUME OnceInv, NEW R \in SUBSET Rid, NEW e \in Inst, rows' = WithStatus(R, "EXPIRED"),
         \A r \in R : rows[r].status = "HELD",
         \A r \in Rid : Told(r)' = Told(r),
         due' = due \/ swept' = swept,
         \A r \in Rid, i \in Inst :
           /\ r \in due'[i] => r \in due[i] \/ (r \in R /\ i = e)
           /\ r \in swept'[i] => r \in swept[i] \/ (r \in R /\ i = e)
  PROVE  Once'
<1> SUFFICES ASSUME NEW r \in Rid
             PROVE  Single(r)' /\ (rows'[r].status \in {"NONE", "HELD"} => Silent(r)')
  BY DEF Once
<1>1. Single(r) /\ (rows[r].status \in {"NONE", "HELD"} => Silent(r))
  BY DEF OnceInv, Once
<1>2. rows'[r].status = IF r \in R THEN "EXPIRED" ELSE rows[r].status
  BY ExpiryTypes DEF OnceInv, WithStatus, Reservation
<1>3. CASE r \in R
  <2>1. Silent(r)
    BY <1>1, <1>3
  <2>2. /\ Told(r)' = 0
        /\ \A i \in Inst : (r \in due'[i] => i = e) /\ (r \in swept'[i] => i = e)
        /\ \A i, j \in Inst : ~(r \in due'[i] /\ r \in swept'[j])
    BY <1>3, <2>1 DEF Silent
  <2>3. Single(r)'
    BY <2>2 DEF Single
  <2> QED BY <1>2, <1>3, <2>3
<1>4. CASE r \notin R
  <2>1. \A i \in Inst : (r \in due'[i] => r \in due[i]) /\ (r \in swept'[i] => r \in swept[i])
    BY <1>4
  <2>2. Single(r)'
    BY <1>1, <2>1 DEF Single
  <2>3. ASSUME rows'[r].status \in {"NONE", "HELD"} PROVE Silent(r)'
    BY <1>1, <1>2, <1>4, <2>1, <2>3 DEF Silent
  <2> QED BY <2>2, <2>3
<1> QED BY <1>3, <1>4

\* The reservations in R are announced by the one that owes them.
LEMMA AnnounceStep ==
  ASSUME OnceInv, NEW R \in SUBSET Rid, rows' = rows,
         \A r \in Rid : Told(r)' = IF r \in R THEN Told(r) + 1 ELSE Told(r),
         \A r \in R : \E i \in Inst : r \in due[i] \/ r \in swept[i],
         \A i \in Inst : due'[i] \subseteq due[i] /\ swept'[i] \subseteq swept[i],
         \A r \in R, i \in Inst : r \notin due'[i] /\ r \notin swept'[i]
  PROVE  Once'
<1> SUFFICES ASSUME NEW r \in Rid
             PROVE  Single(r)' /\ (rows'[r].status \in {"NONE", "HELD"} => Silent(r)')
  BY DEF Once
<1>1. Single(r) /\ (rows[r].status \in {"NONE", "HELD"} => Silent(r))
  BY DEF OnceInv, Once
<1>2. CASE r \in R
  <2>1. Told(r) = 0 /\ rows[r].status \notin {"NONE", "HELD"}
    BY <1>1, <1>2 DEF Single, Silent
  <2>2. Told(r)' = 1
    BY <1>2, <2>1
  <2>3. Single(r)'
    BY <1>2, <2>2 DEF Single
  <2> QED BY <2>1, <2>3
<1>3. CASE r \notin R
  BY <1>1, <1>3 DEF Single, Silent
<1> QED BY <1>2, <1>3

LEMMA ExpiryStepOnce ==
  ASSUME OnceInv, TableStep, NEW e \in Inst, ExpiryStep(e)
  PROVE  Once'
<1>0. /\ told \in [Rid -> [SeatEvent -> Nat]] /\ rows \in [Rid -> Reservation]
      /\ due \in [Inst -> SUBSET Rid] /\ swept \in [Inst -> SUBSET Rid]
      /\ "hold_expired" \in SeatEvent
  BY ExpiryTypes DEF OnceInv, SeatEvent
<1>1. ASSUME NEW r \in Rid, TimerFire(e, r) PROVE Once'
  <2>1. CASE TimerGuard(r)
    <3>1. /\ rows' = WithStatus({r}, "EXPIRED") /\ rows[r].status = "HELD"
          /\ swept' = swept /\ told' = told /\ due' = [due EXCEPT ![e] = @ \cup {r}]
      BY <1>1, <2>1 DEF TimerFire, TimerGuard
    <3>2. /\ \A x \in Rid : Told(x)' = Told(x)
          /\ \A x \in Rid, i \in Inst : x \in due'[i] => x \in due[i] \/ (x \in {r} /\ i = e)
      BY <1>0, <3>1 DEF Told
    <3> HIDE DEF Told
    <3> QED BY <3>1, <3>2, FlipStep
  <2>2. CASE ~TimerGuard(r)
    <3>1. due' = due /\ swept' = swept /\ told' = told
      BY <1>1, <2>2 DEF TimerFire
    <3> QED BY <3>1, QuietStep DEF Told
  <2> QED BY <2>1, <2>2
<1>2. ASSUME NEW r \in Rid, TimerFail(e, r) PROVE Once'
  <2>1. /\ \A i \in Inst : due'[i] \subseteq due[i]
        /\ swept' = swept /\ told' = told
    BY <1>0, <1>2 DEF TimerFail
  <2> QED BY <2>1, QuietStep DEF Told
<1>3. ASSUME NEW r \in Rid, TimerPublish(e, r) PROVE Once'
  <2>1. /\ rows' = rows /\ swept' = swept /\ r \in due[e]
        /\ due' = [due EXCEPT ![e] = @ \ {r}]
        /\ \A x \in Rid : Told(x)' = IF x \in {r} THEN Told(x) + 1 ELSE Told(x)
    BY <1>0, <1>3 DEF TimerPublish, Publish, Told, dbVars
  <2>2. Single(r)
    BY DEF OnceInv, Once
  <2>3. /\ \A i \in Inst : due'[i] \subseteq due[i]
        /\ \A i \in Inst : r \notin due'[i] /\ r \notin swept'[i]
    BY <1>0, <2>1, <2>2 DEF Single
  <2> QED BY <2>1, <2>3, AnnounceStep
<1>4. CASE SweepUpdate(e)
  <2>1. /\ rows' = WithStatus(StaleAt(clock), "EXPIRED") /\ StaleAt(clock) \in SUBSET Rid
        /\ due' = due /\ told' = told /\ swept' = [swept EXCEPT ![e] = StaleAt(clock)]
        /\ \A r \in StaleAt(clock) : rows[r].status = "HELD"
    BY <1>4 DEF SweepUpdate, StaleAt
  <2>2. /\ \A x \in Rid : Told(x)' = Told(x)
        /\ \A x \in Rid, i \in Inst :
             x \in swept'[i] => x \in swept[i] \/ (x \in StaleAt(clock) /\ i = e)
    BY <1>0, <2>1 DEF Told
  <2> QED BY <2>1, <2>2, FlipStep
<1>5. CASE SweepFail(e)
  <2>1. /\ \A i \in Inst : swept'[i] \subseteq swept[i]
        /\ due' = due /\ told' = told
    BY <1>0, <1>5 DEF SweepFail
  <2> QED BY <2>1, QuietStep DEF Told
<1>6. CASE SweepPublish(e)
  <2>1. /\ rows' = rows /\ due' = due /\ swept' = [swept EXCEPT ![e] = {}]
        /\ swept[e] \in SUBSET Rid
        /\ \A x \in Rid : Told(x)' = IF x \in swept[e] THEN Told(x) + 1 ELSE Told(x)
    BY <1>0, <1>6 DEF SweepPublish, Publish, Told, dbVars
  <2>2. \A r \in Rid : Single(r)
    BY DEF OnceInv, Once
  <2>3. /\ \A i \in Inst : swept'[i] \subseteq swept[i]
        /\ \A r \in swept[e], i \in Inst : r \notin due'[i] /\ r \notin swept'[i]
    BY <1>0, <2>1, <2>2 DEF Single
  <2> QED BY <2>1, <2>3, AnnounceStep
<1>7. CASE SweepLock(e) \/ SweepUnlock(e) \/ SweepUnlockFail(e)
  <2>1. due' = due /\ swept' = swept /\ told' = told
    BY <1>7 DEF SweepLock, SweepUnlock, SweepUnlockFail
  <2> QED BY <2>1, QuietStep DEF Told
<1> QED BY <1>1, <1>2, <1>3, <1>4, <1>5, <1>6, <1>7 DEF ExpiryStep

\* Requests announce that a hold begins or is cancelled, never that it expired.
LEMMA OtherStepQuiet ==
  ASSUME OnceInv, [Next]_vars, \A i \in Inst : ~ExpiryStep(i)
  PROVE  /\ \A r \in Rid : Told(r)' = Told(r)
         /\ \A i \in Inst : due'[i] \subseteq due[i] /\ swept'[i] \subseteq swept[i]
<1> DEFINE Quiet == /\ \A r \in Rid : Told(r)' = Told(r)
                    /\ \A i \in Inst : due'[i] \subseteq due[i] /\ swept'[i] \subseteq swept[i]
<1>0. /\ told \in [Rid -> [SeatEvent -> Nat]]
      /\ due \in [Inst -> SUBSET Rid] /\ swept \in [Inst -> SUBSET Rid]
  BY ExpiryTypes DEF OnceInv
<1>1. ASSUME told' = told, due' = due, swept' = swept PROVE Quiet
  BY <1>1 DEF Told
<1>2. ASSUME NEW R, NEW t \in {"hold_created", "hold_cancelled"}, Publish(R, t),
             due' = due, swept' = swept
      PROVE  Quiet
  BY <1>0, <1>2 DEF Publish, Told, SeatEvent
<1>3. ASSUME NEW q \in SeatReq, HoldStep(q) PROVE Quiet
  <2>1. CASE Created(q) \/ Released(q)
    BY <1>2, <2>1 DEF Created, Released
  <2>2. CASE ~(Created(q) \/ Released(q))
    <3>1. UNCHANGED expiryVars
      BY <1>3, <2>2
      DEF HoldStep, LazyExpire, LazyFlip, Replay, FindExisting, CountHeld, Insert, Winner,
          CancelRead, CancelWrite, Reply, DeadlockVictim, Rollback, CommitFlips, NotDB, OnlyReads
    <3> QED BY <1>1, <3>1 DEF expiryVars
  <2> QED BY <2>1, <2>2
<1>4. ASSUME NEW q \in SeatReq, Abort(q) PROVE Quiet
  BY <1>1, <1>4 DEF Abort
<1>5. ASSUME NEW i \in Inst, Crash(i) PROVE Quiet
  BY <1>0, <1>5 DEF Crash, Told
<1>6. CASE Call
  BY <1>1, <1>6 DEF Call, BeginHold, BeginCancel, OnlyReads, seatVars, expiryVars
<1>7. CASE PaymentSvc \/ Clock \/ UNCHANGED vars
  BY <1>1, <1>7 DEF PaymentSvc, Clock, vars, seatVars, expiryVars
<1> QED BY <1>3, <1>4, <1>5, <1>6, <1>7 DEF Next, SeatSvc

LEMMA OnceInvariant == Spec => []OnceInv
<1>1. Init => OnceInv
  <2> SUFFICES ASSUME Init PROVE OnceInv
    OBVIOUS
  <2>1. RealInv
    BY InitIsLedger
  <2>2. Once
    BY DEF Init, ExpiryInit, SeatEvent, Once, Single, Silent, Told
  <2> QED BY <2>1, <2>2 DEF OnceInv
<1>2. OnceInv /\ [Next]_vars => OnceInv'
  <2> SUFFICES ASSUME OnceInv, [Next]_vars PROVE OnceInv'
    OBVIOUS
  <2>1. RealInv' /\ TableStep
    BY NextReal, NextTable DEF OnceInv, RealInv
  <2>2. CASE \E i \in Inst : ExpiryStep(i)
    BY <2>1, <2>2, ExpiryStepOnce DEF OnceInv
  <2>3. CASE \A i \in Inst : ~ExpiryStep(i)
    BY <2>1, <2>3, OtherStepQuiet, QuietStep DEF OnceInv
  <2> QED BY <2>1, <2>2, <2>3 DEF OnceInv
<1> QED BY <1>1, <1>2, PTL DEF Spec

(* Timers and sweepers of any number of instances, lazy expiries and crashes *)
(* never announce the expiry of one reservation twice.                       *)
THEOREM AnnouncedOnce == Spec => []ExpiredOnce
<1>1. OnceInv => ExpiredOnce
  <2> SUFFICES ASSUME OnceInv, NEW r \in Rid PROVE Announcements(r) <= 1
    BY DEF ExpiredOnce
  <2> DEFINE D == {i \in Inst : r \in due[i]}
             W == {i \in Inst : r \in swept[i]}
  <2>1. /\ Told(r) \in {0, 1}
        /\ Told(r) = 1 => D = {} /\ W = {}
        /\ D = {} \/ W = {}
        /\ D = {} \/ \E i : D = {i}
        /\ W = {} \/ \E i : W = {i}
    <3>1. Single(r)
      BY DEF OnceInv, Once
    <3>2. \A i, j \in D : i = j
      BY <3>1 DEF Single
    <3>3. \A i, j \in W : i = j
      BY <3>1 DEF Single
    <3>4. \A i \in D, j \in W : FALSE
      BY <3>1 DEF Single
    <3> HIDE DEF D, W
    <3>5. D = {} \/ \E i : D = {i}
      BY <3>2
    <3>6. W = {} \/ \E i : W = {i}
      BY <3>3
    <3>7. D = {} \/ W = {}
      BY <3>4
    <3>8. Told(r) \in {0, 1} /\ (Told(r) = 1 => D = {} /\ W = {})
      BY <3>1 DEF Single, D, W
    <3> QED BY <3>5, <3>6, <3>7, <3>8
  <2> HIDE DEF D, W
  <2>2. /\ D = {} => Cardinality(D) = 0
        /\ W = {} => Cardinality(W) = 0
        /\ Cardinality(D) \in {0, 1} /\ Cardinality(W) \in {0, 1}
    BY <2>1, FS_EmptySet, FS_Singleton
  <2>3. Told(r) + Cardinality(D) + Cardinality(W) <= 1
    BY <2>1, <2>2
  <2> QED BY <2>3 DEF Announcements, Told, D, W
<1> QED BY <1>1, OnceInvariant, PTL
=============================================================================
