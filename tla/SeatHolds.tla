----------------------------- MODULE SeatHolds ------------------------------
(***************************************************************************)
(* The writing routes of seat-svc (routes/reservations.ts): POST holds a   *)
(* seat in one interactive transaction of five statements, DELETE releases *)
(* a hold with a read and a separate write.  A member of SeatReq is a      *)
(* request being served; sreq[q].pc is the await it is suspended at:       *)
(*   lazy, replay, existing, count, insert   statements of the transaction *)
(*   flip        inside the first statement: it has come to row rid        *)
(*   created     committed, the timer is not armed yet                     *)
(*   winner      lost the idempotency-key race, transaction rolled back    *)
(*   release     DELETE has read HELD, its update is next                  *)
(*   released    the update is done, the timer is still armed              *)
(*   reply       the answer names reservation sreq[q].rid                  *)
(* A refusal (404, 409, 500) ends the request: the slot is idle again.     *)
(***************************************************************************)
EXTENDS HoldExpiry

CONSTANTS
  UnknownSeat,  \* a seat id that is not in the table
  MaxActive,    \* MAX_ACTIVE_RESERVATIONS_PER_USER
  PostWhenFull  \* FALSE: no POST begins when Rid is used up (a bound)

ASSUME UnknownSeatAssumption == UnknownSeat \notin Seat /\ UnknownSeat # None
ASSUME MaxActiveAssumption == MaxActive \in Nat \ {0}
ASSUME PostWhenFullAssumption == PostWhenFull \in BOOLEAN

VARIABLE sreq  \* the seat-svc requests in flight

seatVars == <<expiryVars, sreq>>

HoldPc == {"lazy", "flip", "replay", "existing", "count", "insert"}  \* in the transaction
SeatPc == HoldPc \cup {"idle", "created", "winner", "read", "release", "released", "reply"}

SeatRequest ==
  [pc : SeatPc, inst : Inst \cup {None}, user : User \cup {None},
   seat : Seat \cup {UnknownSeat, None}, key : Key \cup {None},
   rid : Rid \cup {None}, now : 0 .. MaxClock, todo : SUBSET Rid]

NoSeatRequest == [pc |-> "idle", inst |-> None, user |-> None, seat |-> None,
                  key |-> None, rid |-> None, now |-> 0, todo |-> {}]

HoldsTypeOK == sreq \in [SeatReq -> SeatRequest]

HoldsInit == sreq = [q \in SeatReq |-> NoSeatRequest]

Goto(q, pc) == sreq' = [sreq EXCEPT ![q].pc = pc]
Answer(q, r) ==
  sreq' = [sreq EXCEPT ![q] = [pc |-> "reply", inst |-> None, user |-> sreq[q].user,
                               seat |-> sreq[q].seat, key |-> None, rid |-> r, now |-> 0,
                               todo |-> {}]]
End(q) == sreq' = [sreq EXCEPT ![q] = NoSeatRequest]

NotDB == UNCHANGED expiryVars
OnlyReads == UNCHANGED <<dbVars, expiryVars>>

-----------------------------------------------------------------------------
(* POST /reservations *)

BeginHold(q, i, u, s, k) ==
  /\ sreq[q].pc = "idle"
  /\ PostWhenFull \/ \E r \in Rid : ~Exists(r)
  /\ sreq' = [sreq EXCEPT ![q] = [pc |-> "lazy", inst |-> i, user |-> u, seat |-> s,
                                  key |-> k, rid |-> None, now |-> clock, todo |-> {}]]
  /\ OnlyReads

\* q's scan has rows R left to visit: it comes to one of them, in no order the
\* code prescribes, or the statement is over.
Visit(q, R) ==
  \/ R = {} /\ sreq' = [sreq EXCEPT ![q].pc = "replay", ![q].rid = None, ![q].todo = {}]
  \/ \E r \in R : sreq' = [sreq EXCEPT ![q].pc = "flip", ![q].rid = r, ![q].todo = R]

\* updateMany, inside the transaction: its snapshot has every stale hold of every
\* user.
LazyExpire(q) ==
  /\ sreq[q].pc = "lazy"
  /\ Visit(q, StaleAt(sreq[q].now))
  /\ OnlyReads

\* The row the scan has come to: its lock is waited for, and the WHERE clause is
\* evaluated again.
LazyFlip(q) ==
  LET r == sreq[q].rid IN
  /\ sreq[q].pc = "flip"
  /\ locks[r] = None
  /\ locks' = IF r \in StaleAt(sreq[q].now) THEN [locks EXCEPT ![r] = q] ELSE locks
  /\ Visit(q, sreq[q].todo \ {r})
  /\ UNCHANGED <<clock, rows, payments, outbox>> /\ NotDB

\* Mutant: the transaction of a refused request is left open.
LeftOpen(q) == sreq[q].pc \in HoldPc /\ OnlyReads

\* A throw inside the transaction: the lazy flips are undone.
Rollback(q) ==
  /\ locks' = Unlocked(q)
  /\ UNCHANGED <<clock, rows, payments, outbox>> /\ NotDB

\* Commit of a transaction that inserted nothing: the lazy flips take effect.
CommitFlips(q) ==
  /\ rows' = WithStatus(LocksOf(q), "EXPIRED")
  /\ locks' = Unlocked(q)
  /\ UNCHANGED <<clock, payments, outbox>> /\ NotDB

\* The row findUnique({ idempotencyKey }) returns.
ReplayOf(q) == {r \in Rid : sreq[q].key # None /\ rows[r].key = sreq[q].key}

Replay(q) ==
  /\ sreq[q].pc = "replay"
  /\ \/ /\ \/ sreq[q].seat = UnknownSeat                             \* seat_not_found
           \/ \E r \in ReplayOf(q) : rows[r].user # sreq[q].user     \* idempotency_key_conflict
        /\ End(q) /\ Rollback(q)
     \/ /\ sreq[q].seat # UnknownSeat
        /\ \E r \in ReplayOf(q) :
             rows[r].user = sreq[q].user /\ Answer(q, r) /\ CommitFlips(q)
     \/ /\ sreq[q].seat # UnknownSeat /\ ReplayOf(q) = {}
        /\ Goto(q, "existing") /\ OnlyReads

\* The caller's own active reservation of the seat.
ExistingOf(q) ==
  {r \in Rid : /\ rows[r].seat = sreq[q].seat /\ rows[r].user = sreq[q].user
               /\ Seen(r, q) \in Active}

FindExisting(q) ==
  /\ sreq[q].pc = "existing"
  /\ \/ \E r \in ExistingOf(q) : Answer(q, r) /\ CommitFlips(q)
     \/ ExistingOf(q) = {} /\ Goto(q, "count") /\ OnlyReads

HeldBy(u, q) == {r \in Rid : rows[r].user = u /\ Seen(r, q) = "HELD"}

\* heldCount >= maxActiveReservationsPerUser
AtLimit(q) == Cardinality(HeldBy(sreq[q].user, q)) >= MaxActive

CountHeld(q) ==
  /\ sreq[q].pc = "count"
  /\ \/ AtLimit(q) /\ End(q) /\ Rollback(q)                          \* reservation_limit
     \/ ~AtLimit(q) /\ Goto(q, "insert") /\ OnlyReads

\* Mutant: the TTL is added in the wrong unit.
RowInMillis(q) == [status |-> "HELD", seat |-> sreq[q].seat, user |-> sreq[q].user,
                   key |-> sreq[q].key, expires |-> sreq[q].now + 1000 * HoldTtl]

NewRow(q) == [status |-> "HELD", seat |-> sreq[q].seat, user |-> sreq[q].user,
              key |-> sreq[q].key, expires |-> sreq[q].now + HoldTtl]

\* create and commit, or P2002 from the first unique index that objects: the
\* idempotency key's is older than the partial one.
Insert(q) ==
  /\ sreq[q].pc = "insert"
  /\ \/ /\ KeyConflict(sreq[q].key)
        /\ Goto(q, "winner") /\ Rollback(q)
     \/ /\ ~KeyConflict(sreq[q].key)
        /\ ~SeatInDoubt(sreq[q].seat, q) /\ SeatConflict(sreq[q].seat, q)
        /\ End(q) /\ Rollback(q)                                     \* seat_unavailable
     \/ (\A r \in Rid : Exists(r)) /\ End(q) /\ Rollback(q)            \* Rid is used up
     \/ /\ ~KeyConflict(sreq[q].key) /\ ~SeatConflict(sreq[q].seat, q)
        /\ \E r \in Rid :
             /\ ~Exists(r)
             /\ rows' = [WithStatus(LocksOf(q), "EXPIRED") EXCEPT ![r] = NewRow(q)]
             /\ sreq' = [sreq EXCEPT ![q].pc = "created", ![q].rid = r]
        /\ locks' = Unlocked(q)
        /\ UNCHANGED <<clock, payments, outbox>> /\ NotDB

\* scheduleHoldExpiry, publishSeatChange, 201.
Created(q) ==
  /\ sreq[q].pc = "created"
  /\ timers' = [timers EXCEPT ![sreq[q].inst] = @ \cup {sreq[q].rid}]
  /\ Publish({sreq[q].rid}, "hold_created")
  /\ Answer(q, sreq[q].rid)
  /\ UNCHANGED <<dbVars, due, sweep, swept, holder, extra, faults>>

\* Mutant: the winner is returned whoever it belongs to.
AnyWinner(q) ==
  /\ sreq[q].pc = "winner"
  /\ \E r \in ReplayOf(q) : Answer(q, r)
  /\ OnlyReads

\* The reservation the winning request created, if it is the caller's.
Winner(q) ==
  /\ sreq[q].pc = "winner"
  /\ \/ \E r \in ReplayOf(q) : rows[r].user = sreq[q].user /\ Answer(q, r)
     \/ (\A r \in ReplayOf(q) : rows[r].user # sreq[q].user) /\ End(q)
  /\ OnlyReads

-----------------------------------------------------------------------------
(* DELETE /reservations/:id *)

BeginCancel(q, i, u, r) ==
  /\ sreq[q].pc = "idle"
  /\ sreq' = [sreq EXCEPT ![q] = [pc |-> "read", inst |-> i, user |-> u, seat |-> None,
                                  key |-> None, rid |-> r, now |-> 0, todo |-> {}]]
  /\ OnlyReads

\* Mutant: a confirmed reservation is released like a hold.
CancelAny(q) ==
  LET row == rows[sreq[q].rid] IN
  /\ sreq[q].pc = "read"
  /\ \/ row.user # sreq[q].user /\ End(q)
     \/ row.user = sreq[q].user /\ row.status \in Active /\ Goto(q, "release")
     \/ row.user = sreq[q].user /\ row.status \notin Active /\ Answer(q, sreq[q].rid)
  /\ OnlyReads

CancelRead(q) ==
  LET row == rows[sreq[q].rid] IN
  /\ sreq[q].pc = "read"
  /\ \/ /\ row.user # sreq[q].user \/ row.status = "CONFIRMED"       \* 404, 409
        /\ End(q)
     \/ row.user = sreq[q].user /\ row.status = "HELD" /\ Goto(q, "release")
     \/ /\ row.user = sreq[q].user /\ row.status \notin Active
        /\ Answer(q, sreq[q].rid)
  /\ OnlyReads

\* update({ where: { id } }): whatever the status is by now.
CancelWrite(q) ==
  /\ sreq[q].pc = "release"
  /\ locks[sreq[q].rid] = None
  /\ rows' = WithStatus({sreq[q].rid}, "CANCELLED")
  /\ Goto(q, "released")
  /\ UNCHANGED <<clock, locks, payments, outbox>> /\ NotDB

\* cancelHoldExpiry, publishSeatChange, 200.
Released(q) ==
  /\ sreq[q].pc = "released"
  /\ timers' = [timers EXCEPT ![sreq[q].inst] = @ \ {sreq[q].rid}]
  /\ Publish({sreq[q].rid}, "hold_cancelled")
  /\ Answer(q, sreq[q].rid)
  /\ UNCHANGED <<dbVars, due, sweep, swept, holder, extra, faults>>

-----------------------------------------------------------------------------
Reply(q) == sreq[q].pc = "reply" /\ End(q) /\ OnlyReads

\* The transactions q's waits for: that of the flipped row it is about to flip,
\* or to insert beside.
Blockers(q) ==
  {locks[r] : r \in {x \in Rid : \/ sreq[q].pc = "flip" /\ x = sreq[q].rid
                               \/ /\ sreq[q].pc = "insert" /\ ~KeyConflict(sreq[q].key)
                                  /\ x \in IndexEntries(sreq[q].seat)}} \ {None, q}

\* Mutant: nobody looks for cycles.
Undetected(q) == FALSE

\* q is on a cycle of waiting transactions.
Deadlocked(q) ==
  \E S \in SUBSET SeatReq : q \in S /\ \A x \in S :
     Blockers(x) \cap S # {} /\ \E y \in S : x \in Blockers(y)

\* deadlock_timeout: Postgres aborts one transaction of the cycle, a 500.
DeadlockVictim(q) == Deadlocked(q) /\ End(q) /\ Rollback(q)

\* An await on the database fails (timeout, connection): a 500.  When it is the
\* answer to a commit that is lost, pc is "created" or "released".
Abort(q) ==
  /\ sreq[q].pc \notin {"idle", "reply"}
  /\ Fault
  /\ End(q)
  /\ locks' = Unlocked(q)
  /\ UNCHANGED <<clock, rows, payments, outbox, timers, due, sweep, swept, holder, extra, told>>

HoldStep(q) ==
  \/ LazyExpire(q) \/ LazyFlip(q) \/ Replay(q) \/ FindExisting(q) \/ CountHeld(q)
  \/ Insert(q) \/ DeadlockVictim(q)
  \/ Created(q) \/ Winner(q) \/ CancelRead(q) \/ CancelWrite(q) \/ Released(q) \/ Reply(q)

\* The process of instance i dies and is restarted: index.ts starts only the
\* sweeper.  Postgres rolls its transactions back and frees its session's lock.
Crash(i) ==
  LET mine == {q \in SeatReq : sreq[q].inst = i} IN
  /\ Fault
  /\ sreq' = [q \in SeatReq |-> IF q \in mine THEN NoSeatRequest ELSE sreq[q]]
  /\ locks' = [r \in Rid |-> IF locks[r] \in mine THEN None ELSE locks[r]]
  /\ timers' = [timers EXCEPT ![i] = {}]
  /\ due' = [due EXCEPT ![i] = {}]
  /\ sweep' = [sweep EXCEPT ![i] = "idle"]
  /\ swept' = [swept EXCEPT ![i] = {}]
  /\ holder' = IF holder = i THEN None ELSE holder
  /\ extra' = IF holder = i THEN 0 ELSE extra
  /\ UNCHANGED <<clock, rows, payments, outbox, told>>
=============================================================================
