------------------------------ MODULE BookingDB ------------------------------
(***************************************************************************)
(* The Postgres tables the seat service and the payment service share:     *)
(* Reservation, Payment and OutboxEvent, with the statement-level          *)
(* behaviour both services rely on at READ COMMITTED isolation.            *)
(*                                                                         *)
(* A row of Reservation is a member of Rid: the row is absent until a      *)
(* transaction inserts it.  A hold transaction updates rows (its lazy      *)
(* expiry) long before it commits: such a row is flagged in locks, every   *)
(* other writer of the row waits, every other reader still sees HELD.      *)
(* All other transactions write in their last statements only, so their    *)
(* write and commit are one step here.                                     *)
(***************************************************************************)
EXTENDS Naturals, FiniteSets

CONSTANTS
  Seat,      \* ids of the Seat table
  User,      \* callers, as authenticated by the gateway
  Key,       \* values of the Idempotency-Key header
  Rid,       \* reservation ids that can ever be inserted (a bound)
  SeatReq,   \* requests seat-svc may be serving at one time (a bound)
  None,      \* null
  HoldTtl,   \* HOLD_TTL_SECONDS, in ticks
  MaxClock   \* the clock stops here (a bound)

ASSUME NoneAssumption ==
  None \notin Seat \cup User \cup Key \cup Rid \cup SeatReq
ASSUME HoldTtlAssumption == HoldTtl \in Nat \ {0}
ASSUME MaxClockAssumption == MaxClock \in Nat

VARIABLES
  clock,     \* wall time, one for the services and for Postgres
  rows,      \* the Reservation table
  locks,     \* the hold transaction that has flipped a row and not committed
  payments,  \* status of the reservation's Payment row, "NONE" if there is none
  outbox     \* number of OutboxEvent rows inserted, per reservation and type

dbVars == <<clock, rows, locks, payments, outbox>>

Time == 0 .. MaxClock + HoldTtl
Status == {"NONE", "HELD", "CONFIRMED", "EXPIRED", "CANCELLED", "FAILED"}
PaymentStatus == {"NONE", "PENDING", "SUCCEEDED", "FAILED", "TIMEOUT"}
EventType == {"reservation_confirmed", "reservation_failed"}

\* Mutant: the index forgets confirmed seats.
HeldOnly == {"HELD"}

\* The statuses in the predicate of the partial unique index on seatId.
Active == {"HELD", "CONFIRMED"}

Reservation == [status : Status, seat : Seat \cup {None}, user : User \cup {None},
                key : Key \cup {None}, expires : Time]

Absent == [status |-> "NONE", seat |-> None, user |-> None,
           key |-> None, expires |-> 0]

DBTypeOK ==
  /\ clock \in 0 .. MaxClock
  /\ rows \in [Rid -> Reservation]
  /\ locks \in [Rid -> SeatReq \cup {None}]
  /\ payments \in [Rid -> PaymentStatus]
  /\ outbox \in [Rid -> [EventType -> Nat]]

DBInit ==
  /\ clock = 0
  /\ rows = [r \in Rid |-> Absent]
  /\ locks = [r \in Rid |-> None]
  /\ payments = [r \in Rid |-> "NONE"]
  /\ outbox = [r \in Rid |-> [e \in EventType |-> 0]]

-----------------------------------------------------------------------------
(* What a query sees. *)

Exists(r) == rows[r].status # "NONE"

\* Mutants: holdExpiresAt <= t; and no status in the WHERE clause.
DueAt(t) == {r \in Rid : rows[r].status = "HELD" /\ rows[r].expires <= t}
LapsedAt(t) == {r \in Rid : Exists(r) /\ rows[r].expires < t}

\* WHERE status = 'HELD' AND holdExpiresAt < t
StaleAt(t) == {r \in Rid : rows[r].status = "HELD" /\ rows[r].expires < t}

\* The row is being changed by a transaction other than q's.
LockedByOther(r, q) == locks[r] \notin {None, q}

\* The status q's transaction reads: its own uncommitted flips, else the
\* committed value.
Seen(r, q) == IF locks[r] = q THEN "EXPIRED" ELSE rows[r].status

\* Entries of reservation_active_seat_ux, the partial unique index.
IndexEntries(s) == {r \in Rid : rows[r].status \in Active /\ rows[r].seat = s}

\* An index entry for s that q's insert, or row r turning active, collides with.
SeatConflict(s, q) == \E r \in IndexEntries(s) : locks[r] # q
SeatConflictOf(r) == IndexEntries(rows[r].seat) \ {r} # {}

\* The insertion must first learn the fate of another transaction's flip.
SeatInDoubt(s, q) == \E r \in IndexEntries(s) : LockedByOther(r, q)

\* Mutant: no such constraint.
NoKeyConflict(k) == k \notin Key \cup {None}

\* The UNIQUE constraint on idempotencyKey.
KeyConflict(k) == k # None /\ \E r \in Rid : rows[r].key = k

-----------------------------------------------------------------------------
(* What a statement or a commit changes. *)

WithStatus(R, st) ==
  [r \in Rid |-> IF r \in R THEN [rows[r] EXCEPT !.status = st] ELSE rows[r]]

LocksOf(q) == {r \in Rid : locks[r] = q}

Unlocked(q) == [r \in Rid |-> IF locks[r] = q THEN None ELSE locks[r]]

Tick ==
  /\ clock < MaxClock
  /\ clock' = clock + 1
  /\ UNCHANGED <<rows, locks, payments, outbox>>
=============================================================================
