----------------------------- MODULE HoldExpiry -----------------------------
(***************************************************************************)
(* The two background expirers of every seat-svc instance: the timers of   *)
(* expiryScheduler.ts and the advisory-locked sweeper of sweeper.ts, and   *)
(* the publishSeatChange calls both make after a flip.                     *)
(***************************************************************************)
EXTENDS BookingDB

CONSTANTS
  Inst,      \* seat-svc instances
  Sweepers,  \* those whose sweeper ticks within the behaviour (a bound)
  MaxFaults  \* failures and crashes in one behaviour (a bound)

ASSUME InstAssumption == None \notin Inst /\ Sweepers \subseteq Inst
ASSUME MaxFaultsAssumption == MaxFaults \in Nat

VARIABLES
  timers,    \* timers[i]: reservations with an armed expiry timer
  due,       \* due[i]: flipped by a timer, hold_expired not yet published
  sweep,     \* sweep[i]: where the sweeper's tick is
  swept,     \* swept[i]: RETURNING rows of the sweep, not yet published
  holder,    \* instance whose session holds advisory lock LOCK_KEY
  extra,     \* unlocks that failed: the session holds it that often more
  told,      \* told[r][t]: calls of publishSeatChange of type t about r
  faults     \* failures so far

expiryVars == <<timers, due, sweep, swept, holder, extra, told, faults>>

SeatEvent == {"hold_created", "hold_cancelled", "hold_expired"}

ExpiryTypeOK ==
  /\ timers \in [Inst -> SUBSET Rid]
  /\ due \in [Inst -> SUBSET Rid]
  /\ sweep \in [Inst -> {"idle", "update", "publish", "unlock"}]
  /\ swept \in [Inst -> SUBSET Rid]
  /\ holder \in Inst \cup {None}
  /\ extra \in Nat
  /\ told \in [Rid -> [SeatEvent -> Nat]]
  /\ faults \in 0 .. MaxFaults

ExpiryInit ==
  /\ timers = [i \in Inst |-> {}]
  /\ due = [i \in Inst |-> {}]
  /\ sweep = [i \in Inst |-> "idle"]
  /\ swept = [i \in Inst |-> {}]
  /\ holder = None
  /\ extra = 0
  /\ told = [r \in Rid |-> [t \in SeatEvent |-> 0]]
  /\ faults = 0

\* One more failure of the database, the network or a process.
Fault == faults < MaxFaults /\ faults' = faults + 1

\* publishSeatChange(t) for the seat of every row in R.
Publish(R, t) ==
  told' = [r \in Rid |-> IF r \in R THEN [told[r] EXCEPT ![t] = @ + 1] ELSE told[r]]

-----------------------------------------------------------------------------
(* expiryScheduler.ts *)

\* Mutant: the flip is not guarded by the status.
UnguardedTimer(r) == rows[r].expires <= clock

\* WHERE id = r AND status = 'HELD' AND holdExpiresAt <= now
TimerGuard(r) == rows[r].status = "HELD" /\ rows[r].expires <= clock

\* The timer of r elapses on i; its guarded UPDATE waits for a row lock.
TimerFire(i, r) ==
  /\ r \in timers[i]
  /\ rows[r].expires <= clock
  /\ locks[r] = None
  /\ timers' = [timers EXCEPT ![i] = @ \ {r}]
  /\ IF TimerGuard(r)
       THEN /\ rows' = WithStatus({r}, "EXPIRED")
            /\ due' = [due EXCEPT ![i] = @ \cup {r}]
       ELSE UNCHANGED <<rows, due>>
  /\ UNCHANGED <<clock, locks, payments, outbox, sweep, swept, holder, extra, told, faults>>

\* The UPDATE throws, executed (r is due) or not: swallowed, the timer is gone.
TimerFail(i, r) ==
  /\ r \in due[i] \/ (r \in timers[i] /\ rows[r].expires <= clock)
  /\ Fault
  /\ IF r \in due[i]
       THEN due' = [due EXCEPT ![i] = @ \ {r}] /\ UNCHANGED timers
       ELSE timers' = [timers EXCEPT ![i] = @ \ {r}] /\ UNCHANGED due
  /\ UNCHANGED <<dbVars, sweep, swept, holder, extra, told>>

\* count > 0: the awaiting expireHold resumes and publishes.
TimerPublish(i, r) ==
  /\ r \in due[i]
  /\ due' = [due EXCEPT ![i] = @ \ {r}]
  /\ Publish({r}, "hold_expired")
  /\ UNCHANGED <<dbVars, timers, sweep, swept, holder, extra, faults>>

-----------------------------------------------------------------------------
(* sweeper.ts.  A tick that does not get the lock changes nothing. *)

\* Mutant: a lock that is not re-entrant.
SweepLockOnce(i) ==
  /\ i \in Sweepers
  /\ sweep[i] = "idle"
  /\ holder = None
  /\ holder' = i
  /\ sweep' = [sweep EXCEPT ![i] = "update"]
  /\ UNCHANGED <<dbVars, timers, due, swept, extra, told, faults>>

\* Session-level and re-entrant: the session that holds it gets it again.
SweepLock(i) ==
  /\ i \in Sweepers
  /\ sweep[i] = "idle"
  /\ holder \in {None, i}
  /\ holder' = i
  /\ sweep' = [sweep EXCEPT ![i] = "update"]
  /\ UNCHANGED <<dbVars, timers, due, swept, extra, told, faults>>

SweepUpdate(i) ==
  /\ sweep[i] = "update"
  /\ \A r \in StaleAt(clock) : locks[r] = None
  /\ rows' = WithStatus(StaleAt(clock), "EXPIRED")
  /\ swept' = [swept EXCEPT ![i] = StaleAt(clock)]
  /\ sweep' = [sweep EXCEPT ![i] = "publish"]
  /\ UNCHANGED <<clock, locks, payments, outbox, timers, due, holder, extra, told, faults>>

\* The UPDATE throws, executed ("publish") or not.
SweepFail(i) ==
  /\ sweep[i] \in {"update", "publish"}
  /\ Fault
  /\ sweep' = [sweep EXCEPT ![i] = "unlock"]
  /\ swept' = [swept EXCEPT ![i] = {}]
  /\ UNCHANGED <<dbVars, timers, due, holder, extra, told>>

SweepPublish(i) ==
  /\ sweep[i] = "publish"
  /\ Publish(swept[i], "hold_expired")
  /\ swept' = [swept EXCEPT ![i] = {}]
  /\ sweep' = [sweep EXCEPT ![i] = "unlock"]
  /\ UNCHANGED <<dbVars, timers, due, holder, extra, faults>>

SweepUnlock(i) ==
  /\ sweep[i] = "unlock"
  /\ sweep' = [sweep EXCEPT ![i] = "idle"]
  /\ holder' = IF extra = 0 THEN None ELSE holder
  /\ UNCHANGED <<dbVars, timers, due, swept, extra, told, faults>>

\* pg_advisory_unlock fails and is ignored: the pooled session keeps the lock.
SweepUnlockFail(i) ==
  /\ sweep[i] = "unlock"
  /\ Fault
  /\ sweep' = [sweep EXCEPT ![i] = "idle"]
  /\ extra' = extra + 1
  /\ UNCHANGED <<dbVars, timers, due, swept, holder, told>>

ExpiryStep(i) ==
  \/ \E r \in Rid : TimerFire(i, r) \/ TimerFail(i, r) \/ TimerPublish(i, r)
  \/ SweepLock(i) \/ SweepUpdate(i) \/ SweepFail(i)
  \/ SweepPublish(i) \/ SweepUnlock(i) \/ SweepUnlockFail(i)
=============================================================================
