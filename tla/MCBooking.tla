----------------------------- MODULE MCBooking -----------------------------
(* Small instances of Booking for TLC. *)
EXTENDS Booking, TLC

Symmetry == Permutations(Rid) \cup Permutations(User) \cup Permutations(SeatReq)
              \cup Permutations(PayReq) \cup Permutations(Seat) \cup Permutations(Inst)

\* The state but for what has been announced, which no action reads, in a run
\* none of whose properties does.
Unannounced == <<dbVars, timers, due, sweep, swept, holder, extra, faults, sreq, preq, overlapped>>

\* The same where no property speaks of overlapping requests either.
Services == <<dbVars, timers, due, sweep, swept, holder, extra, faults, sreq, preq>>

\* Callers name seats and reservations there are: nobody knows an id before its
\* reservation exists, and what becomes of an unknown one is a refusal.
KnownIds ==
  /\ \A q \in SeatReq : /\ sreq'[q].seat # UnknownSeat
                        /\ sreq'[q].pc = "read" => Exists(sreq'[q].rid)
  /\ \A p \in PayReq : preq'[p].pc = "read" => Exists(preq'[p].rid)

\* A restart after every seat was put on hold and every hold has lapsed: the timers
\* are lost, nothing has been swept yet.
Restarted ==
  LET hold == CHOOSE h \in [Seat -> Rid] : \A s1, s2 \in Seat : h[s1] = h[s2] => s1 = s2
      user == CHOOSE u \in User : TRUE
  IN /\ clock = MaxClock
     /\ rows = [r \in Rid |->
          IF \E s \in Seat : hold[s] = r
            THEN [status |-> "HELD", seat |-> CHOOSE s \in Seat : hold[s] = r, user |-> user,
                  key |-> None, expires |-> HoldTtl]
            ELSE Absent]
     /\ locks = [r \in Rid |-> None]
     /\ payments = [r \in Rid |-> "NONE"]
     /\ outbox = [r \in Rid |-> [e \in EventType |-> 0]]
     /\ ExpiryInit /\ HoldsInit /\ PayInit /\ overlapped = {}

\* POSTs only: a DELETE waits for a single lock and holds none, so it is on no cycle.
PostsAfterRestart ==
  /\ Restarted
  /\ [][Next /\ \A q \in SeatReq : sreq'[q].pc # "read"]_vars
  /\ Fairness
=============================================================================
