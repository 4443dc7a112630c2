------------------------------ MODULE Booking -------------------------------
(***************************************************************************)
(* seat-svc and payment-svc over their shared tables, with the passing of  *)
(* time, and what the two promise together.                                *)
(*                                                                         *)
(* A payment (intent or confirm) or a release (DELETE) decides about its   *)
(* reservation by a read and a write that nothing ties together.  One user *)
(* has two of them under way with two clients, and with one when an answer *)
(* is lost or the page is reloaded: SeatsPage then forgets a request that  *)
(* the service still carries out.  The history variable overlapped, which  *)
(* no action reads, says which reservations such a race may have damaged;  *)
(* that nothing else damages one is a property.                            *)
(***************************************************************************)
EXTENDS SeatHolds, Payments

VARIABLE overlapped

vars == <<dbVars, seatVars, preq, overlapped>>

Releasing(q, u, r) ==
  sreq[q].pc \in {"read", "release"} /\ sreq[q].user = u /\ sreq[q].rid = r

Paying(p, u, r) == preq[p].pc # "idle" /\ preq[p].user = u /\ preq[p].rid = r

\* Two requests of one user that decide about r are being carried out.
Contended(r) ==
  \E u \in User :
    \/ \E q1, q2 \in SeatReq : q1 # q2 /\ Releasing(q1, u, r) /\ Releasing(q2, u, r)
    \/ \E p1, p2 \in PayReq : p1 # p2 /\ Paying(p1, u, r) /\ Paying(p2, u, r)
    \/ \E q \in SeatReq, p \in PayReq : Releasing(q, u, r) /\ Paying(p, u, r)

NoteOverlaps == overlapped' = overlapped \cup {r \in Rid : Contended(r)'}

Alone == Rid \ overlapped

-----------------------------------------------------------------------------
Init == DBInit /\ ExpiryInit /\ HoldsInit /\ PayInit /\ overlapped = {}

Call ==
  /\ \/ \E q \in SeatReq, i \in Inst, u \in User, s \in Seat \cup {UnknownSeat},
           k \in Key \cup {None} :
          BeginHold(q, i, u, s, k) /\ UNCHANGED preq
     \/ \E q \in SeatReq, i \in Inst, u \in User, r \in Rid :
          BeginCancel(q, i, u, r) /\ UNCHANGED preq
     \/ \E p \in PayReq, u \in User, r \in Rid, kind \in PayKind :
          BeginPay(p, u, r, kind) /\ UNCHANGED seatVars
  /\ NoteOverlaps

SeatSvc ==
  /\ \/ \E q \in SeatReq : HoldStep(q) \/ Abort(q)
     \/ \E i \in Inst : (ExpiryStep(i) /\ UNCHANGED sreq) \/ Crash(i)
  /\ UNCHANGED preq /\ NoteOverlaps

PaymentSvc ==
  /\ \E p \in PayReq : PayStep(p) \/ PayAbort(p)
  /\ UNCHANGED seatVars /\ NoteOverlaps

Clock == Tick /\ UNCHANGED <<seatVars, preq>> /\ NoteOverlaps

Next == Call \/ SeatSvc \/ PaymentSvc \/ Clock

Spec == Init /\ [][Next]_vars

(***************************************************************************)
(* Requests that reached a service are carried out; the sweeper's interval *)
(* keeps firing; the deadlock detector runs.  A statement that waits for a *)
(* row lock is queued for it, so it cannot be overtaken for ever: strong   *)
(* fairness.  Nothing is assumed of callers, of timers or of failures,     *)
(* which MaxFaults bounds.                                                 *)
(***************************************************************************)
Fairness ==
  /\ \A q \in SeatReq :
       /\ WF_vars(HoldStep(q) /\ UNCHANGED preq /\ NoteOverlaps)
       /\ SF_vars((LazyFlip(q) \/ Insert(q) \/ CancelWrite(q)) /\ UNCHANGED preq /\ NoteOverlaps)
  /\ \A i \in Sweepers :
       /\ WF_vars((SweepLock(i) \/ SweepPublish(i) \/ SweepUnlock(i)) /\ UNCHANGED <<sreq, preq>> /\ NoteOverlaps)
       /\ SF_vars(SweepUpdate(i) /\ UNCHANGED <<sreq, preq>> /\ NoteOverlaps)

FairSpec == Spec /\ Fairness

-----------------------------------------------------------------------------
ServicesTypeOK == DBTypeOK /\ ExpiryTypeOK /\ HoldsTypeOK /\ PayTypeOK
TypeOK == ServicesTypeOK /\ overlapped \subseteq Rid

\* The reservations that keep others off the seat.
Occupants(s) ==
  {r \in Rid : rows[r].seat = s /\ rows[r].status \in {"HELD", "CONFIRMED"}}

\* At most one HELD or CONFIRMED reservation per seat, whatever expiries,
\* cancels, late confirmations and retries interleave.
SeatExclusive == \A s \in Seat : \A r1, r2 \in Occupants(s) : r1 = r2

\* One reservation per idempotency key.
KeyUnique == \A r1, r2 \in Rid : rows[r1].key = rows[r2].key /\ rows[r1].key # None => r1 = r2

\* A caller is only ever answered with a reservation of their own.
AnswersOwn ==
  \A q \in SeatReq : sreq[q].pc = "reply" => rows[sreq[q].rid].user = sreq[q].user

\* A row that a transaction has flipped is a hold that has lapsed, so rolling
\* the flip back or committing it loses nothing anyone may still rely on.
FlippedAreStale ==
  \A r \in Rid : locks[r] # None =>
    /\ rows[r].status = "HELD" /\ rows[r].expires < clock
    /\ sreq[locks[r]].pc \in HoldPc

\* Timers of all instances, the sweepers and late requests never announce the
\* expiry of one reservation twice.
Announcements(r) ==
  told[r]["hold_expired"] + Cardinality({i \in Inst : r \in due[i]})
                          + Cardinality({i \in Inst : r \in swept[i]})
ExpiredOnce == \A r \in Rid : Announcements(r) <= 1

-----------------------------------------------------------------------------
\* A hold is released by expiry no earlier than its countdown.
NoEarlyExpiry ==
  [][\A r \in Rid : rows[r].status # "EXPIRED" /\ rows'[r].status = "EXPIRED"
       => rows[r].status = "HELD" /\ rows[r].expires <= clock]_vars

\* A reservation that has left HELD is never a hold again.
NeverReheld ==
  [][\A r \in Rid : Exists(r) /\ rows[r].status # "HELD" => rows'[r].status # "HELD"]_vars

\* A seat passes from one reservation to another in one step only when the
\* first was a hold that had lapsed.
NeverDisplaced ==
  [][\A s \in Seat : \A r \in Occupants(s) :
       Occupants(s)' # {} /\ r \notin Occupants(s)'
         => rows[r].status = "HELD" /\ rows[r].expires < clock]_vars

-----------------------------------------------------------------------------
\* The payment has been taken exactly if the reservation is confirmed, unless
\* its user's own requests about it overlapped ...
PaidIffConfirmed ==
  \A r \in Alone : payments[r] = "SUCCEEDED" <=> rows[r].status = "CONFIRMED"

\* ... its outcome is reported once ...
OneOutcome ==
  \A r \in Alone :
    outbox[r]["reservation_confirmed"] + outbox[r]["reservation_failed"] <= 1

\* ... and once confirmed it stays confirmed.
ConfirmedStays ==
  [][\A r \in Alone : rows[r].status = "CONFIRMED" => rows'[r].status = "CONFIRMED"]_vars

-----------------------------------------------------------------------------
(* The tables as a ledger of seats. *)

ticketOf ==
  [r \in {x \in Rid : Exists(x)} |->
     [seat |-> rows[r].seat, user |-> rows[r].user, until |-> rows[r].expires]]

placeOf ==
  [s \in Seat |-> IF Occupants(s) = {} THEN [by |-> None, sold |-> FALSE]
                  ELSE LET r == CHOOSE x \in Occupants(s) : TRUE
                       IN [by |-> r, sold |-> rows[r].status = "CONFIRMED"]]

Ledger == INSTANCE SeatLedger WITH ticket <- ticketOf, place <- placeOf

\* Seen through its active rows the system is a ledger: every step of either
\* service frees lapsed holds, gives out a free or lapsed seat, sells a seat to
\* its own reservation or vacates one, or does nothing to the seats.
ImplementsLedger == Ledger!LedgerSpec

-----------------------------------------------------------------------------
\* A lapsed hold does not block its seat for ever, even if every timer is lost,
\* an instance dies with the sweeper's lock, or an unlock fails.
StaleHoldsFreed ==
  \A r \in Rid : rows[r].status = "HELD" /\ rows[r].expires < clock
                   ~> rows[r].status # "HELD"

\* Requests do not wait for each other for ever, though each flips the same
\* lapsed rows one by one in an order of its own.
RequestsEnd == \A q \in SeatReq : sreq[q].pc # "idle" ~> sreq[q].pc = "idle"

-----------------------------------------------------------------------------
(* What the repository says of the program and a race refutes. *)

\* reservations.ts:175: "Confirmed seats cannot be cancelled".
ConfirmedNeverCancelled ==
  [][\A r \in Rid : rows[r].status = "CONFIRMED" => rows'[r].status # "CANCELLED"]_vars

\* payments.ts:98: "confirming an already-confirmed reservation is a no-op".
ReconfirmIsNoOp ==
  [][\A p \in PayReq : LET r == preq[p].rid IN
       preq[p].kind \in {"success", "fail", "timeout"} /\ preq'[p].pc = "idle"
         /\ rows[r].status = "CONFIRMED"
         => UNCHANGED <<rows, payments, outbox>>]_vars
=============================================================================
