----------------------------- MODULE SeatLedger -----------------------------
(***************************************************************************)
(* What the platform promises about its seats, without requests, statements,*)
(* locks or timers: a seat is free, held until a deadline, or sold; it     *)
(* passes from one reservation to another in one step only when the first  *)
(* was a hold that had lapsed.  Reservation r is given out once, with a    *)
(* seat, a user and a deadline that never change.                          *)
(***************************************************************************)
EXTENDS Naturals

CONSTANTS
  Seat,
  User,
  Rid,       \* reservations that can ever be given out
  None,
  HoldTtl,   \* how long a hold may last, in ticks
  MaxClock   \* the clock stops here

ASSUME LedgerAssumption ==
  None \notin Seat \cup User \cup Rid /\ HoldTtl \in Nat \ {0} /\ MaxClock \in Nat

VARIABLES
  clock,
  ticket,    \* ticket[r]: what reservation r was given out for
  place      \* place[s]: the reservation that has the seat, sold or on hold

ledgerVars == <<clock, ticket, place>>

Ticket == [seat : Seat, user : User, until : 0 .. MaxClock + HoldTtl]
Place == [by : Rid \cup {None}, sold : BOOLEAN]
Free == [by |-> None, sold |-> FALSE]

LedgerTypeOK ==
  /\ clock \in 0 .. MaxClock
  /\ ticket \in UNION {[R -> Ticket] : R \in SUBSET Rid}
  /\ place \in [Seat -> Place]

LedgerInit ==
  /\ clock = 0
  /\ ticket = [r \in {} |-> None]
  /\ place = [s \in Seat |-> Free]

OnHold(s) == place[s].by # None /\ ~place[s].sold

\* A hold that can be taken over: past its deadline, not at it.
Lapsed == {s \in Seat : OnHold(s) /\ ticket[place[s].by].until < clock}

Emptied(S) == [s \in Seat |-> IF s \in S THEN Free ELSE place[s]]

\* The reservations that have not been given out.
Unused == Rid \ DOMAIN ticket

\* A free seat is given out, or one whose hold has lapsed; other lapsed holds
\* may end with it.  The deadline counts from when the request came in.
Take(r, s, u, t) ==
  /\ ticket' = [x \in DOMAIN ticket \cup {r} |->
                  IF x = r THEN [seat |-> s, user |-> u, until |-> t] ELSE ticket[x]]
  /\ \E S \in SUBSET Lapsed :
       /\ Emptied(S)[s] = Free
       /\ place' = [Emptied(S) EXCEPT ![s] = [by |-> r, sold |-> FALSE]]
  /\ UNCHANGED clock

\* Holds end of themselves, no earlier than their deadline.
Expire(S) ==
  /\ S # {}
  /\ \A s \in S : OnHold(s) /\ ticket[place[s].by].until <= clock
  /\ place' = Emptied(S)
  /\ UNCHANGED <<clock, ticket>>

\* A reservation is confirmed: a hold, or one that ended and whose seat is
\* free (a payment that was decided in time and written late).
Sell(r) ==
  /\ r \in DOMAIN ticket
  /\ place[ticket[r].seat] \in {Free, [by |-> r, sold |-> FALSE]}
  /\ place' = [place EXCEPT ![ticket[r].seat] = [by |-> r, sold |-> TRUE]]
  /\ UNCHANGED <<clock, ticket>>

\* A reservation is cancelled, or its payment fails.
Vacate(s) ==
  /\ place[s] # Free
  /\ place' = Emptied({s})
  /\ UNCHANGED <<clock, ticket>>

Pass ==
  /\ clock < MaxClock
  /\ clock' = clock + 1
  /\ UNCHANGED <<ticket, place>>

\* Every way in which the seats change.
SeatsChange ==
  \/ \E r \in Unused, s \in Seat, u \in User, t \in HoldTtl .. clock + HoldTtl : Take(r, s, u, t)
  \/ \E S \in SUBSET Seat : Expire(S)
  \/ \E r \in Rid : Sell(r)
  \/ \E s \in Seat : Vacate(s)

LedgerNext == SeatsChange \/ Pass

LedgerSpec == LedgerInit /\ [][LedgerNext]_ledgerVars
=============================================================================
