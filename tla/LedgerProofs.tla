---------------------------- MODULE LedgerProofs ----------------------------
(***************************************************************************)
(* Why the two services over their tables are a ledger of seats.  What a   *)
(* table says of the seats is a function of the table; a step of the       *)
(* services is one of the table steps of BookingProofs, and each of these  *)
(* is a step of the ledger or leaves it alone.                             *)
(***************************************************************************)
EXTENDS BookingProofs

\* The active rows of table t for seat s; what t says of tickets and places.
Holders(t, s) == {r \in Rid : t[r].seat = s /\ t[r].status \in Active}
TicketIn(t) ==
  [r \in {x \in Rid : t[x].status # "NONE"} |->
     [seat |-> t[r].seat, user |-> t[r].user, until |-> t[r].expires]]
PlaceIn(t) ==
  [s \in Seat |-> IF Holders(t, s) = {} THEN [by |-> None, sold |-> FALSE]
                  ELSE LET r == CHOOSE x \in Holders(t, s) : TRUE
                       IN [by |-> r, sold |-> t[r].status = "CONFIRMED"]]
OneHolder(t) == \A s \in Seat : \A r1, r2 \in Holders(t, s) : r1 = r2

\* The row has a seat and an owner.
Real(t) == \A r \in Rid : t[r].status # "NONE" => t[r].seat \in Seat /\ t[r].user \in User

\* The refinement mapping reads the table.
LEMMA MappingReadsRows ==
  /\ ticketOf = TicketIn(rows) /\ placeOf = PlaceIn(rows)
  /\ (ticketOf)' = TicketIn(rows') /\ (placeOf)' = PlaceIn(rows')
  /\ SeatExclusive <=> OneHolder(rows)
  /\ (SeatExclusive)' <=> OneHolder(rows')
BY DEF ticketOf, placeOf, TicketIn, PlaceIn, Exists, Occupants, Holders, Active, SeatExclusive, OneHolder

\* The place of a seat with an active row, and of one without.
LEMMA PlaceOfHeld ==
  ASSUME NEW t, OneHolder(t), NEW s \in Seat, NEW r \in Holders(t, s)
  PROVE  PlaceIn(t)[s] = [by |-> r, sold |-> t[r].status = "CONFIRMED"]
BY DEF PlaceIn, OneHolder

LEMMA PlaceOfFree ==
  ASSUME NEW t, NEW s \in Seat, Holders(t, s) = {}
  PROVE  PlaceIn(t)[s] = [by |-> None, sold |-> FALSE]
BY DEF PlaceIn

\* A seat whose active rows are the same in two tables, with the same statuses,
\* has the same place in both.
LEMMA SamePlace ==
  ASSUME NEW t, NEW t2, NEW s \in Seat, Holders(t2, s) = Holders(t, s),
         \A r \in Holders(t, s) : t2[r].status = t[r].status
  PROVE  PlaceIn(t2)[s] = PlaceIn(t)[s]
<1>1. CASE Holders(t, s) = {}
  BY <1>1, PlaceOfFree
<1>2. CASE Holders(t, s) # {}
  <2> DEFINE r == CHOOSE x \in Holders(t, s) : TRUE
  <2>1. r \in Holders(t, s)
    BY <1>2
  <2>2. r = CHOOSE x \in Holders(t2, s) : TRUE
    OBVIOUS
  <2>3. PlaceIn(t)[s] = [by |-> r, sold |-> t[r].status = "CONFIRMED"]
    BY <1>2 DEF PlaceIn
  <2>4. PlaceIn(t2)[s] = [by |-> r, sold |-> t2[r].status = "CONFIRMED"]
    BY <1>2 DEF PlaceIn
  <2> QED BY <2>1, <2>3, <2>4
<1> QED BY <1>1, <1>2

-----------------------------------------------------------------------------
(* One lemma per kind of table step. *)

Tables == rows \in [Rid -> Reservation] /\ Real(rows) /\ OneHolder(rows)

\* Writing an inactive status takes the rows in question off their seats.
LEMMA Vacated ==
  ASSUME Tables, NEW R \in SUBSET Rid, NEW st \in Status \ Active, st # "NONE",
         \A r \in R : Exists(r), rows' = WithStatus(R, st)
  PROVE  /\ TicketIn(rows') = TicketIn(rows)
         /\ \A s \in Seat : Holders(rows', s) = Holders(rows, s) \ R
         /\ \A s \in Seat : PlaceIn(rows')[s] =
              IF Holders(rows, s) \cap R # {} THEN [by |-> None, sold |-> FALSE] ELSE PlaceIn(rows)[s]
<1>1. \A r \in Rid : rows'[r] = IF r \in R THEN [rows[r] EXCEPT !.status = st] ELSE rows[r]
  BY DEF WithStatus
<1>2. \A r \in Rid : /\ rows'[r].seat = rows[r].seat /\ rows'[r].user = rows[r].user
                      /\ rows'[r].expires = rows[r].expires
                      /\ rows'[r].status = IF r \in R THEN st ELSE rows[r].status
  BY <1>1 DEF Tables, Reservation
<1>3. TicketIn(rows') = TicketIn(rows)
  BY <1>2 DEF TicketIn, Exists
<1>4. \A s \in Seat : Holders(rows', s) = Holders(rows, s) \ R
  BY <1>2 DEF Holders
<1>5. ASSUME NEW s \in Seat
      PROVE  PlaceIn(rows')[s] =
               IF Holders(rows, s) \cap R # {} THEN [by |-> None, sold |-> FALSE] ELSE PlaceIn(rows)[s]
  <2>1. CASE Holders(rows, s) \cap R # {}
    <3>1. Holders(rows', s) = {}
      BY <1>4, <2>1 DEF Tables, OneHolder
    <3> QED BY <2>1, <3>1, PlaceOfFree
  <2>2. CASE Holders(rows, s) \cap R = {}
    <3>1. Holders(rows', s) = Holders(rows, s)
      BY <1>4, <2>2
    <3>2. \A r \in Holders(rows, s) : rows'[r].status = rows[r].status
      BY <1>2, <2>2 DEF Holders
    <3> QED BY <2>2, <3>1, <3>2, SamePlace
  <2> QED BY <2>1, <2>2
<1> QED BY <1>3, <1>4, <1>5

LEMMA LapseIsLedger ==
  ASSUME Tables, NEW R \in SUBSET Rid, Lapse(R), clock' = clock
  PROVE  Ledger!LedgerNext \/ UNCHANGED Ledger!ledgerVars
<1> DEFINE S == {s \in Seat : Holders(rows, s) \cap R # {}}
<1>1. \A r \in R : Exists(r) /\ rows[r].status = "HELD" /\ rows[r].expires <= clock
  BY DEF Lapse, Exists
<1>2. "EXPIRED" \in Status \ Active
  BY DEF Status, Active
<1>3. ticketOf' = ticketOf
  BY <1>1, <1>2, Vacated, MappingReadsRows DEF Lapse
<1>4. placeOf' = Ledger!Emptied(S)
  <2>1. \A s \in Seat : PlaceIn(rows')[s] =
          IF s \in S THEN [by |-> None, sold |-> FALSE] ELSE PlaceIn(rows)[s]
    BY <1>1, <1>2, Vacated DEF Lapse
  <2>2. PlaceIn(rows') = [s \in Seat |-> PlaceIn(rows')[s]]
    BY DEF PlaceIn
  <2> QED BY <2>1, <2>2, MappingReadsRows DEF Ledger!Emptied, Ledger!Free
<1>5. \A s \in S : Ledger!OnHold(s) /\ ticketOf[placeOf[s].by].until <= clock
  <2> SUFFICES ASSUME NEW s \in S
               PROVE  Ledger!OnHold(s) /\ ticketOf[placeOf[s].by].until <= clock
    OBVIOUS
  <2>1. PICK r \in Holders(rows, s) : r \in R
    OBVIOUS
  <2>2. placeOf[s] = [by |-> r, sold |-> FALSE]
    BY <1>1, <2>1, PlaceOfHeld, MappingReadsRows DEF Tables
  <2>3. ticketOf[r].until = rows[r].expires
    BY <1>1, <2>1 DEF ticketOf
  <2> QED BY <1>1, <2>1, <2>2, <2>3, NoneAssumption DEF Ledger!OnHold
<1>6. CASE S = {}
  <2>1. placeOf' = placeOf
    BY <1>4, <1>6 DEF Ledger!Emptied, placeOf
  <2> QED BY <1>3, <2>1 DEF Ledger!ledgerVars
<1>7. CASE S # {}
  <2>1. Ledger!Expire(S)
    BY <1>3, <1>4, <1>5, <1>7 DEF Ledger!Expire
  <2> QED BY <2>1 DEF Ledger!LedgerNext, Ledger!SeatsChange
<1> QED BY <1>6, <1>7

LEMMA DropIsLedger ==
  ASSUME Tables, NEW r \in Rid, Exists(r), Drop(r), clock' = clock
  PROVE  Ledger!LedgerNext \/ UNCHANGED Ledger!ledgerVars
<1>1. PICK st \in {"CANCELLED", "FAILED"} : rows' = WithStatus({r}, st)
  BY DEF Drop
<1>2. st \in Status \ Active /\ st # "NONE" /\ {r} \in SUBSET Rid /\ \A x \in {r} : Exists(x)
  BY DEF Status, Active
<1>3. ticketOf' = ticketOf
  BY <1>1, <1>2, Vacated, MappingReadsRows
<1>4. \A s \in Seat : placeOf'[s] =
        IF r \in Holders(rows, s) THEN [by |-> None, sold |-> FALSE] ELSE placeOf[s]
  <2>1. \A s \in Seat : PlaceIn(rows')[s] =
          IF Holders(rows, s) \cap {r} # {} THEN [by |-> None, sold |-> FALSE] ELSE PlaceIn(rows)[s]
    BY <1>1, <1>2, Vacated
  <2>2. \A s \in Seat : r \in Holders(rows, s) <=> Holders(rows, s) \cap {r} # {}
    OBVIOUS
  <2> QED BY <2>1, <2>2, MappingReadsRows
<1>5. placeOf' = [s \in Seat |-> placeOf'[s]] /\ placeOf = [s \in Seat |-> placeOf[s]]
  BY DEF placeOf
<1>6. ASSUME NEW s \in Seat, r \in Holders(rows, s) PROVE Ledger!LedgerNext
  <2>1. placeOf[s].by # None
    <3>1. PlaceIn(rows)[s] = [by |-> r, sold |-> rows[r].status = "CONFIRMED"]
      BY <1>6, PlaceOfHeld DEF Tables
    <3>2. PlaceIn(rows)[s].by = r
      BY <3>1
    <3> QED BY <3>2, MappingReadsRows, NoneAssumption
  <2>2. \A x \in Seat : r \in Holders(rows, x) <=> x = s
    BY <1>6 DEF Holders
  <2>3. placeOf' = Ledger!Emptied({s})
    BY <1>4, <1>5, <2>2 DEF Ledger!Emptied, Ledger!Free
  <2>4. Ledger!Vacate(s)
    BY <1>3, <2>1, <2>3 DEF Ledger!Vacate, Ledger!Free
  <2> QED BY <2>4 DEF Ledger!LedgerNext, Ledger!SeatsChange
<1>7. ASSUME \A s \in Seat : r \notin Holders(rows, s) PROVE UNCHANGED Ledger!ledgerVars
  <2>1. placeOf' = placeOf
    BY <1>4, <1>5, <1>7
  <2> QED BY <1>3, <2>1 DEF Ledger!ledgerVars
<1> QED BY <1>6, <1>7

LEMMA ConfirmIsLedger ==
  ASSUME Tables, OneHolder(rows'), NEW r \in Rid, Exists(r), Confirm(r), clock' = clock
  PROVE  Ledger!LedgerNext \/ UNCHANGED Ledger!ledgerVars
<1> DEFINE s == rows[r].seat
<1>1. s \in Seat /\ Holders(rows, s) \subseteq {r}
  BY DEF Tables, Real, Exists, Confirm, SeatConflictOf, IndexEntries, Holders
<1>2. \A x \in Rid : /\ rows'[x].seat = rows[x].seat /\ rows'[x].user = rows[x].user
                      /\ rows'[x].expires = rows[x].expires
                      /\ rows'[x].status = IF x = r THEN "CONFIRMED" ELSE rows[x].status
  BY DEF Tables, Reservation, Confirm, WithStatus
<1>3. ticketOf' = ticketOf /\ ticketOf[r].seat = s /\ r \in DOMAIN ticketOf
  <2>1. TicketIn(rows') = TicketIn(rows)
    BY <1>2 DEF TicketIn, Exists
  <2>2. r \in DOMAIN ticketOf /\ ticketOf[r].seat = s
    BY DEF ticketOf
  <2>3. ticketOf' = ticketOf
    BY <2>1, MappingReadsRows
  <2> QED BY <2>2, <2>3
<1>4. placeOf[s] \in {[by |-> None, sold |-> FALSE], [by |-> r, sold |-> FALSE],
                      [by |-> r, sold |-> TRUE]}
  <2>1. CASE Holders(rows, s) = {}
    BY <1>1, <2>1, PlaceOfFree, MappingReadsRows
  <2>2. CASE r \in Holders(rows, s)
    <3>1. PlaceIn(rows)[s] = [by |-> r, sold |-> rows[r].status = "CONFIRMED"]
      BY <1>1, <2>2, PlaceOfHeld DEF Tables
    <3>2. (rows[r].status = "CONFIRMED") \in BOOLEAN
      OBVIOUS
    <3> QED BY <3>1, <3>2, MappingReadsRows
  <2> QED BY <1>1, <2>1, <2>2
<1>5. placeOf'[s] = [by |-> r, sold |-> TRUE]
  <2>1. r \in Holders(rows', s)
    BY <1>2 DEF Holders, Active
  <2> QED BY <1>1, <1>2, <2>1, PlaceOfHeld, MappingReadsRows
<1>6. \A x \in Seat \ {s} : placeOf'[x] = placeOf[x]
  <2> SUFFICES ASSUME NEW x \in Seat \ {s} PROVE PlaceIn(rows')[x] = PlaceIn(rows)[x]
    BY MappingReadsRows
  <2>1. Holders(rows', x) = Holders(rows, x)
    BY <1>2 DEF Holders
  <2>2. \A y \in Holders(rows, x) : rows'[y].status = rows[y].status
    BY <1>2 DEF Holders
  <2> QED BY <2>1, <2>2, SamePlace
<1>7. placeOf' = [placeOf EXCEPT ![s] = [by |-> r, sold |-> TRUE]]
  <2>1. placeOf' = [x \in Seat |-> placeOf'[x]] /\ placeOf = [x \in Seat |-> placeOf[x]]
    BY DEF placeOf
  <2> QED BY <1>5, <1>6, <2>1
<1>8. CASE placeOf[s] = [by |-> r, sold |-> TRUE]
  <2>1. placeOf' = placeOf
    BY <1>7, <1>8 DEF placeOf
  <2> QED BY <1>3, <2>1 DEF Ledger!ledgerVars
<1>9. CASE placeOf[s] # [by |-> r, sold |-> TRUE]
  <2>1. Ledger!Sell(r)
    BY <1>3, <1>4, <1>7, <1>9 DEF Ledger!Sell, Ledger!Free
  <2> QED BY <2>1 DEF Ledger!LedgerNext, Ledger!SeatsChange
<1> QED BY <1>8, <1>9

LEMMA InsertIsLedger ==
  ASSUME LockInv, Tables, OneHolder(rows'), NEW q \in SeatReq, NEW r \in Rid, InsertHold(q, r),
         clock' = clock
  PROVE  Ledger!LedgerNext
<1> DEFINE L == LocksOf(q)
           s == sreq[q].seat
           t == sreq[q].now + HoldTtl
           S == {x \in Seat : Holders(rows, x) \cap L # {}}
<1>1. s \in Seat /\ sreq[q].user \in User /\ t \in HoldTtl .. clock + HoldTtl
  <2>1. sreq[q].now \in Nat /\ clock \in Nat /\ sreq[q].now <= clock
    BY MaxClockAssumption
    DEF LockInv, Typing, ServicesTypeOK, DBTypeOK, HoldsTypeOK, SeatRequest, NowPast
  <2> QED BY <2>1, HoldTtlAssumption DEF InsertHold, LockInv, Typing, SeatShape
<1>2. /\ ~Exists(r) /\ L \in SUBSET Rid
      /\ \A x \in L : Exists(x) /\ x # r /\ rows[x].status = "HELD" /\ rows[x].expires < clock
  BY DEF InsertHold, Exists, LocksOf
<1>3. /\ rows'[r] = NewRow(q)
      /\ \A x \in Rid \ {r} : /\ rows'[x].seat = rows[x].seat /\ rows'[x].user = rows[x].user
                               /\ rows'[x].expires = rows[x].expires
                               /\ rows'[x].status = IF x \in L THEN "EXPIRED" ELSE rows[x].status
  BY DEF Tables, Reservation, InsertHold, WithStatus
<1>4. /\ r \in Ledger!Unused
      /\ ticketOf' = [x \in DOMAIN ticketOf \cup {r} |->
           IF x = r THEN [seat |-> s, user |-> sreq[q].user, until |-> t] ELSE ticketOf[x]]
  <2>1. DOMAIN ticketOf = {x \in Rid : rows[x].status # "NONE"}
    BY DEF ticketOf, Exists
  <2>2. {x \in Rid : rows'[x].status # "NONE"} = DOMAIN ticketOf \cup {r}
    BY <1>2, <1>3, <2>1 DEF NewRow, Exists
  <2>3. /\ rows'[r].seat = s /\ rows'[r].user = sreq[q].user /\ rows'[r].expires = t
        /\ \A x \in DOMAIN ticketOf : /\ x # r
             /\ ticketOf[x] = [seat |-> rows'[x].seat, user |-> rows'[x].user, until |-> rows'[x].expires]
    BY <1>2, <1>3, <2>1 DEF NewRow, ticketOf, Exists
  <2> QED BY <1>2, <2>1, <2>2, <2>3, MappingReadsRows DEF TicketIn, Ledger!Unused, Exists
<1>5. S \in SUBSET Ledger!Lapsed
  <2> SUFFICES ASSUME NEW x \in S PROVE x \in Ledger!Lapsed
    OBVIOUS
  <2>1. PICK y \in Holders(rows, x) : y \in L
    OBVIOUS
  <2>2. PlaceIn(rows)[x] = [by |-> y, sold |-> FALSE]
    BY <1>2, <2>1, PlaceOfHeld DEF Tables
  <2>3. ticketOf[y].until = rows[y].expires
    BY <1>2, <2>1 DEF ticketOf
  <2> QED BY <1>2, <2>1, <2>2, <2>3, NoneAssumption, MappingReadsRows DEF Ledger!Lapsed, Ledger!OnHold
<1>6. Holders(rows, s) \subseteq L
  BY DEF InsertHold, SeatConflict, IndexEntries, Holders, LocksOf
<1>7. \A x \in Seat \ {s} : Holders(rows', x) = Holders(rows, x) \ L
  BY <1>2, <1>3 DEF Holders, NewRow, Active, Exists
<1>8. PlaceIn(rows')[s] = [by |-> r, sold |-> FALSE]
  <2>1. r \in Holders(rows', s)
    BY <1>3 DEF Holders, NewRow, Active
  <2>2. rows'[r].status = "HELD"
    BY <1>3 DEF NewRow
  <2> QED BY <1>1, <2>1, <2>2, PlaceOfHeld
<1>9. \A x \in Seat \ {s} : PlaceIn(rows')[x] =
        IF x \in S THEN [by |-> None, sold |-> FALSE] ELSE PlaceIn(rows)[x]
  <2> SUFFICES ASSUME NEW x \in Seat \ {s}
               PROVE  PlaceIn(rows')[x] =
                        IF x \in S THEN [by |-> None, sold |-> FALSE] ELSE PlaceIn(rows)[x]
    OBVIOUS
  <2>1. CASE x \in S
    <3>1. Holders(rows', x) = {}
      BY <1>7, <2>1 DEF Tables, OneHolder
    <3> QED BY <2>1, <3>1, PlaceOfFree
  <2>2. CASE x \notin S
    <3>1. Holders(rows', x) = Holders(rows, x)
      BY <1>7, <2>2
    <3>2. \A y \in Holders(rows, x) : rows'[y].status = rows[y].status
      BY <1>2, <1>3, <2>2 DEF Holders, Active, Exists
    <3> QED BY <2>2, <3>1, <3>2, SamePlace
  <2> QED BY <2>1, <2>2
<1>10. Ledger!Emptied(S)[s] = Ledger!Free
  <2>1. CASE s \in S
    BY <1>1, <2>1 DEF Ledger!Emptied
  <2>2. CASE s \notin S
    <3>1. Holders(rows, s) = {}
      BY <1>1, <1>6, <2>2
    <3> QED BY <1>1, <2>2, <3>1, PlaceOfFree, MappingReadsRows DEF Ledger!Emptied, Ledger!Free
  <2> QED BY <2>1, <2>2
<1>11. placeOf' = [Ledger!Emptied(S) EXCEPT ![s] = [by |-> r, sold |-> FALSE]]
  <2>1. PlaceIn(rows') = [x \in Seat |-> PlaceIn(rows')[x]]
    BY DEF PlaceIn
  <2> QED BY <1>1, <1>8, <1>9, <2>1, MappingReadsRows DEF Ledger!Emptied, Ledger!Free
<1>12. Ledger!Take(r, s, sreq[q].user, t)
  BY <1>4, <1>5, <1>10, <1>11 DEF Ledger!Take
<1> QED BY <1>1, <1>4, <1>12 DEF Ledger!LedgerNext, Ledger!SeatsChange

-----------------------------------------------------------------------------
(***************************************************************************)
(* Rows are real and so are the rows requests are about to write: an       *)
(* UPDATE by id cannot conjure up a reservation.                           *)
(***************************************************************************)
WritesReal == \A r \in Rid : Writing(r) => Exists(r)

RealInv == LockInv /\ SeatExclusive /\ Real(rows) /\ WritesReal

\* No step empties or conjures up a row, except that an insert fills one.
LEMMA RealTable ==
  ASSUME LockInv, Real(rows), WritesReal, TableStep
  PROVE  Real(rows') /\ \A r \in Rid : Exists(r) => rows'[r].status # "NONE"
<1>0. rows \in [Rid -> Reservation]
  BY DEF LockInv, Typing, ServicesTypeOK, DBTypeOK
<1>1. CASE rows' = rows
  BY <1>1 DEF Exists
<1>2. ASSUME NEW R, NEW st, st # "NONE", \A r \in R : Exists(r), rows' = WithStatus(R, st)
      PROVE  Real(rows') /\ \A r \in Rid : Exists(r) => rows'[r].status # "NONE"
  BY <1>0, <1>2 DEF Real, WithStatus, Reservation, Exists
<1>3. ASSUME NEW R, Lapse(R)
      PROVE  Real(rows') /\ \A r \in Rid : Exists(r) => rows'[r].status # "NONE"
  <2>1. \A r \in R : Exists(r)
    BY <1>3 DEF Lapse, Exists
  <2> QED BY <1>2, <1>3, <2>1 DEF Lapse
<1>4. ASSUME NEW r \in Rid, Drop(r) \/ Confirm(r)
      PROVE  Real(rows') /\ \A x \in Rid : Exists(x) => rows'[x].status # "NONE"
  <2>1. \A x \in {r} : Exists(x)
    BY <1>4 DEF WritesReal, Drop, Confirm
  <2> QED BY <1>2, <1>4, <2>1 DEF Drop, Confirm
<1>5. ASSUME NEW q \in SeatReq, NEW r \in Rid, InsertHold(q, r)
      PROVE  Real(rows') /\ \A x \in Rid : Exists(x) => rows'[x].status # "NONE"
  <2>1. sreq[q].seat \in Seat /\ sreq[q].user \in User
    BY <1>5 DEF InsertHold, LockInv, Typing, SeatShape
  <2>2. rows'[r].seat = sreq[q].seat /\ rows'[r].user = sreq[q].user
    BY <1>0, <1>5 DEF InsertHold, NewRow, WithStatus
  <2>3. \A x \in Rid \ {r} :
          /\ rows'[x].seat = rows[x].seat /\ rows'[x].user = rows[x].user
          /\ rows'[x].status = IF x \in LocksOf(q) THEN "EXPIRED" ELSE rows[x].status
    BY <1>0, <1>5 DEF InsertHold, WithStatus, Reservation
  <2>4. \A x \in LocksOf(q) : Exists(x)
    BY <1>5 DEF InsertHold, Exists
  <2> QED BY <1>5, <2>1, <2>2, <2>3, <2>4 DEF Real, Exists, InsertHold
<1> QED BY <1>1, <1>3, <1>4, <1>5 DEF TableStep

\* A request turns to writing a row only when it has just read it as a hold.
LEMMA NextWriting ==
  ASSUME LockInv, [Next]_vars, NEW r \in Rid, Writing(r)'
  PROVE  Writing(r) \/ rows[r].status = "HELD"
<1>0. sreq \in [SeatReq -> SeatRequest] /\ preq \in [PayReq -> PayRequest]
  BY DEF LockInv, Typing, ServicesTypeOK, HoldsTypeOK, PayTypeOK
<1>1. ASSUME NEW q \in SeatReq, sreq'[q].pc = "release", sreq'[q].rid = r
      PROVE  sreq[q] = sreq'[q] \/ rows[r].status = "HELD"
  <2>1. ASSUME NEW x \in SeatReq, HoldStep(x) PROVE sreq[q] = sreq'[q] \/ rows[r].status = "HELD"
    <3>1. CASE CancelRead(x)
      BY <1>0, <1>1, <3>1 DEF CancelRead, Goto, Answer, End, NoSeatRequest, SeatRequest
    <3>5. CASE LazyExpire(x) \/ LazyFlip(x)
      <4>1. ASSUME NEW R, Visit(x, R) PROVE sreq[q] = sreq'[q]
        BY <1>0, <1>1, <4>1 DEF Visit, SeatRequest
      <4> QED BY <3>5, <4>1 DEF LazyExpire, LazyFlip
    <3>2. CASE Replay(x) \/ FindExisting(x) \/ CountHeld(x) \/ DeadlockVictim(x)
      BY <1>0, <1>1, <3>2
      DEF DeadlockVictim, Replay, FindExisting, CountHeld, Goto, Answer, End, NoSeatRequest, SeatRequest
    <3>3. CASE Insert(x)
      BY <1>0, <1>1, <3>3 DEF Insert, Goto, End, NoSeatRequest, SeatRequest
    <3>4. CASE Created(x) \/ Winner(x) \/ CancelWrite(x) \/ Released(x) \/ Reply(x)
      BY <1>0, <1>1, <3>4
      DEF Created, Winner, CancelWrite, Released, Reply, Goto, Answer, End, NoSeatRequest, SeatRequest
    <3> QED BY <2>1, <3>1, <3>2, <3>3, <3>4, <3>5 DEF HoldStep
  <2>2. ASSUME Call PROVE sreq[q] = sreq'[q]
    BY <1>0, <1>1, <2>2 DEF Call, BeginHold, BeginCancel, BeginPay, seatVars, SeatRequest
  <2>3. ASSUME NEW x \in SeatReq, Abort(x) PROVE sreq[q] = sreq'[q]
    BY <1>0, <1>1, <2>3 DEF Abort, End, NoSeatRequest
  <2>4. ASSUME NEW i \in Inst, Crash(i) PROVE sreq[q] = sreq'[q]
    BY <1>0, <1>1, <2>4 DEF Crash, NoSeatRequest
  <2> QED
    BY <2>1, <2>2, <2>3, <2>4
    DEF Next, SeatSvc, PaymentSvc, Clock, seatVars, vars
<1>2. ASSUME NEW p \in PayReq, preq'[p].pc = "write", preq'[p].rid = r
      PROVE  (preq[p].pc = "write" /\ preq[p].rid = r) \/ rows[r].status = "HELD"
  <2>1. ASSUME NEW x \in PayReq, PayStep(x) \/ PayAbort(x)
        PROVE  (preq[p].pc = "write" /\ preq[p].rid = r) \/ rows[r].status = "HELD"
    <3>1. CASE PayRead(x)
      BY <1>0, <1>2, <3>1 DEF PayRead, Payable, EndPay, NoPayRequest, PayRequest
    <3>2. CASE PaymentOnly(x) \/ ConfirmSuccess(x) \/ ConfirmConflict(x) \/ ConfirmFail(x) \/ PayAbort(x)
      BY <1>0, <1>2, <3>2
      DEF PaymentOnly, ConfirmSuccess, ConfirmConflict, ConfirmFail, PayAbort, EndPay, NoPayRequest
    <3> QED BY <2>1, <3>1, <3>2 DEF PayStep
  <2>2. ASSUME Call PROVE preq[p].pc = "write" /\ preq[p].rid = r
    BY <1>0, <1>2, <2>2 DEF Call, BeginPay, PayRequest
  <2> QED
    BY <1>2, <2>1, <2>2 DEF Next, SeatSvc, PaymentSvc, Clock, vars
<1> QED BY <1>1, <1>2 DEF Writing

LEMMA NextReal == RealInv /\ [Next]_vars => RealInv'
<1> SUFFICES ASSUME RealInv, [Next]_vars PROVE RealInv'
  OBVIOUS
<1>1. TableStep
  BY NextTable DEF RealInv
<1>2. Real(rows') /\ \A r \in Rid : Exists(r) => rows'[r].status # "NONE"
  BY <1>1, RealTable DEF RealInv
<1>3. WritesReal'
  <2> SUFFICES ASSUME NEW r \in Rid, Writing(r)' PROVE Exists(r)'
    BY DEF WritesReal
  <2>1. Exists(r)
    BY NextWriting DEF RealInv, WritesReal, Exists
  <2> QED BY <1>2, <2>1 DEF Exists
<1>4. LockInv' /\ SeatExclusive'
  BY <1>1, NextLocks, ExclusiveStep DEF RealInv
<1> QED BY <1>2, <1>3, <1>4 DEF RealInv, Real

-----------------------------------------------------------------------------
LEMMA ClockAlone == [Next]_vars => clock' = clock \/ (Tick /\ rows' = rows)
BY DEF Next, Call, SeatSvc, PaymentSvc, Clock, Tick, vars, dbVars, BeginHold, BeginCancel, BeginPay,
       OnlyReads, HoldStep, LazyExpire, LazyFlip, Replay, FindExisting, CountHeld, Insert, Created,
       Winner, DeadlockVictim,
       CancelRead, CancelWrite, Released, Reply, Rollback, CommitFlips, Abort, Crash, ExpiryStep,
       TimerFire, TimerFail, TimerPublish, SweepLock, SweepUpdate, SweepFail, SweepPublish,
       SweepUnlock, SweepUnlockFail, PayStep, PayRead, PaymentOnly, ConfirmSuccess,
       ConfirmConflict, ConfirmFail, PayAbort

LEMMA StepIsLedger ==
  RealInv /\ [Next]_vars => Ledger!LedgerNext \/ UNCHANGED Ledger!ledgerVars
<1> SUFFICES ASSUME RealInv, [Next]_vars
             PROVE  Ledger!LedgerNext \/ UNCHANGED Ledger!ledgerVars
  OBVIOUS
<1>1. TableStep
  BY NextTable DEF RealInv
<1>2. Tables /\ OneHolder(rows')
  BY <1>1, ExclusiveStep, MappingReadsRows
  DEF RealInv, Tables, LockInv, Typing, ServicesTypeOK, DBTypeOK
<1>3. CASE clock' = clock
  <2>1. CASE rows' = rows
    <3>1. ticketOf' = ticketOf /\ placeOf' = placeOf
      BY <2>1, MappingReadsRows
    <3> QED BY <1>3, <3>1 DEF Ledger!ledgerVars
  <2>2. CASE \E R \in SUBSET Rid : Lapse(R)
    BY <1>2, <1>3, <2>2, LapseIsLedger
  <2>3. CASE \E r \in Rid : Drop(r) \/ Confirm(r)
    <3>1. PICK r \in Rid : Drop(r) \/ Confirm(r)
      BY <2>3
    <3>2. Exists(r)
      BY <3>1 DEF RealInv, WritesReal, Drop, Confirm
    <3> QED BY <1>2, <1>3, <3>1, <3>2, DropIsLedger, ConfirmIsLedger
  <2>4. CASE \E q \in SeatReq, r \in Rid : InsertHold(q, r)
    BY <1>2, <1>3, <2>4, InsertIsLedger DEF RealInv
  <2> QED BY <1>1, <2>1, <2>2, <2>3, <2>4 DEF TableStep
<1>4. CASE Tick /\ rows' = rows
  <2>1. ticketOf' = ticketOf /\ placeOf' = placeOf
    BY <1>4, MappingReadsRows
  <2>2. Ledger!Pass
    BY <1>4, <2>1 DEF Tick, Ledger!Pass
  <2> QED BY <2>2 DEF Ledger!LedgerNext, Ledger!SeatsChange
<1> QED BY <1>3, <1>4, ClockAlone

LEMMA InitIsLedger == Init => RealInv /\ Ledger!LedgerInit
<1> SUFFICES ASSUME Init PROVE RealInv /\ Ledger!LedgerInit
  OBVIOUS
<1>1. \A r \in Rid : rows[r].status = "NONE" /\ rows[r].seat = None
  BY DEF Init, DBInit, Absent
<1>2. Real(rows) /\ SeatExclusive
  BY <1>1 DEF Real, SeatExclusive, Occupants
<1>3. ~ \E r : Writing(r)
  BY DEF Init, HoldsInit, PayInit, NoSeatRequest, NoPayRequest, Writing
<1>4. LockInv
  BY InitTyping DEF Init, DBInit, HoldsInit, LockInv, FlippedAreStale, NowPast, NoSeatRequest
<1>5. ticketOf = [r \in {} |-> None]
  <2>1. {x \in Rid : Exists(x)} = {}
    BY <1>1 DEF Exists
  <2> QED BY <2>1 DEF ticketOf
<1>6. placeOf = [s \in Seat |-> Ledger!Free]
  <2>1. \A s \in Seat : Occupants(s) = {}
    BY <1>1 DEF Occupants
  <2> QED BY <2>1 DEF placeOf, Ledger!Free
<1> QED
  BY <1>2, <1>3, <1>4, <1>5, <1>6 DEF RealInv, WritesReal, Ledger!LedgerInit, Init, DBInit

(* Whatever holds, cancels, expiries, payments, aborts and crashes do to the *)
(* tables, the seats change hands only as the ledger allows: free or lapsed  *)
(* seats are given out, holds end no earlier than their deadline, a seat is  *)
(* sold to the reservation that has it or to one that comes back for a free  *)
(* seat, and a reservation keeps its seat, its user and its deadline.        *)
THEOREM ImplementsTheLedger == Spec => ImplementsLedger
<1>1. Init => RealInv /\ Ledger!LedgerInit
  BY InitIsLedger
<1>2. RealInv /\ [Next]_vars => RealInv'
  BY NextReal
<1>3. RealInv /\ [Next]_vars => [Ledger!LedgerNext]_(Ledger!ledgerVars)
  BY StepIsLedger
<1> QED BY <1>1, <1>2, <1>3, PTL DEF Spec, ImplementsLedger, Ledger!LedgerSpec
=============================================================================
