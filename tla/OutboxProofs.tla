---------------------------- MODULE OutboxProofs ----------------------------
(***************************************************************************)
(* Safety of the outbox workers, for any number of workers, events and     *)
(* failures.  A worker in the middle of an event holds a claim: what it    *)
(* knows of the event's attempts is a lower bound of what the table says,  *)
(* and when it is about to acknowledge, seat-svc has acted on the event.   *)
(***************************************************************************)
EXTENDS OutboxDelivery, WellFoundedInduction, FiniteSetTheorems, TLAPS

Busy == {"claim", "deliver", "ack", "nack"}
Claimed == {"deliver", "ack", "nack"}

OutboxInv ==
  /\ TypeOK
  /\ \A w \in Worker : pc[w] \in Busy => batch[w] # {}
  /\ \A w \in Worker : pc[w] = "ack" => Current(w) \in handled
  /\ \A w \in Worker : pc[w] \in Claimed => attempts[Current(w)] >= seen[w][Current(w)] + 1
  /\ ProcessedWasHandled
  /\ DeadWasTried

\* A nonempty set of naturals has a least element.
LEMMA Least ==
  ASSUME NEW S \in SUBSET Nat, S # {}
  PROVE  \E n \in S : \A m \in S : n <= m
<1>1. \E n \in S : \A m \in S : ~ (<<m, n>> \in OpToRel(<, Nat))
  BY WFMin, NatLessThanWellFounded, Zenon
<1>2. PICK n \in S : \A m \in S : ~ (<<m, n>> \in OpToRel(<, Nat))
  BY <1>1
<1>3. ASSUME NEW m \in S PROVE n <= m
  <2>1. ~ (m < n)
    BY <1>2 DEF OpToRel
  <2> QED BY <2>1
<1> QED BY <1>3

\* The event a busy worker is at is one of its batch.
LEMMA CurrentInBatch ==
  ASSUME NEW w, NEW B \in SUBSET Event, batch[w] = B, B # {}
  PROVE  Current(w) \in B
<1>1. B \in SUBSET Nat
  BY MaxEventsAssumption DEF Event
<1>2. \E e \in B : \A x \in B : e <= x
  BY <1>1, Least
<1> QED BY <1>2 DEF Current

\* A fetch brings at least the oldest pending event.
LEMMA FetchBringsSome ==
  ASSUME Pending # {}
  PROVE  Oldest # {}
<1>1. Pending \in SUBSET Nat
  BY MaxEventsAssumption DEF Pending, Event
<1>2. PICK e \in Pending : \A x \in Pending : e <= x
  BY <1>1, Least
<1>3. {x \in Pending : x < e} = {}
  <2>1. ASSUME NEW x \in Pending PROVE ~ (x < e)
    <3>1. x \in Nat /\ e \in Nat /\ e <= x
      BY <1>1, <1>2
    <3> QED BY <3>1
  <2> QED BY <2>1
<1>4. Cardinality({x \in Pending : x < e}) = 0
  BY <1>3, FS_EmptySet
<1> QED BY <1>2, <1>4, BatchSizeAssumption DEF Oldest, Pending

LEMMA OutboxInitially == Init => OutboxInv
BY MaxFaultsAssumption, MaxAttemptsAssumption
DEF Init, OutboxInv, TypeOK, OutboxStatus, Pc, Busy, Claimed, ProcessedWasHandled, DeadWasTried

\* A worker's step on an event it has claimed keeps what the others know.
LEMMA NextOutbox == OutboxInv /\ [Next]_vars => OutboxInv'
<1> SUFFICES ASSUME OutboxInv, [Next]_vars PROVE OutboxInv'
  OBVIOUS
<1> USE DEF OutboxInv, Busy, Claimed
<1>0. TypeOK
  OBVIOUS
<1>1. \A w \in Worker : pc[w] \in Busy => Current(w) \in batch[w] /\ Current(w) \in Event
  <2> SUFFICES ASSUME NEW w \in Worker, pc[w] \in Busy
               PROVE  Current(w) \in batch[w] /\ Current(w) \in Event
    OBVIOUS
  <2>1. batch[w] \in SUBSET Event /\ batch[w] # {}
    BY DEF TypeOK
  <2> QED BY <2>1, CurrentInBatch
<1>2. CASE UNCHANGED vars
  BY <1>2 DEF vars, TypeOK, Current, ProcessedWasHandled, DeadWasTried
<1>3. ASSUME NEW e \in Event, Insert(e) PROVE OutboxInv'
  <2>1. TypeOK'
    BY <1>3 DEF Insert, TypeOK, OutboxStatus
  <2>2. \A w \in Worker : Current(w)' = Current(w)
    BY <1>3 DEF Insert, Current
  <2> QED BY <1>3, <2>1, <2>2 DEF Insert, TypeOK, ProcessedWasHandled, DeadWasTried
\* A step of w that moves on keeps its batch nonempty while w is busy.
<1>4. ASSUME NEW w \in Worker, Advance(w), pc[w] \in Busy
      PROVE  /\ pc' \in [Worker -> Pc] /\ batch' \in [Worker -> SUBSET Event]
             /\ pc'[w] \notin Claimed
             /\ \A x \in Worker : pc'[x] \in Busy => batch'[x] # {}
             /\ \A x \in Worker \ {w} : pc'[x] = pc[x] /\ Current(x)' = Current(x)
  BY <1>0, <1>1, <1>4 DEF Advance, TypeOK, Pc, Current
\* A step of w that claims, delivers or retries keeps its batch.
<1>5. ASSUME NEW w \in Worker, NEW st \in Pc, pc' = [pc EXCEPT ![w] = st], UNCHANGED batch,
             pc[w] \in Busy
      PROVE  /\ pc' \in [Worker -> Pc] /\ batch' \in [Worker -> SUBSET Event] /\ pc'[w] = st
             /\ \A x \in Worker : pc'[x] \in Busy => batch'[x] # {}
             /\ \A x \in Worker \ {w} : pc'[x] = pc[x]
             /\ \A x \in Worker : Current(x)' = Current(x)
  BY <1>0, <1>5 DEF TypeOK, Pc, Current
<1>6. ASSUME NEW w \in Worker, Fetch(w) PROVE OutboxInv'
  <2>1. Oldest \in SUBSET Event /\ Oldest # {}
    BY <1>6, FetchBringsSome DEF Fetch, Oldest, Pending
  <2>2. TypeOK'
    BY <1>0, <1>6, <2>1 DEF Fetch, table, TypeOK, Pc
  <2>3. \A x \in Worker \ {w} : pc'[x] = pc[x] /\ batch'[x] = batch[x] /\ seen'[x] = seen[x]
    BY <1>0, <1>6 DEF Fetch, TypeOK
  <2>4. pc'[w] = "claim" /\ batch'[w] = Oldest
    BY <1>0, <1>6 DEF Fetch, TypeOK
  <2>5. \A x \in Worker \ {w} : Current(x)' = Current(x)
    BY <2>3 DEF Current
  <2> QED
    BY <1>6, <2>1, <2>2, <2>3, <2>4, <2>5 DEF Fetch, table, ProcessedWasHandled, DeadWasTried
<1>7. ASSUME NEW w \in Worker, Claim(w) PROVE OutboxInv'
  <2> DEFINE c == Current(w)
  <2>0. pc[w] = "claim" /\ UNCHANGED <<status, handled, seen, faults>> /\ c \in Event
    BY <1>1, <1>7 DEF Claim
  <2>1. CASE ~Claimable(w) /\ Advance(w) /\ UNCHANGED attempts
    <3>1. TypeOK'
      BY <1>0, <1>4, <2>0, <2>1 DEF TypeOK
    <3> QED BY <1>4, <2>0, <2>1, <3>1 DEF ProcessedWasHandled, DeadWasTried
  <2>2. CASE /\ Claimable(w) /\ attempts' = [attempts EXCEPT ![c] = @ + 1]
             /\ pc' = [pc EXCEPT ![w] = "deliver"] /\ UNCHANGED batch
    <3>0. "deliver" \in Pc
      BY DEF Pc
    <3>1. attempts' \in [Event -> Nat] /\ \A e \in Event : attempts'[e] >= attempts[e]
      BY <1>0, <2>0, <2>2 DEF TypeOK
    <3>2. attempts'[c] = seen[w][c] + 1
      BY <1>0, <2>0, <2>2 DEF TypeOK, Claimable
    <3>3. TypeOK'
      BY <1>0, <1>5, <2>0, <2>2, <3>0, <3>1 DEF TypeOK
    <3>4. \A x \in Worker : pc'[x] \in Claimed => attempts'[Current(x)] >= seen[x][Current(x)] + 1
      <4> SUFFICES ASSUME NEW x \in Worker, pc'[x] \in Claimed
                   PROVE  attempts'[Current(x)] >= seen[x][Current(x)] + 1
        OBVIOUS
      <4>1. CASE x = w
        BY <1>0, <2>0, <3>2, <4>1 DEF TypeOK
      <4>2. CASE x # w
        <5>1. pc[x] \in Claimed /\ Current(x) \in Event
          BY <1>1, <1>5, <2>0, <2>2, <3>0, <4>2
        <5>2. attempts[Current(x)] >= seen[x][Current(x)] + 1
          BY <5>1
        <5>3. /\ attempts'[Current(x)] \in Nat /\ attempts[Current(x)] \in Nat
              /\ seen[x][Current(x)] \in Nat
          BY <1>0, <3>1, <5>1 DEF TypeOK
        <5> QED BY <3>1, <5>1, <5>2, <5>3
      <4> QED BY <4>1, <4>2
    <3>5. DeadWasTried'
      BY <1>0, <2>0, <3>1, MaxAttemptsAssumption DEF DeadWasTried, TypeOK
    <3>6. /\ \A x \in Worker : Current(x)' = Current(x) /\ (pc'[x] \in Busy => batch'[x] # {})
          /\ pc'[w] = "deliver" /\ \A x \in Worker \ {w} : pc'[x] = pc[x]
      BY <1>5, <2>0, <2>2, <3>0
    <3>7. \A x \in Worker : pc'[x] = "ack" => Current(x)' \in handled'
      BY <2>0, <3>6
    <3>8. \A x \in Worker : pc'[x] \in Claimed => attempts'[Current(x)'] >= seen'[x][Current(x)'] + 1
      BY <2>0, <3>4, <3>6
    <3>9. ProcessedWasHandled'
      BY <2>0 DEF ProcessedWasHandled
    <3> QED BY <3>3, <3>5, <3>6, <3>7, <3>8, <3>9
  <2> QED BY <1>7, <2>1, <2>2 DEF Claim
<1>8. ASSUME NEW w \in Worker, Deliver(w) \/ Refused(w) \/ DeliverFail(w) PROVE OutboxInv'
  <2>0. /\ pc[w] = "deliver" /\ UNCHANGED <<status, attempts, batch, seen>>
        /\ handled \subseteq handled' /\ handled' \subseteq handled \cup {Current(w)}
        /\ faults' \in 0 .. MaxFaults
    BY <1>0, <1>8, MaxFaultsAssumption DEF Deliver, Refused, DeliverFail, Fault, table, TypeOK
  <2>1. PICK st \in {"ack", "nack"} : /\ pc' = [pc EXCEPT ![w] = st]
                                      /\ st = "ack" => Current(w) \in handled'
    BY <1>8 DEF Deliver, Refused, DeliverFail
  <2>2. st \in Pc
    BY DEF Pc
  <2>3. /\ pc' \in [Worker -> Pc] /\ batch' \in [Worker -> SUBSET Event] /\ pc'[w] = st
        /\ \A x \in Worker : Current(x)' = Current(x) /\ (pc'[x] \in Busy => batch'[x] # {})
        /\ \A x \in Worker \ {w} : pc'[x] = pc[x]
    <3>1. pc' = [pc EXCEPT ![w] = st] /\ UNCHANGED batch /\ pc[w] \in Busy
      BY <2>0, <2>1
    <3> QED BY <1>5, <2>2, <3>1
  <2>4. Current(w) \in Event
    BY <1>1, <2>0
  <2>5. TypeOK'
    BY <1>0, <2>0, <2>3, <2>4 DEF TypeOK
  <2>6. \A x \in Worker : pc'[x] = "ack" => Current(x)' \in handled'
    BY <2>0, <2>1, <2>3
  <2>7. \A x \in Worker : pc'[x] \in Claimed => attempts'[Current(x)'] >= seen'[x][Current(x)'] + 1
    <3>1. ASSUME NEW x \in Worker, pc'[x] \in Claimed PROVE pc[x] \in Claimed
      BY <2>0, <2>3, <3>1
    <3> QED BY <2>0, <2>3, <3>1
  <2>8. ProcessedWasHandled' /\ DeadWasTried'
    BY <2>0 DEF ProcessedWasHandled, DeadWasTried
  <2> QED BY <2>3, <2>5, <2>6, <2>7, <2>8
<1>9. ASSUME NEW w \in Worker, Ack(w) PROVE OutboxInv'
  <2>0. pc[w] = "ack" /\ Advance(w) /\ UNCHANGED <<attempts, handled, seen, faults>>
    BY <1>9 DEF Ack
  <2>1. status' = [status EXCEPT ![Current(w)] = "PROCESSED"]
    BY <1>9 DEF Ack
  <2>2. TypeOK'
    BY <1>0, <1>4, <2>0, <2>1 DEF TypeOK, OutboxStatus
  <2>3. ProcessedWasHandled' /\ DeadWasTried'
    BY <1>0, <2>0, <2>1 DEF ProcessedWasHandled, DeadWasTried, TypeOK
  <2> QED BY <1>4, <2>0, <2>2, <2>3
<1>10. ASSUME NEW w \in Worker, AckFail(w) PROVE OutboxInv'
  <2>0. /\ pc[w] = "ack" /\ UNCHANGED <<attempts, handled, batch, seen>>
        /\ pc' = [pc EXCEPT ![w] = "nack"] /\ faults' \in 0 .. MaxFaults
    BY <1>0, <1>10, MaxFaultsAssumption DEF AckFail, Fault, TypeOK
  <2>1. status' = status \/ status' = [status EXCEPT ![Current(w)] = "PROCESSED"]
    BY <1>10 DEF AckFail
  <2>2. "nack" \in Pc
    BY DEF Pc
  <2>3. TypeOK'
    BY <1>0, <1>5, <2>0, <2>1, <2>2 DEF TypeOK, OutboxStatus
  <2>4. ProcessedWasHandled' /\ DeadWasTried'
    BY <1>0, <2>0, <2>1 DEF ProcessedWasHandled, DeadWasTried, TypeOK
  <2>5. /\ \A x \in Worker : Current(x)' = Current(x) /\ (pc'[x] \in Busy => batch'[x] # {})
        /\ pc'[w] = "nack" /\ \A x \in Worker \ {w} : pc'[x] = pc[x]
    BY <1>5, <2>0, <2>2
  <2>6. \A x \in Worker : pc'[x] = "ack" => Current(x)' \in handled'
    BY <2>0, <2>5
  <2>7. \A x \in Worker : pc'[x] \in Claimed => attempts'[Current(x)'] >= seen'[x][Current(x)'] + 1
    BY <2>0, <2>5
  <2> QED BY <2>3, <2>4, <2>5, <2>6, <2>7
<1>11. ASSUME NEW w \in Worker, Nack(w) PROVE OutboxInv'
  <2> DEFINE c == Current(w)
  <2>0. pc[w] = "nack" /\ Advance(w) /\ UNCHANGED <<attempts, handled, seen, faults>>
    BY <1>11 DEF Nack
  <2>1. status' = [status EXCEPT ![c] = IF Spent(w) THEN "DEAD" ELSE "PENDING"]
    BY <1>11 DEF Nack
  <2>2. TypeOK'
    BY <1>0, <1>4, <2>0, <2>1 DEF TypeOK, OutboxStatus
  <2>3. Spent(w) => attempts[c] >= MaxAttempts
    <3>1. /\ c \in Event /\ attempts[c] >= seen[w][c] + 1
          /\ attempts[c] \in Nat /\ seen[w][c] \in Nat
      BY <1>0, <1>1, <2>0 DEF TypeOK
    <3> QED BY <3>1, MaxAttemptsAssumption DEF Spent
  <2>4. ProcessedWasHandled' /\ DeadWasTried'
    BY <1>0, <2>0, <2>1, <2>3 DEF ProcessedWasHandled, DeadWasTried, TypeOK
  <2> QED BY <1>4, <2>0, <2>2, <2>4
<1>12. ASSUME NEW w \in Worker, TickLost(w) PROVE OutboxInv'
  <2>0. /\ UNCHANGED <<status, attempts, handled, seen>> /\ faults' \in 0 .. MaxFaults
        /\ pc' \in [Worker -> Pc] /\ batch' \in [Worker -> SUBSET Event] /\ pc'[w] = "idle"
        /\ \A x \in Worker \ {w} : pc'[x] = pc[x] /\ batch'[x] = batch[x] /\ Current(x)' = Current(x)
    BY <1>0, <1>12, MaxFaultsAssumption DEF TickLost, Fault, table, TypeOK, Pc, Current
  <2>1. TypeOK'
    BY <1>0, <2>0 DEF TypeOK
  <2> QED BY <2>0, <2>1 DEF ProcessedWasHandled, DeadWasTried
<1> QED
  BY <1>2, <1>3, <1>6, <1>7, <1>8, <1>9, <1>10, <1>11, <1>12 DEF Next, WorkerStep

LEMMA OutboxInvariant == Spec => []OutboxInv
<1> QED BY OutboxInitially, NextOutbox, PTL DEF Spec

(* The outbox table and the workers' bookkeeping keep their types. *)
THEOREM OutboxTyped == Spec => []TypeOK
<1>1. OutboxInv => TypeOK
  BY DEF OutboxInv
<1> QED BY <1>1, OutboxInvariant, PTL

(* However many workers race, lose answers and die, an event is marked       *)
(* PROCESSED only when seat-svc has acted on it.                             *)
THEOREM NeverProcessedUnhandled == Spec => []ProcessedWasHandled
<1>1. OutboxInv => ProcessedWasHandled
  BY DEF OutboxInv
<1> QED BY <1>1, OutboxInvariant, PTL

(* An event is given up only after MAX_ATTEMPTS claims, although the worker  *)
(* counts with the attempts it fetched and not with those in the table.      *)
THEOREM NeverDeadEarly == Spec => []DeadWasTried
<1>1. OutboxInv => DeadWasTried
  BY DEF OutboxInv
<1> QED BY <1>1, OutboxInvariant, PTL
=============================================================================
