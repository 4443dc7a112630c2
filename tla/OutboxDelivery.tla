--------------------------- MODULE OutboxDelivery ---------------------------
(***************************************************************************)
(* The outbox workers of payment-svc (outboxWorker.ts) over the            *)
(* OutboxEvent table.  Every payment-svc instance runs one worker; a tick  *)
(* fetches a batch of PENDING events and takes them one by one: claim by   *)
(* compare-and-set, deliver to seat-svc, acknowledge or give back.         *)
(***************************************************************************)
EXTENDS Naturals, FiniteSets

CONSTANTS
  Worker,       \* payment-svc instances
  MaxEvents,    \* events ever inserted (a bound)
  MaxAttempts,  \* MAX_ATTEMPTS
  BatchSize,    \* BATCH_SIZE
  Poison,       \* events seat-svc never accepts
  MaxFaults     \* lost answers, failed statements and crashes (a bound)

Event == 1 .. MaxEvents  \* in the order of createdAt

ASSUME MaxEventsAssumption == MaxEvents \in Nat
ASSUME MaxAttemptsAssumption == MaxAttempts \in Nat \ {0}
ASSUME BatchSizeAssumption == BatchSize \in Nat \ {0}
ASSUME PoisonAssumption == Poison \subseteq Event
ASSUME MaxFaultsAssumption == MaxFaults \in Nat

VARIABLES
  status,    \* status[e], "NONE" before the insert
  attempts,  \* attempts[e]
  handled,   \* events seat-svc has acted on at least once
  pc,        \* pc[w]: the await worker w is suspended at; "idle" between ticks
  batch,     \* batch[w]: events of the tick still to be taken
  seen,      \* seen[w][e]: attempts of e when w fetched it
  faults

vars == <<status, attempts, handled, pc, batch, seen, faults>>
table == <<status, attempts, handled>>

OutboxStatus == {"NONE", "PENDING", "PROCESSED", "DEAD"}
Pc == {"idle", "claim", "deliver", "ack", "nack"}

Init ==
  /\ status = [e \in Event |-> "NONE"]
  /\ attempts = [e \in Event |-> 0]
  /\ handled = {}
  /\ pc = [w \in Worker |-> "idle"]
  /\ batch = [w \in Worker |-> {}]
  /\ seen = [w \in Worker |-> [e \in Event |-> 0]]
  /\ faults = 0

Fault == faults < MaxFaults /\ faults' = faults + 1

\* The event the for loop is at.
Current(w) == CHOOSE e \in batch[w] : \A x \in batch[w] : e <= x

\* A confirm transaction commits (Payments!Enqueue).
Insert(e) ==
  /\ status[e] = "NONE"
  /\ \A x \in 1 .. e - 1 : status[x] # "NONE"
  /\ status' = [status EXCEPT ![e] = "PENDING"]
  /\ UNCHANGED <<attempts, handled, pc, batch, seen, faults>>

Pending == {e \in Event : status[e] = "PENDING"}

\* orderBy createdAt, take BATCH_SIZE
Oldest == {e \in Pending : Cardinality({x \in Pending : x < e}) < BatchSize}

\* The interval fires while no tick of w is running.
Fetch(w) ==
  /\ pc[w] = "idle"
  /\ Pending # {}
  /\ pc' = [pc EXCEPT ![w] = "claim"]
  /\ batch' = [batch EXCEPT ![w] = Oldest]
  /\ seen' = [seen EXCEPT ![w] = attempts]
  /\ UNCHANGED <<table, faults>>

\* Mutant: the compare-and-set expects the value of the insert.
ClaimFresh(w) == Current(w) \in Pending /\ attempts[Current(w)] = 0

\* WHERE id = e AND status = 'PENDING' AND attempts = seen
Claimable(w) ==
  Current(w) \in Pending /\ attempts[Current(w)] = seen[w][Current(w)]

\* The loop goes on to the next event, or the tick ends.
Advance(w) ==
  /\ batch' = [batch EXCEPT ![w] = @ \ {Current(w)}]
  /\ pc' = [pc EXCEPT ![w] = IF batch[w] = {Current(w)} THEN "idle" ELSE "claim"]

\* Mutant: a claim does not count as an attempt.
ClaimUncounted(w) ==
  /\ pc[w] = "claim"
  /\ \/ Claimable(w) /\ pc' = [pc EXCEPT ![w] = "deliver"] /\ UNCHANGED batch
     \/ ~Claimable(w) /\ Advance(w)
  /\ UNCHANGED <<table, seen, faults>>

Claim(w) ==
  /\ pc[w] = "claim"
  /\ \/ /\ Claimable(w)
        /\ attempts' = [attempts EXCEPT ![Current(w)] = @ + 1]
        /\ pc' = [pc EXCEPT ![w] = "deliver"]
        /\ UNCHANGED batch
     \/ ~Claimable(w) /\ Advance(w) /\ UNCHANGED attempts
  /\ UNCHANGED <<status, handled, seen, faults>>

\* seat-svc answers 2xx.
Deliver(w) ==
  /\ pc[w] = "deliver"
  /\ Current(w) \notin Poison
  /\ handled' = handled \cup {Current(w)}
  /\ pc' = [pc EXCEPT ![w] = "ack"]
  /\ UNCHANGED <<status, attempts, batch, seen, faults>>

\* seat-svc refuses the event.
Refused(w) ==
  /\ pc[w] = "deliver"
  /\ Current(w) \in Poison
  /\ pc' = [pc EXCEPT ![w] = "nack"]
  /\ UNCHANGED <<table, batch, seen, faults>>

\* The call fails, before or after seat-svc acted on it.
DeliverFail(w) ==
  /\ pc[w] = "deliver"
  /\ Fault
  /\ \/ UNCHANGED handled
     \/ Current(w) \notin Poison /\ handled' = handled \cup {Current(w)}
  /\ pc' = [pc EXCEPT ![w] = "nack"]
  /\ UNCHANGED <<status, attempts, batch, seen>>

Ack(w) ==
  /\ pc[w] = "ack"
  /\ status' = [status EXCEPT ![Current(w)] = "PROCESSED"]
  /\ Advance(w)
  /\ UNCHANGED <<attempts, handled, seen, faults>>

\* The acknowledging update throws inside the try, executed or not: treated as
\* a failed delivery.
AckFail(w) ==
  /\ pc[w] = "ack"
  /\ Fault
  /\ status' = status \/ status' = [status EXCEPT ![Current(w)] = "PROCESSED"]
  /\ pc' = [pc EXCEPT ![w] = "nack"]
  /\ UNCHANGED <<attempts, handled, batch, seen>>

\* Mutant: one attempt too early.
SpentEarly(w) == seen[w][Current(w)] + 2 >= MaxAttempts

Spent(w) == seen[w][Current(w)] + 1 >= MaxAttempts

\* Mutant: the acknowledgement is in a finally block.
NackProcessed(w) ==
  /\ pc[w] = "nack"
  /\ status' = [status EXCEPT ![Current(w)] = IF Spent(w) THEN "DEAD" ELSE "PROCESSED"]
  /\ Advance(w)
  /\ UNCHANGED <<attempts, handled, seen, faults>>

\* Mutant: a status the schema does not have.
NackFailed(w) ==
  /\ pc[w] = "nack"
  /\ status' = [status EXCEPT ![Current(w)] = IF Spent(w) THEN "FAILED" ELSE "PENDING"]
  /\ Advance(w)
  /\ UNCHANGED <<attempts, handled, seen, faults>>

\* update({ where: { id } }): whatever another worker has written since.
Nack(w) ==
  /\ pc[w] = "nack"
  /\ status' = [status EXCEPT ![Current(w)] = IF Spent(w) THEN "DEAD" ELSE "PENDING"]
  /\ Advance(w)
  /\ UNCHANGED <<attempts, handled, seen, faults>>

\* A claim or a nack throws (a statement whose answer is lost has been executed
\* by the step before), or the process dies and restarts: the tick is over.
TickLost(w) ==
  /\ pc[w] # "idle"
  /\ Fault
  /\ pc' = [pc EXCEPT ![w] = "idle"]
  /\ batch' = [batch EXCEPT ![w] = {}]
  /\ UNCHANGED <<table, seen>>

WorkerStep(w) ==
  Fetch(w) \/ Claim(w) \/ Deliver(w) \/ Refused(w) \/ Ack(w) \/ Nack(w)

Next ==
  \/ \E e \in Event : Insert(e)
  \/ \E w \in Worker : WorkerStep(w) \/ DeliverFail(w) \/ AckFail(w) \/ TickLost(w)

Spec == Init /\ [][Next]_vars

(* The interval of every worker keeps firing and its awaits return. *)
FairSpec == Spec /\ \A w \in Worker : WF_vars(WorkerStep(w))

-----------------------------------------------------------------------------
TypeOK ==
  /\ status \in [Event -> OutboxStatus]
  /\ attempts \in [Event -> Nat]
  /\ handled \subseteq Event
  /\ pc \in [Worker -> Pc]
  /\ batch \in [Worker -> SUBSET Event]
  /\ seen \in [Worker -> [Event -> Nat]]
  /\ faults \in 0 .. MaxFaults

\* An event leaves the queue as PROCESSED only if seat-svc acted on it, whatever
\* workers race and wherever they die ("external call first, ack after").
ProcessedWasHandled == \A e \in Event : status[e] = "PROCESSED" => e \in handled

\* An event is given up only after MAX_ATTEMPTS claims.
DeadWasTried == \A e \in Event : status[e] = "DEAD" => attempts[e] >= MaxAttempts

\* Every event leaves the queue in the end: a poison event cannot stay in it.
QueueDrains ==
  \A e \in Event : status[e] = "PENDING" ~> status[e] \in {"PROCESSED", "DEAD"}

\* An event seat-svc can act on reaches it, although the poison events before it
\* fill a batch (so only their death gets it fetched), when failures are fewer
\* than MAX_ATTEMPTS.
HealthyDelivered == \A e \in Event \ Poison : status[e] = "PENDING" ~> e \in handled

\* outboxWorker.ts:73: "Bounded retries -> DEAD letter ... DEAD rows are kept
\* for inspection/alerting": a dead event never re-enters the queue.
DeadStays == [][\A e \in Event : status[e] = "DEAD" => status'[e] # "PENDING"]_vars
=============================================================================
