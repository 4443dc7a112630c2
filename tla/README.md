# Seat reservation platform: verification project

TLA+ modules for the seat reservation platform in `src/`: an express/Prisma system in which users
hold a seat for `HOLD_TTL_SECONDS`, pay for it through a mock provider, and lose it when the hold
lapses. Three services share one Postgres database; the interesting behaviour is what their
transactions, timers, retries and crashes do to each other at READ COMMITTED isolation.

## 1. Inventory

| Component (source) | State it keeps | Operations | Hard part |
| --- | --- | --- | --- |
| Tables (`packages/db/prisma`) | `Reservation`, `Payment`, `OutboxEvent`, `User`, `Seat`, `RefreshToken`; partial unique index on the seat of active reservations; unique idempotency key | statements of the services | snapshots, row locks, the order in which unique indexes object |
| Holds (`apps/seat-svc/src/routes/reservations.ts`) | one transaction per request | POST: lazy expiry, replay by key, existing, count, insert; DELETE: read, then update by id; GET | races of retries, stale reads, five-statement transaction holding row locks |
| Hold expiry (`expiryScheduler.ts`, `sweeper.ts`, `events.ts`) | per-process timers; session advisory lock | timer fires, sweep tick, publish | three expirers for one row, lost timers, orphaned lock |
| Payments (`apps/payment-svc/src/routes/payments.ts`) | one transaction per request | intent, confirm (success, fail, timeout) | decisions on a row that others may change before the write |
| Outbox (`outboxWorker.ts`) | `OutboxEvent.status`, `attempts` | fetch, claim, deliver, ack, give back | lost answers, several workers, poison events |
| Seat cache and listing (`seatCache.ts`, `routes/seats.ts`, `events.ts`) | one Redis key with a TTL; read pool, possibly a replica | cache-aside read; invalidate and notify | a slow read stores an old list after the invalidation; the two halves of a publish are unordered and may be lost |
| SSE stream (`apps/gateway/src/sse.ts`) and seats page (`SeatsPage.tsx`) | listeners; the seats shown, a poll interval | snapshot, fan-out, reconnect; refresh on event, countdown, poll | events between snapshot and listener; overlapping answers |
| Sessions (`apps/auth-svc/src/routes/auth.ts`, `packages/linkz-core/src/auth.ts`) | refresh tokens, `tokenVersion` | register, login, refresh with reuse detection, logout, me | rotation against logout and reuse burn |
| Web client (`apps/web/src`) | cookies, `busy` | hold/cancel in parallel, pay one by one, refresh on 401 | parallel 401s, partial failure, requests that outlive `busy` |
| Gateway (`apps/gateway/src/app.ts`) | rate counters | identity, proxying | stale `tokenVersion` from a replica |
| Infrastructure (`infra`), tests, views, seed | none | | |

Calls: browser -> nginx -> gateway -> the three services (HTTP, identity in `X-User-Id`). seat-svc
and payment-svc write the same `Reservation` rows and never call each other for it. payment-svc
tells seat-svc of its writes through the outbox; seat-svc invalidates the cache and posts to the
gateway, which fans out over SSE.

What makes each component correct:

- tables and holds: one active reservation per seat; one reservation per idempotency key; a caller
  is answered with their own reservation; a holder loses the seat to another only after the hold lapsed;
- expiry: never early, announced at most once, and eventually, whatever is lost;
- payments: paid exactly if confirmed, one outcome reported, a confirmation is final (the code promises this
  and keeps it only for reservations that their user's requests decide one at a time, see section 6);
- outbox: nothing leaves the queue unhandled or untried, and the queue drains;
- cache: after an invalidation no older listing is served (with two gaps, see section 6); stream: no change is
  missed between the snapshot and the events; page: once changes stop it comes to show the current seats, and keeps to it;
- sessions: at most one live token per session, logout and reuse burn end it.

`PROJECT.json` lists the hazards line by line, with the properties that cover them.

## 2. Modules

```
BookingDB ---- HoldExpiry ---- SeatHolds --+
        \                                  +-- Booking ---- MCBooking     (TLC)
         ------- Payments -----------------+    : |  \------ BookingProofs - LedgerProofs - RequestProofs (TLAPS)
                                                :                                           |
                                                : implements                          DecisionProofs (TLAPS)
                                              SeatLedger
                                                  |
                                              SeatCache ---- SeatStream --+-- MCSeats      (TLC)
                                                                          +-- SeatProofs   (TLAPS)

OutboxDelivery --+-- MCOutbox     (TLC)
                 +-- OutboxProofs (TLAPS)

AuthSessions ---- WebSessions --+-- MCSessions    (TLC)
                                +-- SessionProofs - OverlapProofs (TLAPS)
```

**BookingDB**: the tables both services write, and what a statement sees. A reservation is a record
in `rows`, absent until inserted. `locks[r] = q` says that the open hold transaction of request `q`
has flipped row `r` to EXPIRED and has not committed: others still read HELD (`Seen`), other writers
of the row wait, and an insertion for the same seat must wait to learn the flip's fate
(`SeatInDoubt`). Only the hold transaction writes rows before its last statements, so it is the only
one that needs such a flag; every other write and its commit are one step. A payment transaction does
hold its rows between its update and its commit, and since it does nothing but write there, the
moment of its commit is the only one others can observe.

**HoldExpiry**: `expiryScheduler.ts` (timer fires with a guarded update, publishes if a row matched)
and `sweeper.ts` (advisory lock, update, publish, unlock) for any number of instances. `told` counts
the calls of `publishSeatChange`. An executed statement whose answer is lost is the step followed by
its `...Fail`. The advisory lock belongs to a database session and is re-entrant in it; `holder` and
`extra` follow an unlock that failed.

**SeatHolds**: POST and DELETE of `reservations.ts`; `sreq[q].pc` is the `await` the request is
suspended at. The lazy expiry is one statement and many steps: `LazyExpire` takes the snapshot, then each
`LazyFlip` waits for the lock of one row, evaluates the WHERE clause on it again and flips it, in any
order of rows. Two such transactions, or one and an INSERT, may wait for each other in a cycle;
`DeadlockVictim` is Postgres aborting one of them (`Blockers` says who waits for whom). The seat lookup shares a step with the key lookup (seats never change); every other
statement of the transaction is a step of its own, and so are the work after the commit (`Created`,
`Released`) and the lookup after a lost key race (`Winner`). `Abort` is a failed `await`, `Crash` the
death and restart of an instance: `index.ts` starts only the sweeper again, so timers stay lost.

**Payments**: intent and confirm: `PayRead` is the read and every check on it; the writes commit in
a later step. The update of an expired hold to EXPIRED in both routes is followed by a throw in the
same transaction and so never happens.

**Booking**: composition over the tables, time, the callers, and the properties of both services. Callers
send any request at any time: several tabs, retries, other clients.

`Booking` has one history variable, `overlapped`. A payment and a release each read a reservation and then write
it by id, and nothing in the services keeps two of one user apart. The web client's `busy` flag
(`SeatsPage.tsx:80`) does not either: it is state of the page, cleared in `finally` when a fetch is rejected
(118-120, 146-148, 179-181: a lost answer, a proxy's 502 or 504) and gone after a reload, while the service still carries the
request out. So nothing is assumed of the client. `overlapped` collects the reservations about which one user
has ever had two such requests under way, and the properties speak of the others (`Alone`): whatever expirers,
other users, crashes, deadlocks, lost answers and repeated or late requests do, it is those overlaps and nothing else that break
the promises about payments. No action reads it; `NoteOverlaps` is the part of each step that keeps it.

**SeatLedger**: the abstract specification of the tables. A seat is free, on hold until a deadline, or
sold, and there are no requests, statements, locks, timers or retries: one step gives out a free seat
or one whose hold has lapsed, ends holds at or past their deadline, sells a seat to its own reservation, or
vacates it. `Booking` implements it (`ImplementsLedger`) under the mapping `ticketOf` (the columns of a
reservation that never change) and `placeOf` (the active reservation of a seat).

**SeatCache**: the public listing over that ledger. `past` lists what the seats were after each change,
so a listing is a number, and so is what the key holds. A request of the bag `reads` is suspended at its
`await`, and becomes a response with the view computed for its viewer. `Commit` is any change of the ledger
(`SeatsChange`, which is what the services' steps are proved to be) that `publishSeatChange` follows (also one of payment-svc,
through `/internal/seat-changed`), whose DEL and POST then happen in any order (`Invalidate`, `Ingest`) or never.
`CommitLazily` is the lazy expiry, which is published by nobody. `replayed` is how far a replica behind
`DATABASE_READ_URL` has come. The lookup in the cache and the query after a miss are one `await`: a miss is
always possible (no Redis, an error, an aged entry), so splitting them adds no outcome. `raced` is history: the
changes at whose DEL an older listing was still to come (`OlderToCome`), from a request about to store it
or from a replica that is behind.

**SeatStream**: the gateway's `/api/seats/stream` and the seats page over it. The page asks for the
seats when it opens, on an event, at a poll and when a countdown ends; its requests overlap, and
every answer and every snapshot replaces what it shows, in order of arrival. Whom a request is taken for is the
gateway's decision (`attachUser`): its own user, nobody when the access cookie has lapsed or its version was bumped (a 200 and no
401, so nothing refreshes it), or somebody else after a sign-in in another tab; `Ask` leaves it open each time. An
unrecognised request for the stream is refused with a 401, and its `EventSource` gives up: the page stays `down`. A stream breaks and
comes back, an answer may be lost, the page may be left with requests under way. `knew` is a history
variable: the changes the gateway had been told of when the page last asked over an open stream.

**OutboxDelivery**: the workers of all payment-svc instances over the queue. `seen[w]` is what the
tick's fetch returned, which the claim compares with and the give-back counts from.

**AuthSessions**: `/login`, `/refresh` and `/logout` of auth-svc, one step per database call. A token
belongs to a session, named by the token its sign-in issued; a rotation passes the session on. The
reuse burn is two steps, because its `updateMany` does not see a replacement that a concurrent
rotation inserts after it started. `version` is `User.tokenVersion`; a request signs the version it
read, which may have risen since.

**WebSessions**: browsers over it: the cookie jar, any two calls in flight, the gateway's check of
`tokenVersion`, one refresh after a 401 and one retry (`api.ts:59-98`). Cookies are those of the
moment a call or its refresh is sent. `overlapped` remembers whose calls have ever run in parallel on
one browser.

Operators whose comment starts with *Mutant* are wrong versions of the definition below them; nothing uses
them. Replacing the definition by them must break a property.

## 3. What TLC checks

| Run | Question | Instance |
| --- | --- | --- |
| `hold` | one key one reservation, answers are the caller's own, flipped rows are lapsed holds, no holder displaced | 2 users, 2 concurrent requests, 1 seat, 1 key, 2 ids |
| `late` | a late payment outcome never double-books and never re-holds; seen through the active reservations, both services are a ledger of seats (refinement); unless requests of its user overlapped, a reservation is paid exactly if confirmed, reported once, and stays confirmed; also the types | 1 user, 1 payment request, 1 other request, 2 ids |
| `expiry` | an expiry is never early and never announced twice, and a lapsed hold is eventually gone (liveness) | 1 hold, its timer, 2 sweepers, later POSTs with their lazy expiry, DELETE, 2 failures |
| `ends` | every request ends, although transactions deadlock (liveness) | 3 concurrent POSTs after a restart, 2 seats with a lapsed hold each |
| `outbox` | nothing leaves the queue unhandled or untried; it drains; a healthy event behind a whole batch of poison ones arrives (liveness) | 2 workers, 3 events, batch 2, the two oldest poison, 1 failure |
| `sessions` | one live token per session; no access token outlives its session; nobody is signed out without a sign-out, a lost answer or parallel calls of one browser; also the types | 2 browsers of 1 user, 3 tokens, 2 calls in flight, 1 lost answer |
| `seats` | after a DEL no older listing is served but through two named gaps; no change is missed between snapshot and events; also the types | 1 page, 1 seat, 1 change from any start, 2 listings in flight, 1 tick |
| `settle` | the page comes to show the current statuses for good, and its own seats as its own if it is recognised for good (liveness) | the same without the tick |
| `v_cancelled`, `v_reconfirm`, `v_dead`, `v_refresh` | statements of the repository that a race refutes, section 6 | smallest that show it |

Bounds. One seat is enough for everything about a seat's succession: rows of different seats interact
only through the lazy expiry, which takes all lapsed rows alike, and through the limit, a count. A deadlock needs
two lapsed rows, hence two seats in `ends`, which begins where they are: every seat was put on hold, every hold has lapsed, and
a restart lost the timers (`Restarted`, a state the program reaches by two POSTs, a crash and time). Its requests are POSTs
(`PostsAfterRestart`): a DELETE waits for one lock and holds none. Three of them are pairs and cycles of three. Two ids give a hold and its successor. `HoldTtl = 1` and `MaxClock = 2` give each hold the instants before, at
and after its deadline, so the strict and the non-strict comparisons differ. Two concurrent requests give
every pairwise race; `MaxFaults` bounds crashes and failures, 2 in `expiry`, where one must hit the recovery from
another. There one id is one hold: only the instance that created it ever arms its timer; with `PostWhenFull` further POSTs
begin when the ids are used up and flip the lapsed hold lazily before their INSERT is refused (*Rid is used up*). In `hold`, `late`
and the `v_` runs `PostWhenFull = FALSE` only ends behaviours when ids run out. `late` has one user who books the seat again after
losing it: the races of two users for a seat are those of `hold`; with one payment and one other request, the
overlaps it sees are those of a payment and a release, and those of two payments are in `v_reconfirm`; the proofs have no such bound.
`MaxActive = 1` makes every second hold meet the limit. Callers in `late` name seats and reservations there
are (the action constraint `KnownIds`); unknown ones are refused in `hold` and `expiry`. In `outbox`,
`MaxAttempts = 2` stands for 5: the first attempt, and the one whose failure is final; the poison events fill a batch, so the
healthy one is out of reach until they are DEAD. In `sessions`, three tokens are two sessions, one of them
rotated, or one rotated twice, which a burn that misses a rotation needs (the proofs of section 4 have
no such bound); two calls give every pairwise race, of one browser or of two. In `seats` and `settle`, listings begin with the seat free
or held, so one change is any change; two listings in flight are a stale one and the one that overtakes it,
by the page, the gateway, or somebody else; the clock's one tick lets a hold lapse on its own. `settle` does without the
tick: with the clock at its bound time stands still anyway, what a lapse changes is a change of the ledger as well, and the
liveness check of the larger instance takes too long. More changes only
lengthen the behaviour before things settle. All runs but
`sessions` and `v_refresh` allow deadlock because the clock, the ids or the events run out. Ids are symmetric in the safety runs of
bookings and sessions, and `hold` and `late` do not tell states apart by `told` (VIEW), nor `hold` by `overlapped`: no action reads them, and of the
properties of these runs only the types do; liveness runs use neither.

Fairness (`expiry`, `ends`, `outbox`). A request a service has accepted is carried out (weak fairness
of its steps: event loop and database make progress). `setInterval` keeps calling the sweeper's and
the worker's tick. A statement blocked on a row lock is queued for it in Postgres and cannot be
overtaken for ever, hence strong fairness for exactly the steps that wait for one (`LazyFlip`, `Insert`,
`CancelWrite`, `SweepUpdate`). The deadlock detector runs (weak fairness of `DeadlockVictim`): without it `RequestsEnd` is
violated, as it is when a refused transaction is left open. Nothing is assumed
of callers, timers, or failures other than that failures are finite.

Fairness (`settle`). seat-svc carries the listings of each caller out, an entry ages out of Redis, a
replica catches up (weak fairness). The page's interval keeps firing while it is open, and its answers may be lost, but not
all for ever (strong fairness: a poll waits for one of the `MaxReads` places, which is a bound of the
model and not of the code). Nor is anything assumed of cookies: that the page is recognised for good is the hypothesis of
the second half of `PagesSettle`. Publishes, invalidations, snapshots and the stream itself get no
fairness: all of them may fail for ever. The fairness of `Poll` is an assumption on the stream: `onopen` and `onerror` each
restart the interval (`SeatsPage.tsx:67-68`), so a stream that breaks more often than every three
seconds, for ever, would keep it from firing.

## 4. What is proved

With TLAPS, for all values of the constants that satisfy the named assumptions of the modules (`None`
is not an id, `HoldTtl` positive, `UnknownSeat` unknown, ...):

| Module | Theorem | States |
| --- | --- | --- |
| `BookingProofs` | `TypeCorrect` | `TypeOK` |
| | `LocksSound` | `FlippedAreStale` |
| | `Exclusive` | `SeatExclusive` |
| | `OnePerKey` | `KeyUnique` |
| | `NoRehold`, `NoneExpiredEarly`, `NoneDisplaced` | the action properties `NeverReheld`, `NoEarlyExpiry`, `NeverDisplaced` |
| `LedgerProofs` | `ImplementsTheLedger` | the refinement `ImplementsLedger` |
| `RequestProofs` | `AnsweredOwn` | `AnswersOwn` |
| | `AnnouncedOnce` | `ExpiredOnce` |
| `DecisionProofs` | `PaymentSettles`, `OneOutcomeReported`, `ConfirmationsStay` | `PaidIffConfirmed`, `OneOutcome`, `ConfirmedStays`: of every reservation about which its user's requests never overlapped |
| `OutboxProofs` | `OutboxTyped`, `NeverProcessedUnhandled`, `NeverDeadEarly` | `TypeOK`, `ProcessedWasHandled`, `DeadWasTried` |
| `SeatProofs` | `ServedFresh`, `NoneMissed`, `StreamTypes` | `FreshAfterDelete`, `NoGap`, `TypeOK` |
| `SessionProofs` | `SessionTypes`, `OneLive`, `AccessEnds` | `TypeOK`, `OneLivePerSession`, `AccessNeedsSession` |
| `OverlapProofs` | `OverlapSignsOut` | `OnlyOverlapSignsOut` |

The argument for bookings. `Typing` strengthens `TypeOK` by the shape of a request at each `pc` (past the seat
lookup its seat exists, after an insert it names a row); it is inductive. `LockInv` adds
`FlippedAreStale` and `NowPast` (a request's `now` is not in the future): it is needed because
`CommitFlips` writes rows it chose several steps earlier, and only the lock explains why they are
still lapsed holds when it does. `NextTable` then says that, under `LockInv`, every step changes
`rows` in one of six ways (`TableStep`): nothing, lapsed holds expire, an insertion that met no
conflict, a cancel, a confirmation that met no conflict, a failure. Each table property is an
induction over those six cases instead of over some thirty actions.

The refinement. `RealInv` adds that a reservation that is given out has a seat and a user
of the tables, and that whatever a request is about to write exists. Each of the six cases of `TableStep` is then a
step of the ledger or a stutter: flips are `Expire`, an insertion is `Take` with the lapsed holds that end
with it, a confirmation is `Sell`, a cancel or a failed payment is `Vacate`, or nothing when the row was
active no longer. `SeatExclusive` makes `placeOf` well defined: it has one reservation to choose.

The argument for answers and announcements. `Own` says that a request that holds a reservation id past its checks
holds one of its caller's; a row's user never changes once it is there, and absent rows are nobody's
(`Vacant`), so no later step can make it false. `Once` says of each reservation that there is at most
one announcement of its expiry, made or owed by one timer or one sweep, and none while it is on hold:
a flip (`FlipStep`) creates the only debt, a publish (`AnnounceStep`) pays it, a crash forgets it, and
since no row comes back on hold there is no second flip.

The argument for the outbox and the stream. An event is PROCESSED only by a worker whose delivery
returned, and the worker's `pc` records that; attempts never fall, and what a worker's fetch and its claim
have counted is a lower bound of what the row says when it gives the event back. For the stream, `NoGap` is strengthened by the shape of the queues of frames; the key step is that connecting asks for the snapshot and
registers the listener in one turn of the event loop.

The argument for the cache. `FreshAfterDelete` speaks of the key only and is not inductive: a request about to store may
hold an older listing, and a replica that is behind may still give one out. `ServesFrom(n)` says of all three places a listing is
served from (the key, the results about to be stored, the read pool) that they are at change n or past it. It holds
when the DEL of n meets nothing older to come, and is kept, since a result about to be stored was there before or is what the
read pool has now (`NextAwaits`), the read pool only moves on, and the key only receives such results (`NextServes`).

The argument for sessions. `SessionInv` adds to the types and to the two properties what calls and
jars carry about: tokens that were issued to the same user, and versions no higher than the user's
(`CallFine`, `JarFine`). `NextTokens` says that a step changes the tables in one of three ways: a live
token is replaced, a session begins, or tokens of one user are revoked and the user's version rises.
The third can take a session's live token, and then every access token of that user is behind
(`BackedStep`); all that is carried stays fine under all three (`CallKept`, `JarKept`).

The argument for decisions. `DecisionInv` adds four facts to `OwnInv`. `Noted`: two requests of one user about one reservation that are
under way now are in the history. `PayersOwn`: who is about to write a payment owns the reservation. `Deciding`: whoever is
about to release, confirm or fail a reservation that is not in the history has it undecided (`HELD` or `EXPIRED`). It is inductive
because every one who could decide acts for the owner, and of those `Noted` leaves one (`OneDecider`);
timers, sweeps and lazy flips can only turn `HELD` into `EXPIRED`. `Settled`: the properties, and nothing is reported of what
nobody has decided. `StepKinds` reduces the steps to a release, a confirmation, a failure, a payment
alone, and what touches no decision. Nothing is assumed of clients; of reservations in the history the three properties are false
(`v_cancelled`, `v_reconfirm`).

The argument for overlaps. As long as no answer has been lost, `Undisturbed` says of each user without parallel
calls: a browser has one call (`OneCall`) and none that is being refused; a call that presents a refresh token presents
the one in the jar (`CookieCurrent`); the token a browser keeps (in its jar, or in the answer on its way) is live; and
no two browsers keep the same one (`KeptApart`), so a rotation by one never spends what another
keeps. It needs `SessionInv` for the tokens' users and sessions, and all five parts at once: each is
preserved only because the others hold.

The argument for the types of cache and stream. `StreamTyped` says what `TypeOK` needs: past listings name only reservations
that were given out, so every deadline a page can be shown exists (`ViewTyped`); a request at `answer` has a caller; and
a request for a snapshot has an open stream, because what ends a stream abandons it (`AbandonedFit`).
The types do not say that at most `MaxReads` requests are in flight: that is a bound of the model, kept by
the guard of `BeginRead`, and counting a bag is a recursion over its elements.

Every invariant and every action property that a passing run checks is thereby proved. Only model-checked are the
liveness properties (`RequestsEnd`, `QueueDrains`, `HealthyDelivered`, `StaleHoldsFreed`, `PagesSettle`), which need
fairness and ENABLED and are outside the prover's reach, and the counterexamples of section 6.

## 5. Abstractions

- One clock for all processes and Postgres. The 250 ms buffer of the timers exists for skew and is
  not modelled; a timer fires at any instant from its deadline on.
- The sweep's UPDATE takes all its locks in one step, when all are free, though Postgres would lock row by row here too. It is a
  transaction of its own: it could be part of a deadlock with lazy expiries, whose victim fails, which is `SweepFail`
  or `Abort`; `RequestsEnd` is checked without sweepers. The lazy expiry locks row by row, in any order (the plan's order is not the code's).
- Sweeper ticks of one instance do not overlap (ten seconds apart); the pool gives the next tick the
  session that kept the lock. A pool of two could give another one, whose tick is skipped, until the
  pool's idle timeout closes the session and frees the lock.
- Amounts, labels, payloads, metrics, validation errors (400) and reads without effect are left out.
- Sessions: registration, wrong passwords, the expiry of a refresh token (90 days, `REFRESH_TOKEN_TTL_DAYS`), which
  refuses as well, and `/me` (a read) are left out; the gateway's read pool is the primary (`DATABASE_READ_URL` is optional).
- In `Booking`, `told` counts calls of `publishSeatChange`; what becomes of the two requests each call makes is in
  `SeatCache` and `SeatStream`, where a change is a step of the ledger instead of the statements behind it.
- Several seats changed by one sweep are one change there, with one event; the code publishes one per row. The
  refreshes after the page's own actions (lines 117, 145, 162, 178) are `Poll`, which may happen at any time. Labels, prices and heartbeats are left out.
- One gateway process, as `sse.ts:7-10` has it: with several, an event reaches only the listeners of one.

## 6. Where the code and its documentation disagree

- `v_cancelled`: DELETE updates by id after a separate read (`reservations.ts:179`), so it cancels a
  reservation that a payment has confirmed in between, contrary to lines 174-175. One tab is enough: the answer to
  the payment is lost, or the page reloaded, and its user cancels while payment-svc still confirms.
- `v_reconfirm`: two confirms that both read HELD both write; `payments.ts:98` calls the second a no-op.
  As above, a second `payAll` after a lost answer is enough.
- `v_dead`: a late give-back (`outboxWorker.ts:76`) returns a DEAD event to PENDING, contrary to lines 73-74.
- `v_refresh`: `SeatsPage.tsx:102` and `133` send requests in parallel, and each one's 401 refreshes
  with the same token (`api.ts:79`). One rotates; the others lose the compare-and-set or count as
  reuse, and their answers clear the cookies: with an expired access token, holding two seats at once
  signs the user out. `api.ts:73` calls the refresh transparent. `OnlyOverlapSignsOut` shows that
  it takes parallel calls of one browser (or a lost answer, which `DECISIONS.md:149` accepts).

Seen while modelling, not checked by a run:

- confirm updates by id after its check (`payments.ts:131`), so a hold that an expirer has flipped in between is
  paid into a confirmation, contrary to `DECISIONS.md:116-118`: the same cause as `v_reconfirm` (the partial index
  still prevents double booking: `late`, `Exclusive`);
- an intent that read HELD sets the payment back to PENDING after a concurrent confirm has made it SUCCEEDED
  (`payments.ts:46-57`): one of the overlaps that `overlapped` records;
- the hold limit is exceeded by concurrent holds, as its comment admits;
- a retry that looks its key up before the first attempt commits can be refused with `reservation_limit`
  (`reservations.ts:58-59` promises the first answer);
- `scheduleExistingHolds` (`expiryScheduler.ts:69`) is never called although its comment has it run on boot;
- the lazy expiry publishes nothing although `events.ts:10` promises it after every mutation;
- a listing that was queried before a change may be stored after that change's invalidation, so a read after it
  still gets the old list for up to ten seconds, although `seatCache.ts:50-51` says that the next read "repopulates from
  the database instead of serving a stale list". `FreshAfterDelete` shows that this and a replica that lags behind are
  the only ways it happens, and `settle` that the page gets over it;
- a mounted page whose access cookie has expired or was revoked is listed as nobody (`gateway/src/app.ts:29-56`,
  `seats.ts:71-73`: a 200), so it shows the user's own seats as somebody else's until another call of the page
  happens to get the 401 that refreshes the session; and its stream, once refused with a 401, does not come back, although
  `SeatsPage.tsx:52` has it that "EventSource auto-reconnects";
- a page that is loaded after the access token has expired shows the login page although the session is alive,
  because `/me` is never refreshed (`api.ts:77`);
- a burn misses the replacement that a concurrent rotation of another session inserts, so not "all of the user's
  sessions are burned" (`README.md:176`);
- a logout whose token is rotated first leaves the replacement alive, although "a stolen copy of the token dies
  too" (`DECISIONS.md:150-151`).

## 7. Plan and what is not modelled

Done: the shared tables with holds, expiry and payments, and the ledger of seats they implement; the
outbox queue; the seat cache, stream and page; sessions and the browsers that use them; the proofs of
section 4.

What could come next: the sweep's UPDATE row by row, like the lazy expiry's; a replica beside the primary in `FreshAfterDelete`, so
that its two gaps are told apart; the outbox's delivery and `SeatCache`'s `Commit` in one module, so that the delay of a payment's
event is that of the queue; a replica behind the gateway's check of `tokenVersion`; theorems about the ledger itself, which
`ImplementsTheLedger` then carries over to the services.

Not modelled, and why:

- registration (`auth.ts:85-100`): one lookup and one insert; its only race is two registrations of one
  e-mail, the loser of which gets a 500 instead of `email_taken` (`auth.ts:89`);
- the connection of the Redis client (`seatCache.ts:15-28`): the first call waits for it, and for how long is up to
  the library's reconnect strategy;
- a bound on concurrent holds beyond the limit: the code promises none (`reservations.ts:83-85`);
- a stream that flaps for ever faster than the poll (see fairness above);
- routing, headers, rate limits, health checks and views: no state of their own, or a library's counter;
- nginx, compose, seed and the end-to-end tests: configuration, one-off data, and readers of the same
  promises.
