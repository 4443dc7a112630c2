----------------------------- MODULE SeatCache ------------------------------
(***************************************************************************)
(* The seat listing of seat-svc (routes/seats.ts) over the ledger of seats:*)
(* a Redis key with a TTL in front of a read pool that may lag behind, and *)
(* the publishSeatChange that follows a commit: a DEL of the key and a     *)
(* POST to the gateway, neither waited for.  A listing is named by its     *)
(* number in past.  A request of the bag reads is suspended at the await   *)
(* its pc names: lookup (the cache, then the read pool), store (the cache  *)
(* again), answer (the response is on its way).  A process that dies       *)
(* before it publishes, a DEL or a POST that fails are an Invalidate or an *)
(* Ingest that never comes: nothing makes them come.                       *)
(***************************************************************************)
EXTENDS SeatLedger, Sequences, Bags

CONSTANTS
  MaxReads,    \* listing requests in flight at one time (a bound)
  MaxChanges   \* commits that change a seat (a bound)

ASSUME CacheAssumption == MaxReads \in Nat /\ MaxChanges \in Nat

VARIABLES
  past,     \* past[n]: the seats after n - 1 changes; lazy: nothing was published
  replayed, \* how far the read pool has come in past
  cache,    \* the listing the key holds
  deleted,  \* changes whose DEL Redis has carried out
  raced,    \* history: those whose DEL came before some read of an older listing
  told,     \* changes the gateway has been told of
  reads     \* listing requests in flight

cacheVars == <<ledgerVars, past, replayed, cache, deleted, raced, told, reads>>

SeatView == [status : {"AVAILABLE", "HELD", "CONFIRMED"},
             reservation : Rid \cup {None}, until : 0 .. MaxClock + HoldTtl]

\* user: whose page waits for the answer; viewer: whom it is personalised for.
Request == [pc : {"lookup", "store"}, user : User \cup {None}, viewer : User \cup {None},
            sse : BOOLEAN, now : 0 .. MaxClock, list : Nat]
Response == [pc : {"answer"}, user : User, sse : BOOLEAN, seats : [Seat -> SeatView]]
NoEntry == 0

Changes == 2 .. Len(past)
Published == {n \in Changes : ~past[n].lazy}
Now == Len(past)  \* number of the current listing
InFlight == BagToSet(reads)

CacheTypeOK ==
  /\ LedgerTypeOK
  /\ past \in Seq([seats : [Seat -> Place], lazy : BOOLEAN])
  /\ Now \in 1 .. MaxChanges + 1 /\ past[Now].seats = place
  /\ replayed \in 1 .. Now
  /\ cache \in (1 .. Now) \cup {NoEntry}
  /\ raced \subseteq deleted /\ deleted \subseteq Published /\ told \subseteq Published
  /\ InFlight \subseteq Request \cup Response
  /\ \A r \in InFlight \cap Request : r.list <= Now /\ (r.list = 0 <=> r.pc = "lookup")

\* Listings begin on seats that are free or on hold.
CacheInit ==
  /\ clock = 0
  /\ ticket \in UNION {[R -> [seat : Seat, user : User, until : 0 .. HoldTtl]] :
                      R \in SUBSET Rid}
  /\ place \in [Seat -> [by : Rid \cup {None}, sold : {FALSE}]]
  /\ \A r \in Rid, s \in Seat : place[s].by = r <=> r \in DOMAIN ticket /\ ticket[r].seat = s
  /\ past = <<[seats |-> place, lazy |-> FALSE]>>
  /\ replayed = 1
  /\ cache = NoEntry
  /\ deleted = {} /\ raced = {} /\ told = {}
  /\ reads = EmptyBag

-----------------------------------------------------------------------------
(* A commit, and the invalidation that follows it. *)

Committed(lazy) == past' = Append(past, [seats |-> place', lazy |-> lazy])

\* A transaction changes the seats and publishSeatChange is called.
Commit ==
  /\ Now <= MaxChanges
  /\ SeatsChange
  /\ Committed(FALSE)
  /\ UNCHANGED <<replayed, cache, deleted, raced, told, reads>>

\* The lazy expiry of POST /reservations, whose INSERT then finds no free seat.
CommitLazily ==
  /\ Now <= MaxChanges
  /\ \E S \in SUBSET Lapsed : Expire(S)
  /\ Committed(TRUE)
  /\ UNCHANGED <<replayed, cache, deleted, raced, told, reads>>

\* A listing older than change n is still to come from the read pool, or has been
\* read and is about to be stored.
OlderToCome(n) == replayed < n \/ \E r \in InFlight : r.pc = "store" /\ r.list < n

Delete(n) ==
  /\ n \in Published \ deleted
  /\ deleted' = deleted \cup {n}
  /\ raced' = raced \cup {x \in {n} : OlderToCome(n)}
  /\ UNCHANGED <<ledgerVars, past, replayed, told, reads>>

\* Mutant: the DEL names another key than the one that is read.
InvalidateOther(n) == Delete(n) /\ UNCHANGED cache

\* The DEL reaches Redis: in any order, before or after the POST.
Invalidate(n) == Delete(n) /\ cache' = NoEntry

\* Mutant: SET in place of SETEX.
NeverAges == cache # NoEntry /\ UNCHANGED cacheVars

\* TTL_S seconds have passed since the SETEX.
CacheAges ==
  /\ cache # NoEntry
  /\ cache' = NoEntry
  /\ UNCHANGED <<ledgerVars, past, replayed, deleted, raced, told, reads>>

\* The replica of DATABASE_READ_URL applies a commit; without one, at once.
Replay ==
  /\ replayed < Now
  /\ replayed' = replayed + 1
  /\ UNCHANGED <<ledgerVars, past, cache, deleted, raced, told, reads>>

ClockTick == Pass /\ UNCHANGED <<past, replayed, cache, deleted, raced, told, reads>>

-----------------------------------------------------------------------------
(* GET /api/seats *)

\* "now" is taken before the first await.
BeginRead(u, v, sse) ==
  /\ BagCardinality(reads) < MaxReads
  /\ reads' = reads (+) SetToBag({[pc |-> "lookup", user |-> u, viewer |-> v, sse |-> sse,
                                   now |-> clock, list |-> 0]})

EndRead(r) == reads' = reads (-) SetToBag({r})
ReadOn(r, q) == reads' = (reads (-) SetToBag({r})) (+) SetToBag({q})

\* What u, or an anonymous caller (None), is shown of listing n: a hold past its
\* deadline is no hold, and only its owner learns of the reservation.
View(n, u, now) ==
  [s \in Seat |->
     LET p == past[n].seats[s]
         active == p.by # None /\ (p.sold \/ ticket[p.by].until > now)
         mine == active /\ ticket[p.by].user = u
     IN [status |-> IF ~active THEN "AVAILABLE" ELSE IF p.sold THEN "CONFIRMED" ELSE "HELD",
         reservation |-> IF mine THEN p.by ELSE None,
         until |-> IF mine /\ ~p.sold THEN ticket[p.by].until ELSE 0]]

\* The response, to nobody when the caller is gone.
Answer(r, n) ==
  IF r.user = None THEN EndRead(r)
  ELSE ReadOn(r, [pc |-> "answer", user |-> r.user, sse |-> r.sse,
                  seats |-> View(n, r.viewer, r.now)])

\* A hit, or a miss; without REDIS_URL and after any error always a miss, so one
\* await stands for the lookup and for readPool.query after it.
Lookup(r) ==
  /\ r.pc = "lookup"
  /\ \/ cache # NoEntry /\ Answer(r, cache)
     \/ ReadOn(r, [r EXCEPT !.pc = "store", !.list = replayed])
  /\ UNCHANGED <<ledgerVars, past, replayed, cache, deleted, raced, told>>

\* setCachedSeats, whatever has been invalidated since the query; best effort.
Store(r) ==
  /\ r.pc = "store"
  /\ cache' \in {cache, r.list}
  /\ Answer(r, r.list)
  /\ UNCHANGED <<ledgerVars, past, replayed, deleted, raced, told>>

ReadStep(r) == Lookup(r) \/ Store(r)

CacheStep ==
  \/ Commit \/ CommitLazily \/ ClockTick \/ CacheAges \/ Replay
  \/ \E n \in Published : Invalidate(n)
  \/ \E r \in InFlight : ReadStep(r)

-----------------------------------------------------------------------------
\* After the DEL of a change no older listing is served, however publishes and
\* listings overlap, unless an older one was read just before it or a lagging
\* replica had not applied the change yet: those two gaps are the only ones.
FreshAfterDelete == \A n \in deleted \ raced : cache # NoEntry => cache >= n
=============================================================================
