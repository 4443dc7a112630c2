----------------------------- MODULE SeatStream -----------------------------
(***************************************************************************)
(* The seats page of the web client (SeatsPage.tsx) and the gateway's SSE  *)
(* stream (sse.ts) over the cached listing: one page per user.  A page     *)
(* refreshes when it opens, on every seat_change event, when a countdown   *)
(* ends and at every poll; what a refresh or a snapshot brings replaces    *)
(* what is shown, in the order of arrival.  page[u] is                     *)
(*   closed, left   before and after the page is mounted                   *)
(*   down, up       mounted, without and with a stream from the gateway    *)
(***************************************************************************)
EXTENDS SeatCache

VARIABLES
  page,
  frames,  \* frames[u]: events sent on the stream and not yet handled
  shown,   \* shown[u]: the seats on the page
  knew     \* knew[u]: changes the gateway had been told of when the page last asked

vars == <<cacheVars, page, frames, shown, knew>>
pageVars == <<page, frames, shown, knew>>
RestOfCache == UNCHANGED <<ledgerVars, past, replayed, cache, deleted, raced>>

Nothing == [s \in {} |-> None]  \* no list has arrived: seats is []
Change == [type |-> "seat_change", seats |-> Nothing]
Snapshot(view) == [type |-> "snapshot", seats |-> view]

Views == [Seat -> SeatView] \cup {Nothing}
Frame == [type : {"seat_change", "snapshot"}, seats : Views]

PageState == {"closed", "down", "up", "left"}

TypeOK ==
  /\ CacheTypeOK
  /\ page \in [User -> PageState]
  /\ frames \in [User -> Seq(Frame)]
  /\ \A u \in User : page[u] # "up" => frames[u] = <<>>
  /\ shown \in [User -> Views]
  /\ knew \in [User -> SUBSET told]

Init ==
  /\ CacheInit
  /\ page = [u \in User |-> "closed"]
  /\ frames = [u \in User |-> <<>>]
  /\ shown = [u \in User |-> Nothing]
  /\ knew = [u \in User |-> {}]

-----------------------------------------------------------------------------
(* SeatsPage.tsx *)

Mounted(u) == page[u] \in {"down", "up"}

\* A listing request of u, by the page or by the gateway for its snapshot, which
\* attachUser takes for one of v: of u by a valid access cookie, of nobody by one that
\* has lapsed or been revoked, of somebody else after a sign-in in another tab.  A
\* refresh may bring u back before any request, but a listing never answers the 401
\* that would make the page itself ask for one.
Ask(u, sse) ==
  /\ \E v \in User \cup {None} : (sse => v # None) /\ BeginRead(u, v, sse)
  /\ knew' = [knew EXCEPT ![u] = IF page'[u] = "up" THEN told ELSE {}]
  /\ RestOfCache
  /\ UNCHANGED <<shown, told>>

Open(u) ==
  /\ page[u] = "closed"
  /\ page' = [page EXCEPT ![u] = "down"]
  /\ Ask(u, FALSE)
  /\ UNCHANGED frames

\* The interval: every 3 s without a stream, every 30 s with one.
Poll(u) ==
  /\ Mounted(u)
  /\ UNCHANGED <<page, frames>>
  /\ Ask(u, FALSE)

\* The countdown of the earliest hold on the page has reached 0.
CountdownEnds(u) ==
  /\ \E s \in DOMAIN shown[u] : shown[u][s].until \in 1 .. clock
  /\ Poll(u)

Received(u, type) ==
  /\ frames[u] # <<>> /\ Head(frames[u]).type = type
  /\ frames' = [frames EXCEPT ![u] = Tail(@)]

SeatChange(u) ==
  /\ Received(u, "seat_change")
  /\ UNCHANGED page
  /\ Ask(u, FALSE)

ShowSnapshot(u) ==
  /\ Received(u, "snapshot")
  /\ shown' = [shown EXCEPT ![u] = Head(frames[u]).seats]
  /\ UNCHANGED <<cacheVars, page, knew>>

\* The answer to a refresh.
Show(r) ==
  /\ r.pc = "answer" /\ ~r.sse
  /\ shown' = [shown EXCEPT ![r.user] = r.seats]
  /\ EndRead(r)
  /\ RestOfCache
  /\ UNCHANGED <<page, frames, knew, told>>

\* The request fails or its answer is lost: ignored by page and gateway.
Unanswered(r) ==
  /\ r.pc = "answer"
  /\ EndRead(r)
  /\ RestOfCache
  /\ UNCHANGED <<pageVars, told>>

\* A connection is gone: seat-svc carries its requests out for nobody.
Abandon(R) ==
  LET bereft(r) == IF r \in R THEN [r EXCEPT !.user = None, !.viewer = None,
                                                     !.sse = FALSE, !.now = 0] ELSE r
      waiting == [r \in InFlight \ {a \in R : a.pc = "answer"} |-> reads[r]]
  IN reads' = BagOfAll(bereft, waiting)

\* Mutant: what is on its way is handled after the stream has ended.
EndStreamLate(u, state) ==
  /\ page' = [page EXCEPT ![u] = state]
  /\ knew' = [knew EXCEPT ![u] = {}]
  /\ RestOfCache
  /\ UNCHANGED <<frames, told>>

\* The stream ends with what was on its way.
EndStream(u, state) ==
  /\ page' = [page EXCEPT ![u] = state]
  /\ frames' = [frames EXCEPT ![u] = <<>>]
  /\ knew' = [knew EXCEPT ![u] = {}]
  /\ RestOfCache
  /\ UNCHANGED told

\* The effect's cleanup: the stream and the interval are stopped.
Leave(u) ==
  /\ Mounted(u)
  /\ EndStream(u, "left")
  /\ shown' = [shown EXCEPT ![u] = Nothing]
  /\ Abandon({r \in InFlight : r.user = u})

-----------------------------------------------------------------------------
(* sse.ts *)

\* The snapshot is requested and the listener registered in one turn.  Who is not
\* recognised is refused, and an EventSource that is refused gives up: its page stays
\* down, as a page may anyway.
Connect(u) ==
  /\ page[u] = "down"
  /\ page' = [page EXCEPT ![u] = "up"]
  /\ Ask(u, TRUE)
  /\ UNCHANGED frames

SendSnapshot(r) ==
  /\ r.pc = "answer" /\ r.sse
  /\ frames' = [frames EXCEPT ![r.user] = Append(@, Snapshot(r.seats))]
  /\ EndRead(r)
  /\ RestOfCache
  /\ UNCHANGED <<page, shown, knew, told>>

\* Mutant: the listener is registered when the snapshot has been sent.
IngestAfterSnapshot(n) ==
  /\ n \in Published \ told
  /\ told' = told \cup {n}
  /\ frames' = [u \in User |->
       IF page[u] = "up" /\ ~ \E r \in InFlight : r.sse /\ r.user = u
         THEN Append(frames[u], Change) ELSE frames[u]]
  /\ RestOfCache
  /\ UNCHANGED <<page, shown, knew, reads>>

\* POST /internal/events: every listener of this process.
Ingest(n) ==
  /\ n \in Published \ told
  /\ told' = told \cup {n}
  /\ frames' = [u \in User |-> IF page[u] = "up" THEN Append(frames[u], Change)
                                                 ELSE frames[u]]
  /\ RestOfCache
  /\ UNCHANGED <<page, shown, knew, reads>>

\* The connection breaks; EventSource will connect again.
Disconnect(u) ==
  /\ page[u] = "up"
  /\ EndStream(u, "down")
  /\ UNCHANGED shown
  /\ Abandon({r \in InFlight : r.user = u /\ r.sse})

-----------------------------------------------------------------------------
PageStep(u) ==
  \/ Open(u) \/ Poll(u) \/ CountdownEnds(u) \/ SeatChange(u) \/ ShowSnapshot(u)
  \/ Connect(u) \/ Disconnect(u) \/ Leave(u)

Next ==
  \/ CacheStep /\ UNCHANGED pageVars
  \/ \E u \in User : PageStep(u)
  \/ \E r \in InFlight : Show(r) \/ SendSnapshot(r) \/ Unanswered(r)
  \/ \E n \in Published : Ingest(n)

Spec == Init /\ [][Next]_vars

Of(u) == {r \in InFlight : r.user = u}

(***************************************************************************)
(* seat-svc carries a caller's listings out, entries age out of Redis, the *)
(* replica catches up, and the page's interval keeps firing: its fetch     *)
(* never waits for one of the MaxReads places, hence strong fairness.  So  *)
(* with the answers: each may be lost, but not all for ever.  Nothing is   *)
(* assumed of publishes, invalidations, snapshots and the stream, which    *)
(* may fail for ever.                                                      *)
(***************************************************************************)
Fairness ==
  /\ WF_vars(CacheAges /\ UNCHANGED pageVars)
  /\ WF_vars(Replay /\ UNCHANGED pageVars)
  /\ \A u \in User \cup {None} : WF_vars((\E r \in Of(u) : ReadStep(r)) /\ UNCHANGED pageVars)
  /\ \A u \in User : SF_vars(Poll(u)) /\ SF_vars(\E r \in Of(u) : Show(r))

FairSpec == Spec /\ Fairness

-----------------------------------------------------------------------------
\* No change falls between the snapshot and the events of a stream: of every
\* change the gateway was told of, the page has asked for the seats since, or
\* it holds an event that makes it ask.
NoGap ==
  \A u \in User : page[u] = "up" =>
    told \subseteq knew[u] \/ \E i \in DOMAIN frames[u] : frames[u][i] = Change

Statuses(view) == [s \in DOMAIN view |-> view[s].status]

\* The requests of the page are taken for v.
RecognisedAs(u, v) == \A r \in Of(u) : r.pc # "answer" => r.viewer = v

\* Once nothing changes any more every mounted page comes to show the current status
\* of every seat, and keeps showing it, whatever was lost, stored late or overtaken,
\* and however often its cookie lapses.  Which seats are its own it shows for good
\* if it is recognised for good.
PagesSettle ==
  \A u \in User :
    /\ <>[](Mounted(u) => Statuses(shown[u]) = Statuses(View(Now, None, clock)))
    /\ <>[]RecognisedAs(u, u) => <>[](Mounted(u) => shown[u] = View(Now, u, clock))
=============================================================================
