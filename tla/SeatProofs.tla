----------------------------- MODULE SeatProofs -----------------------------
(***************************************************************************)
(* The cached listing and the streams of the seats pages, for any number   *)
(* of users, listing requests, changes and reconnections.                  *)
(***************************************************************************)
EXTENDS SeatStream, TLAPS

Listing == [seats : [Seat -> Place], lazy : BOOLEAN]

PastInv == place \in [Seat -> Place] /\ past \in Seq(Listing) /\ Len(past) >= 1

LEMMA LedgerKeepsPlaces ==
  ASSUME place \in [Seat -> Place], SeatsChange
  PROVE  place' \in [Seat -> Place]
<1>0. Free \in Place /\ \A r \in Rid, b \in BOOLEAN : [by |-> r, sold |-> b] \in Place
  BY DEF Place, Free
<1>1. \A S : Emptied(S) \in [Seat -> Place]
  BY <1>0 DEF Emptied
<1>2. ASSUME NEW r \in Rid, NEW s \in Seat, NEW u \in User, NEW t, Take(r, s, u, t)
      PROVE  place' \in [Seat -> Place]
  <2>1. PICK S \in SUBSET Lapsed : place' = [Emptied(S) EXCEPT ![s] = [by |-> r, sold |-> FALSE]]
    BY <1>2 DEF Take
  <2> QED BY <1>0, <1>1, <2>1
<1>3. ASSUME NEW r \in Rid, Sell(r) PROVE place' \in [Seat -> Place]
  BY <1>0, <1>3 DEF Sell
<1>4. ASSUME NEW S, Expire(S) PROVE place' \in [Seat -> Place]
  BY <1>1, <1>4 DEF Expire
<1>5. ASSUME NEW s, Vacate(s) PROVE place' \in [Seat -> Place]
  BY <1>1, <1>5 DEF Vacate
<1> QED BY <1>2, <1>3, <1>4, <1>5 DEF SeatsChange, Unused

\* A commit is a change of the ledger, lazy or not.
LEMMA CommitChanges == Commit \/ CommitLazily => SeatsChange
BY DEF Commit, CommitLazily, SeatsChange, Lapsed

\* A commit appends one listing; nothing else touches the past.
LEMMA CommitAppends ==
  ASSUME PastInv, Commit \/ CommitLazily
  PROVE  /\ PastInv' /\ Len(past') = Len(past) + 1
         /\ UNCHANGED <<replayed, cache, deleted, raced, told, reads>>
<1>1. UNCHANGED <<replayed, cache, deleted, raced, told, reads>>
  BY DEF Commit, CommitLazily
<1>2. place' \in [Seat -> Place]
  BY CommitChanges, LedgerKeepsPlaces DEF PastInv
<1>3. PICK b \in BOOLEAN : past' = Append(past, [seats |-> place', lazy |-> b])
  BY DEF Commit, CommitLazily, Committed
<1>4. [seats |-> place', lazy |-> b] \in Listing
  BY <1>2 DEF Listing
<1>5. past' \in Seq(Listing) /\ Len(past') = Len(past) + 1
  BY <1>3, <1>4 DEF PastInv
<1> QED BY <1>1, <1>2, <1>5 DEF PastInv

LEMMA InitPast == Init => PastInv /\ deleted = {} /\ cache = NoEntry
<1> SUFFICES ASSUME Init PROVE PastInv /\ deleted = {} /\ cache = NoEntry
  OBVIOUS
<1>1. place \in [Seat -> Place]
  BY DEF Init, CacheInit, Place
<1>2. [seats |-> place, lazy |-> FALSE] \in Listing
  BY <1>1 DEF Listing
<1>3. past \in Seq(Listing) /\ Len(past) >= 1
  BY <1>2 DEF Init, CacheInit
<1> QED BY <1>1, <1>3 DEF PastInv, Init, CacheInit

-----------------------------------------------------------------------------
(***************************************************************************)
(* The streams.  Handling a frame from the front keeps the others; only    *)
(* handling a seat_change makes the page ask, and then it asks with all    *)
(* that the gateway has been told of.                                      *)
(***************************************************************************)
IsQueue(f) == \E F : f \in Seq(F)
Holds(f) == \E i \in DOMAIN f : f[i] = Change
Covered(u) == told \subseteq knew[u] \/ Holds(frames[u])

StreamInv ==
  /\ \A u \in User : IsQueue(frames[u])
  /\ DOMAIN frames = User /\ DOMAIN knew = User /\ DOMAIN page = User
  /\ NoGap

LEMMA AppendQueue ==
  ASSUME NEW f, IsQueue(f), NEW x
  PROVE  /\ IsQueue(Append(f, x)) /\ (Holds(f) \/ x = Change => Holds(Append(f, x)))
<1>1. PICK F : f \in Seq(F)
  BY DEF IsQueue
<1>2. f \in Seq(F \cup {x}) /\ x \in F \cup {x}
  BY <1>1
<1>3. Append(f, x) \in Seq(F \cup {x})
  BY <1>2
<1>4. /\ \A i \in DOMAIN f : i \in DOMAIN Append(f, x) /\ Append(f, x)[i] = f[i]
      /\ Len(f) + 1 \in DOMAIN Append(f, x) /\ Append(f, x)[Len(f) + 1] = x
  BY <1>1, <1>2
<1> QED BY <1>3, <1>4 DEF IsQueue, Holds

LEMMA TailQueue ==
  ASSUME NEW f, IsQueue(f), f # << >>
  PROVE  IsQueue(Tail(f)) /\ (Holds(f) /\ Head(f) # Change => Holds(Tail(f)))
<1>1. PICK F : f \in Seq(F)
  BY DEF IsQueue
<1>2. Tail(f) \in Seq(F)
  BY <1>1
<1>3. ASSUME NEW i \in DOMAIN f, f[i] = Change, Head(f) # Change
      PROVE  i - 1 \in DOMAIN Tail(f) /\ Tail(f)[i - 1] = Change
  BY <1>1, <1>3
<1> QED BY <1>2, <1>3 DEF IsQueue, Holds

\* A step that leaves the streams and what was asked on them alone.
LEMMA StreamsKept ==
  ASSUME StreamInv, UNCHANGED <<told, page, frames, knew>>
  PROVE  StreamInv'
BY DEF StreamInv, NoGap, IsQueue

\* A page that asks is covered if it has a stream, whatever it did with a frame.
LEMMA AskCovers ==
  ASSUME StreamInv, NEW u \in User, NEW sse, Ask(u, sse), DOMAIN page' = User,
         \A x \in User \ {u} : page'[x] = page[x] /\ frames'[x] = frames[x],
         DOMAIN frames' = User, IsQueue(frames'[u])
  PROVE  StreamInv'
<1>1. /\ told' = told /\ DOMAIN knew' = User
      /\ page'[u] = "up" => knew'[u] = told
      /\ \A x \in User \ {u} : knew'[x] = knew[x]
  BY DEF Ask, StreamInv
<1>2. \A x \in User : IsQueue(frames'[x])
  BY DEF StreamInv
<1>3. NoGap'
  <2> SUFFICES ASSUME NEW x \in User, page'[x] = "up"
               PROVE  told' \subseteq knew'[x] \/ \E i \in DOMAIN frames'[x] : frames'[x][i] = Change
    BY DEF NoGap, Change, Nothing
  <2>1. CASE x = u
    BY <1>1, <2>1
  <2>2. CASE x # u
    <3>1. page[x] = "up" /\ frames'[x] = frames[x] /\ knew'[x] = knew[x]
      BY <1>1, <2>2
    <3> QED BY <1>1, <3>1 DEF StreamInv, NoGap
  <2> QED BY <2>1, <2>2
<1> QED BY <1>1, <1>2, <1>3 DEF StreamInv, IsQueue

\* A stream that grows, or loses a frame that is not a change, stays covered.
LEMMA FramesCover ==
  ASSUME StreamInv, NEW u \in User, UNCHANGED <<told, page, knew>>, DOMAIN frames' = User,
         \A x \in User \ {u} : frames'[x] = frames[x],
         IsQueue(frames'[u]), Holds(frames[u]) => Holds(frames'[u])
  PROVE  StreamInv'
<1>1. \A x \in User : IsQueue(frames'[x]) /\ (Holds(frames[x]) => Holds(frames'[x]))
  BY DEF StreamInv
<1>2. NoGap'
  <2> SUFFICES ASSUME NEW x \in User, page[x] = "up"
               PROVE  told \subseteq knew[x] \/ Holds(frames'[x])
    BY DEF NoGap, Holds, Change, Nothing
  <2> QED BY <1>1 DEF StreamInv, NoGap, Holds
<1> QED BY <1>1, <1>2 DEF StreamInv, IsQueue

LEMMA PageCovers ==
  ASSUME StreamInv, NEW u \in User, PageStep(u)
  PROVE  StreamInv'
<1>0. /\ DOMAIN page = User /\ DOMAIN frames = User
      /\ \A st : DOMAIN [page EXCEPT ![u] = st] = User /\ DOMAIN [frames EXCEPT ![u] = st] = User
      /\ IsQueue(frames[u])
  BY DEF StreamInv
<1>1. CASE Open(u) \/ Connect(u)
  BY <1>0, <1>1, AskCovers DEF Open, Connect
<1>2. CASE Poll(u) \/ CountdownEnds(u)
  BY <1>0, <1>2, AskCovers DEF Poll, CountdownEnds
<1>3. CASE SeatChange(u)
  <2>1. frames' = [frames EXCEPT ![u] = Tail(@)] /\ frames[u] # << >> /\ page' = page /\ Ask(u, FALSE)
    BY <1>3 DEF SeatChange, Received
  <2>2. IsQueue(frames'[u])
    BY <1>0, <2>1, TailQueue
  <2> QED BY <1>0, <2>1, <2>2, AskCovers
<1>4. CASE ShowSnapshot(u)
  <2>1. /\ frames' = [frames EXCEPT ![u] = Tail(@)] /\ frames[u] # << >>
        /\ Head(frames[u]).type = "snapshot" /\ UNCHANGED <<told, page, knew>>
    BY <1>4 DEF ShowSnapshot, Received, cacheVars
  <2>2. Head(frames[u]) # Change
    BY <2>1 DEF Change
  <2>3. IsQueue(frames'[u]) /\ (Holds(frames[u]) => Holds(frames'[u]))
    BY <1>0, <2>1, <2>2, TailQueue
  <2> QED BY <1>0, <2>1, <2>3, FramesCover
<1>5. CASE Disconnect(u) \/ Leave(u)
  <2>1. PICK st \in {"down", "left"} : EndStream(u, st)
    BY <1>5 DEF Disconnect, Leave
  <2>2. /\ page' = [page EXCEPT ![u] = st] /\ frames' = [frames EXCEPT ![u] = << >>]
        /\ knew' = [knew EXCEPT ![u] = {}] /\ told' = told
    BY <2>1 DEF EndStream
  <2>3. /\ page'[u] # "up" /\ frames'[u] = << >>
        /\ \A x \in User \ {u} : page'[x] = page[x] /\ frames'[x] = frames[x] /\ knew'[x] = knew[x]
        /\ DOMAIN page' = User /\ DOMAIN frames' = User /\ DOMAIN knew' = User
    BY <1>0, <2>2 DEF StreamInv
  <2>4. IsQueue(<< >>)
    BY << >> \in Seq({}) DEF IsQueue
  <2>5. \A x \in User : IsQueue(frames'[x])
    BY <2>3, <2>4 DEF StreamInv
  <2>6. NoGap'
    BY <2>2, <2>3 DEF StreamInv, NoGap, Change, Nothing
  <2> QED BY <2>3, <2>5, <2>6 DEF StreamInv, IsQueue
<1> QED BY <1>1, <1>2, <1>3, <1>4, <1>5 DEF PageStep

\* The listener of every stream that is up hears of a change.
LEMMA IngestCovers ==
  ASSUME StreamInv, NEW n, Ingest(n)
  PROVE  StreamInv'
<1>1. /\ frames' = [u \in User |-> IF page[u] = "up" THEN Append(frames[u], Change) ELSE frames[u]]
      /\ UNCHANGED <<page, knew>>
  BY DEF Ingest
<1>2. \A u \in User : IsQueue(frames[u])
  BY DEF StreamInv
<1>3. \A u \in User : IsQueue(frames'[u]) /\ (page[u] = "up" => Holds(frames'[u]))
  BY <1>1, <1>2, AppendQueue
<1>4. NoGap'
  BY <1>1, <1>3 DEF NoGap, Holds, Change, Nothing
<1>5. DOMAIN frames' = User
  BY <1>1
<1> QED BY <1>1, <1>3, <1>4, <1>5 DEF StreamInv, IsQueue

LEMMA NextStream == StreamInv /\ [Next]_vars => StreamInv'
<1> SUFFICES ASSUME StreamInv, [Next]_vars PROVE StreamInv'
  OBVIOUS
<1>1. CASE CacheStep /\ UNCHANGED pageVars
  <2>1. told' = told
    BY <1>1
    DEF CacheStep, Commit, CommitLazily, ClockTick, CacheAges, Replay, Invalidate, Delete, ReadStep, Lookup, Store
  <2> QED BY <1>1, <2>1, StreamsKept DEF pageVars
<1>2. ASSUME NEW r, Show(r) \/ Unanswered(r) PROVE StreamInv'
  BY <1>2, StreamsKept DEF Show, Unanswered, pageVars
<1>3. ASSUME NEW r, SendSnapshot(r) PROVE StreamInv'
  <2> DEFINE x == Snapshot(r.seats)
  <2>1. frames' = [frames EXCEPT ![r.user] = Append(@, x)] /\ UNCHANGED <<told, page, knew>>
    BY <1>3 DEF SendSnapshot
  <2> HIDE DEF x
  <2>2. CASE r.user \in User
    <3>1. IsQueue(frames'[r.user]) /\ (Holds(frames[r.user]) => Holds(frames'[r.user]))
      BY <2>1, <2>2, AppendQueue DEF StreamInv
    <3>2. DOMAIN frames' = User /\ \A u \in User \ {r.user} : frames'[u] = frames[u]
      BY <2>1 DEF StreamInv
    <3> QED BY <2>1, <2>2, <3>1, <3>2, FramesCover
  <2>3. CASE r.user \notin User
    <3>1. \A u \in User : frames'[u] = frames[u]
      BY <2>1, <2>3 DEF StreamInv
    <3>2. DOMAIN frames' = User
      BY <2>1 DEF StreamInv
    <3> QED BY <2>1, <3>1, <3>2 DEF StreamInv, NoGap, IsQueue
  <2> QED BY <2>2, <2>3
<1>4. CASE UNCHANGED vars
  BY <1>4, StreamsKept DEF vars, cacheVars
<1> QED
  BY <1>1, <1>2, <1>3, <1>4, PageCovers, IngestCovers DEF Next

LEMMA InitStream == Init => StreamInv
<1>1. IsQueue(<< >>)
  BY << >> \in Seq({}) DEF IsQueue
<1> QED BY <1>1 DEF Init, StreamInv, NoGap

(* However pages connect, lose their stream, connect again and refresh, and  *)
(* whenever the gateway hears of changes, none is missed between a page's    *)
(* requests and the events of its stream.                                    *)
THEOREM NoneMissed == Spec => []NoGap
<1>1. StreamInv => NoGap
  BY DEF StreamInv
<1> QED BY <1>1, InitStream, NextStream, PTL DEF Spec
-----------------------------------------------------------------------------
(***************************************************************************)
(* The types.  What a listing is made of must be known for what a page     *)
(* shows to be well typed: past listings name only reservations given out, *)
(* an answer on its way has a caller, a snapshot a stream to go to.        *)
(***************************************************************************)
Given == \A n \in 1 .. Now, s \in Seat : past[n].seats[s].by \in DOMAIN ticket \cup {None}

SeatsTyped ==
  /\ LedgerTypeOK
  /\ past \in Seq(Listing)
  /\ Now \in 1 .. MaxChanges + 1 /\ past[Now].seats = place
  /\ replayed \in 1 .. Now
  /\ Given

KeyTyped ==
  /\ cache \in (1 .. Now) \cup {NoEntry}
  /\ raced \subseteq deleted /\ deleted \subseteq Published /\ told \subseteq Published

Fit(r) ==
  /\ r \in Request \cup Response
  /\ r \in Request => r.list <= Now /\ (r.list = 0 <=> r.pc = "lookup")
  /\ r.sse => r.user \in User /\ page[r.user] = "up"

ReadsTyped == \A r \in InFlight : Fit(r)

PagesTyped ==
  /\ page \in [User -> PageState]
  /\ frames \in [User -> Seq(Frame)]
  /\ \A u \in User : page[u] # "up" => frames[u] = <<>>
  /\ shown \in [User -> Views]
  /\ knew \in [User -> SUBSET told]

StreamTyped == SeatsTyped /\ KeyTyped /\ ReadsTyped /\ PagesTyped

LEMMA TypedParts == StreamTyped => TypeOK
<1> SUFFICES ASSUME StreamTyped PROVE TypeOK
  OBVIOUS
<1>1. /\ InFlight \subseteq Request \cup Response
      /\ \A r \in InFlight \cap Request : r.list <= Now /\ (r.list = 0 <=> r.pc = "lookup")
  BY DEF StreamTyped, ReadsTyped, Fit
<1>2. CacheTypeOK
  BY <1>1 DEF StreamTyped, SeatsTyped, KeyTyped, CacheTypeOK, Listing
<1> QED BY <1>2 DEF StreamTyped, PagesTyped, TypeOK

\* A change of the seats gives out at most one reservation, and forgets none.
LEMMA LedgerTyped ==
  ASSUME LedgerTypeOK, \A s \in Seat : place[s].by \in DOMAIN ticket \cup {None}, SeatsChange
  PROVE  /\ LedgerTypeOK' /\ DOMAIN ticket \subseteq DOMAIN ticket'
         /\ \A s \in Seat : place'[s].by \in DOMAIN ticket' \cup {None}
<1>0. /\ place \in [Seat -> Place] /\ HoldTtl \in Nat \ {0} /\ MaxClock \in Nat /\ clock \in 0 .. MaxClock
      /\ \A S : /\ Emptied(S) \in [Seat -> Place]
                /\ \A s \in Seat : Emptied(S)[s].by \in DOMAIN ticket \cup {None}
  BY LedgerAssumption DEF LedgerTypeOK, Emptied, Free, Place
<1>1. PICK R \in SUBSET Rid : ticket \in [R -> Ticket]
  BY DEF LedgerTypeOK
<1>2. place' \in [Seat -> Place]
  BY <1>0, LedgerKeepsPlaces
<1>3. ASSUME NEW r \in Unused, NEW s \in Seat, NEW u \in User,
             NEW t \in HoldTtl .. clock + HoldTtl, Take(r, s, u, t)
      PROVE  /\ LedgerTypeOK' /\ DOMAIN ticket \subseteq DOMAIN ticket'
             /\ \A x \in Seat : place'[x].by \in DOMAIN ticket' \cup {None}
  <2>1. [seat |-> s, user |-> u, until |-> t] \in Ticket
    BY <1>0 DEF Ticket
  <2>2. ticket' \in [R \cup {r} -> Ticket] /\ DOMAIN ticket' = R \cup {r} /\ R \cup {r} \in SUBSET Rid
    BY <1>1, <1>3, <2>1 DEF Take, Unused
  <2>3. PICK S \in SUBSET Lapsed : place' = [Emptied(S) EXCEPT ![s] = [by |-> r, sold |-> FALSE]]
    BY <1>3 DEF Take
  <2>4. \A x \in Seat : place'[x].by \in R \cup {r, None}
    BY <1>0, <1>1, <2>3
  <2>5. clock' = clock
    BY <1>3 DEF Take
  <2> QED BY <1>1, <1>2, <2>2, <2>4, <2>5, <1>0 DEF LedgerTypeOK
<1>4. ASSUME NEW S, Expire(S)
      PROVE  /\ UNCHANGED <<clock, ticket>>
             /\ \A x \in Seat : place'[x].by \in DOMAIN ticket \cup {None}
  BY <1>0, <1>4 DEF Expire
<1>5. ASSUME NEW r, Sell(r)
      PROVE  /\ UNCHANGED <<clock, ticket>>
             /\ \A x \in Seat : place'[x].by \in DOMAIN ticket \cup {None}
  BY <1>0, <1>5 DEF Sell
<1>6. ASSUME NEW s, Vacate(s)
      PROVE  /\ UNCHANGED <<clock, ticket>>
             /\ \A x \in Seat : place'[x].by \in DOMAIN ticket \cup {None}
  BY <1>0, <1>6 DEF Vacate
<1>7. CASE /\ UNCHANGED <<clock, ticket>>
           /\ \A x \in Seat : place'[x].by \in DOMAIN ticket \cup {None}
  BY <1>2, <1>7 DEF LedgerTypeOK
<1> QED BY <1>3, <1>4, <1>5, <1>6, <1>7 DEF SeatsChange

\* A commit: the listings there were stay as they are, and stay listings.
LEMMA CommitTyped ==
  ASSUME StreamTyped, Commit \/ CommitLazily, UNCHANGED pageVars
  PROVE  StreamTyped'
<1>0. /\ Len(past) \in Nat /\ MaxChanges \in Nat /\ Now = Len(past) /\ PastInv
      /\ Now <= MaxChanges
  <2>1. Now <= MaxChanges
    BY DEF Commit, CommitLazily
  <2>2. /\ place \in [Seat -> Place] /\ past \in Seq(Listing) /\ Now \in 1 .. MaxChanges + 1
        /\ MaxChanges \in Nat
    BY CacheAssumption DEF StreamTyped, SeatsTyped, LedgerTypeOK
  <2>3. Len(past) \in Nat /\ Now = Len(past)
    BY <2>2 DEF Now
  <2> QED BY <2>1, <2>2, <2>3 DEF PastInv
<1>1. /\ PastInv' /\ Now' = Now + 1
      /\ UNCHANGED <<replayed, cache, deleted, raced, told, reads>>
  BY <1>0, CommitAppends DEF Now
<1>2. /\ LedgerTypeOK' /\ DOMAIN ticket \subseteq DOMAIN ticket'
      /\ \A s \in Seat : place'[s].by \in DOMAIN ticket' \cup {None}
  <2>1. \A s \in Seat : place[s].by \in DOMAIN ticket \cup {None}
    BY <1>0 DEF StreamTyped, SeatsTyped, Given
  <2> QED BY <2>1, CommitChanges, LedgerTyped DEF StreamTyped, SeatsTyped
<1>3. /\ \A n \in 1 .. Now : past'[n] = past[n]
      /\ past'[Now + 1].seats = place'
  <2>1. PICK b \in BOOLEAN : past' = Append(past, [seats |-> place', lazy |-> b])
    BY DEF Commit, CommitLazily, Committed
  <2> QED BY <1>0, <2>1 DEF PastInv
<1>4. SeatsTyped'
  <2>1. \A n \in 1 .. Now + 1, s \in Seat : past'[n].seats[s].by \in DOMAIN ticket' \cup {None}
    <3> SUFFICES ASSUME NEW n \in 1 .. Now + 1, NEW s \in Seat
                 PROVE  past'[n].seats[s].by \in DOMAIN ticket' \cup {None}
      OBVIOUS
    <3>1. CASE n = Now + 1
      BY <1>2, <1>3, <3>1
    <3>2. CASE n # Now + 1
      <4>1. n \in 1 .. Now
        BY <1>0, <3>2
      <4> QED BY <1>2, <1>3, <4>1 DEF StreamTyped, SeatsTyped, Given
    <3> QED BY <3>1, <3>2
  <2>2. Given'
    BY <1>1, <2>1 DEF Given
  <2>3. replayed' \in 1 .. Now' /\ Now' \in 1 .. MaxChanges + 1
    BY <1>0, <1>1 DEF StreamTyped, SeatsTyped
  <2> QED BY <1>1, <1>2, <1>3, <2>2, <2>3 DEF SeatsTyped, PastInv
<1>5. KeyTyped'
  <2>1. Published \subseteq Published'
    BY <1>0, <1>1, <1>3 DEF Published, Changes, Now
  <2>2. cache \in (1 .. Now') \cup {NoEntry}
    BY <1>0, <1>1 DEF StreamTyped, KeyTyped
  <2> QED BY <1>1, <2>1, <2>2 DEF StreamTyped, KeyTyped, NoEntry
<1>6. ReadsTyped'
  <2>1. page' = page /\ InFlight' = InFlight
    BY <1>1 DEF pageVars, InFlight
  <2>2. ASSUME NEW r \in InFlight PROVE Fit(r)'
    <3>1. Fit(r) /\ Now' = Now + 1 /\ Now \in Nat
      BY <1>0, <1>1 DEF StreamTyped, ReadsTyped
    <3>2. r \in Request => r.list \in Nat
      BY DEF Request
    <3>3. r \in Request => r.list <= Now'
      BY <3>1, <3>2 DEF Fit
    <3> QED BY <2>1, <3>1, <3>3 DEF Fit
  <2> QED BY <2>1, <2>2 DEF ReadsTyped
<1>7. PagesTyped'
  BY <1>1 DEF pageVars, StreamTyped, PagesTyped
<1> QED BY <1>4, <1>5, <1>6, <1>7 DEF StreamTyped

-----------------------------------------------------------------------------
\* What the other steps leave alone, in one part each.
LEMMA SeatsStay ==
  ASSUME SeatsTyped, UNCHANGED <<ticket, place, past>>, clock' \in 0 .. MaxClock, replayed' \in 1 .. Now
  PROVE  SeatsTyped'
<1>1. LedgerTypeOK'
  BY DEF SeatsTyped, LedgerTypeOK
<1>2. Now' = Now
  BY DEF Now
<1> QED BY <1>1, <1>2 DEF SeatsTyped, Given

LEMMA KeyStays ==
  ASSUME SeatsTyped, KeyTyped, UNCHANGED past, deleted' \subseteq Published, told' \subseteq Published,
         raced' \subseteq deleted', cache' \in {cache, NoEntry} \cup 1 .. Now
  PROVE  KeyTyped'
<1>1. Now' = Now /\ Published' = Published /\ Now \in Nat \ {0}
  BY DEF Now, Published, Changes, SeatsTyped
<1>2. cache' \in (1 .. Now) \cup {NoEntry}
  BY <1>1 DEF KeyTyped, NoEntry
<1> QED BY <1>1, <1>2 DEF KeyTyped

\* A step keeps the requests fit when the new ones are and no stream ends.
LEMMA ReadsStay ==
  ASSUME ReadsTyped, UNCHANGED past,
         \A u \in User : page[u] = "up" => page'[u] = "up",
         \A r \in InFlight' : r \in InFlight \/ Fit(r)'
  PROVE  ReadsTyped'
<1>1. Now' = Now
  BY DEF Now
<1> SUFFICES ASSUME NEW r \in InFlight' PROVE Fit(r)'
  BY DEF ReadsTyped
<1>2. CASE r \in InFlight
  BY <1>1, <1>2 DEF ReadsTyped, Fit
<1> QED BY <1>2

LEMMA PagesStay ==
  ASSUME PagesTyped, UNCHANGED pageVars, told \subseteq told'
  PROVE  PagesTyped'
BY DEF PagesTyped, pageVars

-----------------------------------------------------------------------------
\* Whatever listing is shown, the deadlines on it are those of reservations
\* that were given out.
LEMMA ViewTyped ==
  ASSUME SeatsTyped, NEW n \in 1 .. Now, NEW u, NEW now
  PROVE  View(n, u, now) \in [Seat -> SeatView]
<1>0. MaxClock \in Nat /\ HoldTtl \in Nat
  BY LedgerAssumption
<1>1. \A r \in DOMAIN ticket : r \in Rid /\ ticket[r] \in Ticket
  BY DEF SeatsTyped, LedgerTypeOK
<1>2. n \in 1 .. Len(past) /\ past[n] \in Listing
  BY DEF SeatsTyped, Now
<1> DEFINE p(s) == past[n].seats[s]
           active(s) == p(s).by # None /\ (p(s).sold \/ ticket[p(s).by].until > now)
           mine(s) == active(s) /\ ticket[p(s).by].user = u
           entry(s) == [status |-> IF ~active(s) THEN "AVAILABLE"
                                   ELSE IF p(s).sold THEN "CONFIRMED" ELSE "HELD",
                        reservation |-> IF mine(s) THEN p(s).by ELSE None,
                        until |-> IF mine(s) /\ ~p(s).sold THEN ticket[p(s).by].until ELSE 0]
<1>3. ASSUME NEW s \in Seat PROVE entry(s) \in SeatView
  <2>1. p(s).by \in DOMAIN ticket \cup {None}
    BY DEF SeatsTyped, Given
  <2>2. active(s) => /\ p(s).by \in Rid
                     /\ ticket[p(s).by].until \in 0 .. MaxClock + HoldTtl
    BY <1>1, <2>1 DEF Ticket
  <2>3. 0 \in 0 .. MaxClock + HoldTtl
    BY <1>0
  <2> QED BY <2>2, <2>3 DEF SeatView
<1>4. View(n, u, now) = [s \in Seat |-> entry(s)]
  BY DEF View
<1> HIDE DEF entry
<1> QED BY <1>3, <1>4

-----------------------------------------------------------------------------
(* The requests: which are in flight after each operation of the bag. *)

LEMMA EndedRead == ASSUME NEW r, EndRead(r) PROVE InFlight' \subseteq InFlight
BY DEF EndRead, InFlight, BagToSet, (-)

LEMMA ReadsOn == ASSUME NEW r, NEW q, ReadOn(r, q) PROVE InFlight' \subseteq InFlight \cup {q}
BY DEF ReadOn, InFlight, BagToSet, SetToBag, (-), (+)

LEMMA BegunRead ==
  ASSUME NEW u, NEW v, NEW sse, BeginRead(u, v, sse)
  PROVE  InFlight' = InFlight \cup {[pc |-> "lookup", user |-> u, viewer |-> v, sse |-> sse,
                                      now |-> clock, list |-> 0]}
BY DEF BeginRead, InFlight, BagToSet, SetToBag, (+)

Bereft(r) == [r EXCEPT !.user = None, !.viewer = None, !.sse = FALSE, !.now = 0]

LEMMA AbandonedReads ==
  ASSUME NEW R, Abandon(R)
  PROVE  \A q \in InFlight' :
           \/ q \in InFlight \ R
           \/ \E r \in R \cap InFlight :
                r.pc # "answer" /\ q = Bereft(r)
<1> SUFFICES ASSUME NEW q \in InFlight'
             PROVE  \/ q \in InFlight \ R
                    \/ \E r \in R \cap InFlight :
                         r.pc # "answer" /\ q = Bereft(r)
  OBVIOUS
<1>1. PICK r \in InFlight \ {a \in R : a.pc = "answer"} :
        q = IF r \in R THEN Bereft(r) ELSE r
  BY DEF Bereft, Abandon, InFlight, BagToSet, BagOfAll
<1> QED BY <1>1

\* The step that follows the database or the cache, with a listing n.
LEMMA AnsweredFit ==
  ASSUME StreamTyped, UNCHANGED <<past, page>>, NEW r \in InFlight, r.pc # "answer", NEW n \in 1 .. Now,
         Answer(r, n) \/ ReadOn(r, [r EXCEPT !.pc = "store", !.list = n])
  PROVE  ReadsTyped'
<1>0. /\ Now' = Now /\ Now \in Nat /\ r \in Request /\ None \notin User
      /\ r.sse => r.user \in User /\ page[r.user] = "up"
  BY LedgerAssumption DEF Now, StreamTyped, SeatsTyped, ReadsTyped, Fit, Response
<1>1. CASE EndRead(r)
  BY <1>1, EndedRead, ReadsStay DEF StreamTyped
<1>2. CASE ReadOn(r, [r EXCEPT !.pc = "store", !.list = n])
  <2> DEFINE q == [r EXCEPT !.pc = "store", !.list = n]
  <2>1. /\ q \in Request /\ q.pc = "store" /\ q.list = n /\ q.user = r.user /\ q.sse = r.sse
    <3>1. n \in Nat /\ "store" \in {"lookup", "store"}
      BY <1>0
    <3> QED BY <1>0, <3>1 DEF Request
  <2>2. Fit(q)'
    BY <1>0, <2>1 DEF Fit
  <2>3. InFlight' \subseteq InFlight \cup {q}
    BY <1>2, ReadsOn
  <2> QED BY <2>2, <2>3, ReadsStay DEF StreamTyped
<1>3. CASE Answer(r, n) /\ r.user # None
  <2>1. PICK view \in [Seat -> SeatView] : view = View(n, r.viewer, r.now)
    BY ViewTyped DEF StreamTyped
  <2> DEFINE q == [pc |-> "answer", user |-> r.user, sse |-> r.sse, seats |-> view]
  <2>2. q \in Response /\ q.pc = "answer" /\ q.user = r.user /\ q.sse = r.sse
    BY <1>0, <1>3 DEF Request, Response
  <2>3. q \notin Request
    BY <2>2 DEF Request
  <2>4. Fit(q)'
    BY <1>0, <2>2, <2>3 DEF Fit
  <2>5. InFlight' \subseteq InFlight \cup {q}
    BY <1>3, <2>1, ReadsOn DEF Answer
  <2> QED BY <2>4, <2>5, ReadsStay DEF StreamTyped
<1> QED BY <1>1, <1>2, <1>3 DEF Answer

\* A page, or the gateway for the stream of a page, asks.
LEMMA AskedFit ==
  ASSUME StreamTyped, NEW u \in User, NEW v \in User \cup {None}, NEW sse \in BOOLEAN,
         BeginRead(u, v, sse), UNCHANGED past, sse => page'[u] = "up", \A x \in User : page[x] = "up" => page'[x] = "up"
  PROVE  ReadsTyped'
<1>1. Now' = Now /\ Now \in Nat /\ clock \in 0 .. MaxClock
  BY DEF Now, StreamTyped, SeatsTyped, LedgerTypeOK
<1>0. PICK now \in 0 .. MaxClock : now = clock
  BY <1>1
<1> DEFINE q == [pc |-> "lookup", user |-> u, viewer |-> v, sse |-> sse, now |-> now, list |-> 0]
<1>2. q \in Request
  BY <1>1 DEF Request
<1>3. Fit(q)'
  BY <1>1, <1>2 DEF Fit
<1>4. InFlight' \subseteq InFlight \cup {q}
  BY <1>0, BegunRead
<1> QED BY <1>3, <1>4, ReadsStay DEF StreamTyped

\* A connection is gone, and with it every request that needed it.
LEMMA AbandonedFit ==
  ASSUME StreamTyped, NEW u, NEW R, Abandon(R), UNCHANGED past,
         \A r \in InFlight \ R : ~ (r.sse /\ r.user = u),
         \A x \in User \ {u} : page'[x] = page[x]
  PROVE  ReadsTyped'
<1>0. /\ Now' = Now /\ 0 \in 0 .. MaxClock
  BY LedgerAssumption DEF Now
<1> SUFFICES ASSUME NEW q \in InFlight' PROVE Fit(q)'
  BY DEF ReadsTyped
<1>1. CASE q \in InFlight \ R
  BY <1>0, <1>1 DEF StreamTyped, ReadsTyped, Fit
<1>2. ASSUME NEW r \in R \cap InFlight, r.pc # "answer",
             q = Bereft(r)
      PROVE  Fit(q)'
  <2>1. r \in Request /\ r.list <= Now /\ (r.list = 0 <=> r.pc = "lookup")
    BY <1>2 DEF StreamTyped, ReadsTyped, Fit, Response
  <2>2. /\ q \in Request /\ q.pc = r.pc /\ q.list = r.list /\ q.sse = FALSE
    BY <1>0, <1>2, <2>1 DEF Bereft, Request
  <2>3. r.pc # "answer"
    BY <1>2
  <2> QED BY <1>0, <2>1, <2>2, <2>3 DEF Fit
<1>3. \/ q \in InFlight \ R
      \/ \E r \in R \cap InFlight :
           r.pc # "answer" /\ q = Bereft(r)
  BY AbandonedReads
<1> QED BY <1>1, <1>2, <1>3

-----------------------------------------------------------------------------
\* A page that asks, and what a page does with the frame it has received.
LEMMA AskTyped ==
  ASSUME StreamTyped, NEW u \in User, NEW sse \in BOOLEAN, Ask(u, sse),
         page' \in [User -> PageState],
         \A x \in User : page[x] = "up" => page'[x] = "up",
         sse => page'[u] = "up",
         frames' \in [User -> Seq(Frame)],
         \A x \in User : page'[x] # "up" => frames'[x] = <<>>
  PROVE  StreamTyped'
<1>1. /\ UNCHANGED <<clock, ticket, place, past, replayed, cache, deleted, raced, told, shown>>
      /\ \E v \in User \cup {None} : BeginRead(u, v, sse)
      /\ \E K \in SUBSET told : knew' = [knew EXCEPT ![u] = K]
  BY DEF Ask, RestOfCache, ledgerVars
<1>2. SeatsTyped'
  BY <1>1, SeatsStay DEF StreamTyped, SeatsTyped, LedgerTypeOK
<1>3. KeyTyped'
  BY <1>1, KeyStays DEF StreamTyped, KeyTyped
<1>4. ReadsTyped'
  BY <1>1, AskedFit
<1>5. knew' \in [User -> SUBSET told']
  BY <1>1 DEF StreamTyped, PagesTyped
<1>6. PagesTyped'
  BY <1>1, <1>5 DEF StreamTyped, PagesTyped
<1> QED BY <1>2, <1>3, <1>4, <1>6 DEF StreamTyped

\* A stream that ends, with the page or without it.
LEMMA EndTyped ==
  ASSUME StreamTyped, NEW u \in User, NEW st \in {"down", "left"}, EndStream(u, st),
         NEW R, Abandon(R), \A r \in InFlight \ R : ~ (r.sse /\ r.user = u),
         shown' \in [User -> Views]
  PROVE  StreamTyped'
<1>1. /\ UNCHANGED <<clock, ticket, place, past, replayed, cache, deleted, raced, told>>
      /\ page' = [page EXCEPT ![u] = st] /\ frames' = [frames EXCEPT ![u] = <<>>]
      /\ knew' = [knew EXCEPT ![u] = {}]
  BY DEF EndStream, RestOfCache, ledgerVars
<1>2. SeatsTyped'
  BY <1>1, SeatsStay DEF StreamTyped, SeatsTyped, LedgerTypeOK
<1>3. KeyTyped'
  BY <1>1, KeyStays DEF StreamTyped, KeyTyped
<1>4. ReadsTyped'
  <2>1. \A x \in User \ {u} : page'[x] = page[x]
    BY <1>1 DEF StreamTyped, PagesTyped
  <2> QED BY <1>1, <2>1, AbandonedFit
<1>5. PagesTyped'
  <2>1. page' \in [User -> PageState] /\ frames' \in [User -> Seq(Frame)]
    BY <1>1 DEF StreamTyped, PagesTyped, PageState
  <2>2. knew' \in [User -> SUBSET told']
    BY <1>1 DEF StreamTyped, PagesTyped
  <2>3. \A x \in User : page'[x] # "up" => frames'[x] = <<>>
    BY <1>1 DEF StreamTyped, PagesTyped
  <2> QED BY <2>1, <2>2, <2>3 DEF PagesTyped
<1> QED BY <1>2, <1>3, <1>4, <1>5 DEF StreamTyped

LEMMA PageTyped ==
  ASSUME StreamTyped, NEW u \in User, PageStep(u)
  PROVE  StreamTyped'
<1>0. /\ page \in [User -> PageState]
      /\ frames \in [User -> Seq(Frame)] /\ frames[u] \in Seq(Frame)
      /\ \A x \in User : page[x] # "up" => frames[x] = <<>>
      /\ shown \in [User -> Views]
  BY DEF StreamTyped, PagesTyped
<1>1. CASE Open(u)
  BY <1>0, <1>1, AskTyped DEF Open, PageState
<1>2. CASE Poll(u) \/ CountdownEnds(u)
  BY <1>0, <1>2, AskTyped DEF Poll, CountdownEnds
<1>3. CASE Connect(u)
  <2>1. page' = [page EXCEPT ![u] = "up"] /\ frames' = frames /\ Ask(u, TRUE)
    BY <1>3 DEF Connect
  <2> QED BY <1>0, <2>1, AskTyped DEF PageState
<1>4. ASSUME NEW type, Received(u, type)
      PROVE  /\ frames' \in [User -> Seq(Frame)] /\ Head(frames[u]) \in Frame
             /\ \A x \in User : page[x] # "up" => frames'[x] = <<>>
  <2>1. frames[u] # <<>> /\ frames' = [frames EXCEPT ![u] = Tail(@)]
    BY <1>4 DEF Received
  <2>2. Tail(frames[u]) \in Seq(Frame) /\ Head(frames[u]) \in Frame /\ page[u] = "up"
    BY <1>0, <2>1
  <2> QED BY <1>0, <2>1, <2>2
<1>5. CASE SeatChange(u)
  <2>1. Received(u, "seat_change") /\ page' = page /\ Ask(u, FALSE)
    BY <1>5 DEF SeatChange
  <2> QED BY <1>0, <1>4, <2>1, AskTyped
<1>6. CASE ShowSnapshot(u)
  <2>1. /\ Received(u, "snapshot") /\ shown' = [shown EXCEPT ![u] = Head(frames[u]).seats]
        /\ UNCHANGED <<clock, ticket, place, past, replayed, cache, deleted, raced, told, reads, page, knew>>
    BY <1>6 DEF ShowSnapshot, cacheVars, ledgerVars
  <2>2. Head(frames[u]).seats \in Views
    BY <1>4, <2>1 DEF Frame
  <2>3. SeatsTyped'
    BY <2>1, SeatsStay DEF StreamTyped, SeatsTyped, LedgerTypeOK
  <2>4. KeyTyped'
    BY <2>1, KeyStays DEF StreamTyped, KeyTyped
  <2>5. ReadsTyped'
    BY <2>1, ReadsStay DEF StreamTyped, InFlight
  <2>6. PagesTyped'
    BY <1>0, <1>4, <2>1, <2>2 DEF StreamTyped, PagesTyped
  <2> QED BY <2>3, <2>4, <2>5, <2>6 DEF StreamTyped
<1>7. CASE Disconnect(u)
  BY <1>0, <1>7, EndTyped DEF Disconnect
<1>8. CASE Leave(u)
  <2>1. shown' = [shown EXCEPT ![u] = Nothing] /\ Nothing \in Views
    BY <1>8 DEF Leave, Views
  <2> QED BY <1>0, <1>8, <2>1, EndTyped DEF Leave
<1> QED BY <1>1, <1>2, <1>3, <1>5, <1>6, <1>7, <1>8 DEF PageStep

\* An answer arrives, at a page or at the gateway, or does not.
LEMMA ArrivalTyped ==
  ASSUME StreamTyped, NEW r \in InFlight, Show(r) \/ SendSnapshot(r) \/ Unanswered(r)
  PROVE  StreamTyped'
<1>1. /\ UNCHANGED <<clock, ticket, place, past, replayed, cache, deleted, raced, told, page, knew>>
      /\ EndRead(r) /\ r.pc = "answer"
  BY DEF Show, SendSnapshot, Unanswered, RestOfCache, ledgerVars, pageVars
<1>2. /\ r.user \in User /\ r.seats \in Views
      /\ r.sse => page[r.user] = "up"
  BY <1>1 DEF StreamTyped, ReadsTyped, Fit, Request, Response, Views
<1>3. SeatsTyped'
  BY <1>1, SeatsStay DEF StreamTyped, SeatsTyped, LedgerTypeOK
<1>4. KeyTyped'
  BY <1>1, KeyStays DEF StreamTyped, KeyTyped
<1>5. ReadsTyped'
  BY <1>1, EndedRead, ReadsStay DEF StreamTyped
<1>6. PICK v \in Views : v = r.seats
  BY <1>2
<1>7. PagesTyped'
  <2>1. CASE Show(r)
    <3>1. shown' = [shown EXCEPT ![r.user] = v] /\ frames' = frames
      BY <1>6, <2>1 DEF Show
    <3> QED BY <1>1, <3>1 DEF StreamTyped, PagesTyped
  <2>2. CASE SendSnapshot(r)
    <3>1. /\ frames' = [frames EXCEPT ![r.user] = Append(@, Snapshot(v))] /\ shown' = shown
          /\ page[r.user] = "up"
      BY <1>2, <1>6, <2>2 DEF SendSnapshot
    <3>2. Snapshot(v) \in Frame /\ frames[r.user] \in Seq(Frame)
      BY <1>2 DEF Snapshot, Frame, StreamTyped, PagesTyped
    <3>3. Append(frames[r.user], Snapshot(v)) \in Seq(Frame)
      BY <3>2
    <3>4. frames' \in [User -> Seq(Frame)]
      BY <3>1, <3>3 DEF StreamTyped, PagesTyped
    <3> QED BY <1>1, <3>1, <3>4 DEF StreamTyped, PagesTyped
  <2>3. CASE Unanswered(r)
    BY <1>1, <2>3, PagesStay DEF Unanswered, StreamTyped
  <2> QED BY <2>1, <2>2, <2>3
<1> QED BY <1>3, <1>4, <1>5, <1>7 DEF StreamTyped

LEMMA IngestTyped ==
  ASSUME StreamTyped, NEW n \in Published, Ingest(n)
  PROVE  StreamTyped'
<1>1. /\ UNCHANGED <<clock, ticket, place, past, replayed, cache, deleted, raced, page, shown, knew, reads>>
      /\ told' = told \cup {n}
      /\ frames' = [u \in User |-> IF page[u] = "up" THEN Append(frames[u], Change) ELSE frames[u]]
  BY DEF Ingest, RestOfCache, ledgerVars
<1>2. SeatsTyped'
  BY <1>1, SeatsStay DEF StreamTyped, SeatsTyped, LedgerTypeOK
<1>3. KeyTyped'
  BY <1>1, KeyStays DEF StreamTyped, KeyTyped
<1>4. ReadsTyped'
  BY <1>1, ReadsStay DEF StreamTyped, InFlight
<1>5. PagesTyped'
  <2>1. Change \in Frame
    BY DEF Change, Frame, Views
  <2>2. \A u \in User : frames[u] \in Seq(Frame) /\ Append(frames[u], Change) \in Seq(Frame)
    BY <2>1 DEF StreamTyped, PagesTyped
  <2>3. frames' \in [User -> Seq(Frame)]
    BY <1>1, <2>2
  <2> QED BY <1>1, <2>3 DEF StreamTyped, PagesTyped
<1> QED BY <1>2, <1>3, <1>4, <1>5 DEF StreamTyped

\* The cache, the replica, the clock, and the requests at the cache and the replica.
LEMMA QuietTyped ==
  ASSUME StreamTyped, UNCHANGED pageVars,
         \/ ClockTick \/ CacheAges \/ Replay
         \/ \E n \in Published : Invalidate(n)
         \/ \E r \in InFlight : ReadStep(r)
  PROVE  StreamTyped'
<1>0. /\ UNCHANGED <<ticket, place, past, told>>
      /\ page' = page /\ MaxClock \in Nat
  BY LedgerAssumption
  DEF ClockTick, Pass, CacheAges, Replay, Invalidate, Delete, ReadStep, Lookup, Store, ledgerVars, pageVars
<1>1. PagesTyped'
  BY <1>0, PagesStay DEF StreamTyped
<1>2. SeatsTyped'
  <2>1. clock \in 0 .. MaxClock /\ replayed \in 1 .. Now /\ Now \in Nat
    BY DEF StreamTyped, SeatsTyped, LedgerTypeOK
  <2>2. /\ clock' = clock \/ (clock < MaxClock /\ clock' = clock + 1)
        /\ replayed' = replayed \/ (replayed < Now /\ replayed' = replayed + 1)
    BY DEF ClockTick, Pass, CacheAges, Replay, Invalidate, Delete, ReadStep, Lookup, Store, ledgerVars
  <2>3. clock' \in 0 .. MaxClock /\ replayed' \in 1 .. Now
    BY <1>0, <2>1, <2>2
  <2> QED BY <1>0, <2>3, SeatsStay DEF StreamTyped
<1>3. CASE \/ ClockTick \/ CacheAges \/ Replay
           \/ \E n \in Published : Invalidate(n)
  <2>1. /\ cache' \in {cache, NoEntry} /\ deleted' \subseteq Published
        /\ raced' \subseteq deleted' /\ reads' = reads
    BY <1>3 DEF ClockTick, CacheAges, Replay, Invalidate, Delete, StreamTyped, KeyTyped
  <2>2. KeyTyped'
    BY <1>0, <2>1, KeyStays DEF StreamTyped, KeyTyped
  <2>3. ReadsTyped'
    BY <1>0, <2>1, ReadsStay DEF StreamTyped, InFlight
  <2> QED BY <1>1, <1>2, <2>2, <2>3 DEF StreamTyped
<1>4. ASSUME NEW r \in InFlight, Lookup(r) PROVE StreamTyped'
  <2>1. UNCHANGED <<cache, deleted, raced>> /\ r.pc # "answer"
    BY <1>4 DEF Lookup
  <2>2. KeyTyped'
    BY <1>0, <2>1, KeyStays DEF StreamTyped, KeyTyped
  <2>3. PICK n \in 1 .. Now : Answer(r, n) \/ ReadOn(r, [r EXCEPT !.pc = "store", !.list = n])
    BY <1>4 DEF Lookup, StreamTyped, KeyTyped, SeatsTyped
  <2>4. ReadsTyped'
    BY <1>0, <2>1, <2>3, AnsweredFit
  <2> QED BY <1>1, <1>2, <2>2, <2>4 DEF StreamTyped
<1>5. ASSUME NEW r \in InFlight, Store(r) PROVE StreamTyped'
  <2>1. r.list \in 1 .. Now /\ r.pc # "answer"
    BY <1>5 DEF Store, StreamTyped, ReadsTyped, Fit, Request, Response, SeatsTyped
  <2>2. /\ UNCHANGED <<deleted, raced>> /\ Answer(r, r.list)
        /\ cache' \in {cache, r.list}
    BY <1>5 DEF Store
  <2>3. KeyTyped'
    BY <1>0, <2>1, <2>2, KeyStays DEF StreamTyped, KeyTyped
  <2>4. ReadsTyped'
    BY <1>0, <2>1, <2>2, AnsweredFit
  <2> QED BY <1>1, <1>2, <2>3, <2>4 DEF StreamTyped
<1> QED BY <1>3, <1>4, <1>5 DEF ReadStep

LEMMA NextTyped == StreamTyped /\ [Next]_vars => StreamTyped'
<1> SUFFICES ASSUME StreamTyped, [Next]_vars PROVE StreamTyped'
  OBVIOUS
<1>1. CASE CacheStep /\ UNCHANGED pageVars
  BY <1>1, CommitTyped, QuietTyped DEF CacheStep
<1>2. CASE UNCHANGED vars
  <2>1. /\ UNCHANGED <<clock, ticket, place, past, replayed, cache, deleted, raced, told, reads>>
        /\ UNCHANGED <<page, frames, shown, knew>>
    BY <1>2 DEF vars, cacheVars, ledgerVars
  <2>2. SeatsTyped'
    BY <2>1, SeatsStay DEF StreamTyped, SeatsTyped, LedgerTypeOK
  <2>3. KeyTyped'
    BY <2>1, KeyStays DEF StreamTyped, KeyTyped
  <2>4. ReadsTyped'
    BY <2>1, ReadsStay DEF StreamTyped, InFlight
  <2>5. PagesTyped'
    BY <2>1, PagesStay DEF StreamTyped, pageVars
  <2> QED BY <2>2, <2>3, <2>4, <2>5 DEF StreamTyped
<1> QED BY <1>1, <1>2, PageTyped, ArrivalTyped, IngestTyped DEF Next

LEMMA InitTyped == Init => StreamTyped
<1> SUFFICES ASSUME Init PROVE StreamTyped
  OBVIOUS
<1>0. MaxClock \in Nat /\ HoldTtl \in Nat \ {0} /\ MaxChanges \in Nat
  BY LedgerAssumption, CacheAssumption
<1>1. place \in [Seat -> Place] /\ \A s \in Seat : place[s].by \in DOMAIN ticket \cup {None}
  <2>1. /\ place \in [Seat -> [by : Rid \cup {None}, sold : {FALSE}]]
        /\ \A r \in Rid, s \in Seat : place[s].by = r <=> r \in DOMAIN ticket /\ ticket[r].seat = s
    BY DEF Init, CacheInit
  <2>2. \A s \in Seat : place[s].by \in Rid \cup {None}
    BY <2>1
  <2>3. place \in [Seat -> Place]
    BY <2>1 DEF Place
  <2> QED BY <2>1, <2>2, <2>3
<1>2. PICK R \in SUBSET Rid : ticket \in [R -> [seat : Seat, user : User, until : 0 .. HoldTtl]]
  BY DEF Init, CacheInit
<1>3. ticket \in [R -> Ticket]
  BY <1>0, <1>2 DEF Ticket
<1>4. LedgerTypeOK
  BY <1>0, <1>1, <1>3 DEF LedgerTypeOK, Init, CacheInit
<1>5. past = <<[seats |-> place, lazy |-> FALSE]>> /\ past \in Seq(Listing) /\ Len(past) = 1
  BY <1>1 DEF Init, CacheInit, Listing
<1>6. SeatsTyped
  BY <1>0, <1>1, <1>4, <1>5 DEF SeatsTyped, Given, Now, Init, CacheInit
<1>7. KeyTyped
  BY DEF KeyTyped, NoEntry, Init, CacheInit
<1>8. InFlight = {}
  BY DEF Init, CacheInit, InFlight, BagToSet, EmptyBag, SetToBag
<1>9. PagesTyped
  BY DEF PagesTyped, PageState, Init, Views
<1> QED BY <1>6, <1>7, <1>8, <1>9 DEF StreamTyped, ReadsTyped

(* Cache, requests, streams and pages are well typed in every state: a page   *)
(* only shows listings there have been, a frame only waits on a stream that   *)
(* is up, and nothing is invalidated or told that was not published.          *)
THEOREM StreamTypes == Spec => []TypeOK
BY InitTyped, NextTyped, TypedParts, PTL DEF Spec

-----------------------------------------------------------------------------
(***************************************************************************)
(* What is served after an invalidation.  Once the DEL of change n has met *)
(* no older listing still to come, none can come any more: what a listing  *)
(* is served from - the read pool, the queries whose result is about to be *)
(* stored, the key itself - is at n or past it.                            *)
(***************************************************************************)
ServesFrom(n) ==
  /\ replayed >= n
  /\ \A r \in InFlight : r.pc = "store" => r.list >= n
  /\ cache # NoEntry => cache >= n

FreshInv == StreamTyped /\ \A n \in deleted \ raced : ServesFrom(n)

\* A result about to be stored was so before, or is what the read pool has now.
Awaited(q) == \/ \E r \in InFlight : r.pc = "store" /\ r.list = q.list
              \/ q.list = replayed

LEMMA AnswerAwaits ==
  ASSUME NEW r, NEW n, Answer(r, n)
  PROVE  \A q \in InFlight' : q.pc = "store" => q \in InFlight
<1>1. CASE EndRead(r)
  BY <1>1, EndedRead
<1>2. ASSUME NEW q, ReadOn(r, q), q.pc = "answer"
      PROVE  \A x \in InFlight' : x.pc = "store" => x \in InFlight
  BY <1>2, ReadsOn
<1>3. CASE ~ (r.user = None)
  <2> DEFINE q == [pc |-> "answer", user |-> r.user, sse |-> r.sse,
                   seats |-> View(n, r.viewer, r.now)]
  <2>1. ReadOn(r, q) /\ q.pc = "answer"
    BY <1>3 DEF Answer
  <2> HIDE DEF q
  <2> QED BY <1>2, <2>1
<1> QED BY <1>1, <1>3 DEF Answer

LEMMA AskAwaits ==
  ASSUME NEW u, NEW sse, Ask(u, sse)
  PROVE  \A q \in InFlight' : q.pc = "store" => q \in InFlight
<1>1. PICK v \in User \cup {None} : BeginRead(u, v, sse)
  BY DEF Ask
<1> QED BY <1>1, BegunRead

LEMMA AbandonAwaits ==
  ASSUME StreamTyped, NEW R, Abandon(R)
  PROVE  \A q \in InFlight' : q.pc = "store" => Awaited(q)
<1> SUFFICES ASSUME NEW q \in InFlight', q.pc = "store" PROVE Awaited(q)
  OBVIOUS
<1>1. CASE q \in InFlight
  BY <1>1 DEF Awaited
<1>2. ASSUME NEW r \in R \cap InFlight, r.pc # "answer", q = Bereft(r) PROVE Awaited(q)
  <2>1. r \in Request
    BY <1>2 DEF StreamTyped, ReadsTyped, Fit, Response
  <2>2. q.pc = r.pc /\ q.list = r.list
    BY <1>2, <2>1 DEF Bereft, Request
  <2> QED BY <2>2 DEF Awaited
<1> QED BY <1>1, <1>2, AbandonedReads

LEMMA NextAwaits ==
  ASSUME StreamTyped, [Next]_vars
  PROVE  \A q \in InFlight' : q.pc = "store" => Awaited(q)
<1>0. \A q \in InFlight : q.pc = "store" => Awaited(q)
  BY DEF Awaited
<1>1. CASE reads' = reads
  BY <1>0, <1>1 DEF InFlight
<1>2. ASSUME NEW r \in InFlight, Lookup(r) PROVE \A q \in InFlight' : q.pc = "store" => Awaited(q)
  <2>1. CASE Answer(r, cache)
    BY <1>0, <2>1, AnswerAwaits
  <2>2. CASE ReadOn(r, [r EXCEPT !.pc = "store", !.list = replayed])
    <3> DEFINE q == [r EXCEPT !.pc = "store", !.list = replayed]
    <3>1. r \in Request
      BY <1>2 DEF Lookup, StreamTyped, ReadsTyped, Fit, Response
    <3>2. q.list = replayed
      BY <3>1 DEF Request
    <3>3. InFlight' \subseteq InFlight \cup {q}
      BY <2>2, ReadsOn
    <3> QED BY <1>0, <3>2, <3>3 DEF Awaited
  <2> QED BY <1>2, <2>1, <2>2 DEF Lookup
<1>3. ASSUME NEW r \in InFlight, Store(r) PROVE \A q \in InFlight' : q.pc = "store" => Awaited(q)
  BY <1>0, <1>3, AnswerAwaits DEF Store
<1>4. ASSUME NEW u \in User, PageStep(u) PROVE \A q \in InFlight' : q.pc = "store" => Awaited(q)
  <2>1. CASE \E sse : Ask(u, sse)
    BY <1>0, <2>1, AskAwaits
  <2>2. CASE \E R : Abandon(R)
    BY <2>2, AbandonAwaits
  <2>3. CASE ShowSnapshot(u)
    BY <1>1, <2>3 DEF ShowSnapshot, cacheVars
  <2> QED BY <1>4, <2>1, <2>2, <2>3
          DEF PageStep, Open, Poll, CountdownEnds, SeatChange, Connect, Disconnect, Leave
<1>5. ASSUME NEW r \in InFlight, Show(r) \/ SendSnapshot(r) \/ Unanswered(r)
      PROVE  \A q \in InFlight' : q.pc = "store" => Awaited(q)
  BY <1>0, <1>5, EndedRead DEF Show, SendSnapshot, Unanswered
<1>6. CASE CacheStep
  <2>1. \/ reads' = reads
        \/ \E r \in InFlight : Lookup(r) \/ Store(r)
    BY <1>6 DEF CacheStep, Commit, CommitLazily, ClockTick, CacheAges, Replay, Invalidate, Delete, ReadStep
  <2> QED BY <1>1, <1>2, <1>3, <2>1
<1>7. CASE \/ UNCHANGED vars
           \/ \E n \in Published : Ingest(n)
  BY <1>1, <1>7 DEF vars, cacheVars, Ingest
<1> QED BY <1>4, <1>5, <1>6, <1>7 DEF Next

\* The read pool only moves on, and the key only receives what was about to be stored.
LEMMA NextServes ==
  ASSUME StreamTyped, [Next]_vars
  PROVE  /\ replayed' \in {replayed, replayed + 1}
         /\ \/ cache' \in {cache, NoEntry}
            \/ \E r \in InFlight : r.pc = "store" /\ cache' = r.list
<1>1. CASE UNCHANGED <<replayed, cache>>
  BY <1>1
<1>2. CASE CacheStep
  <2>1. CASE Commit \/ CommitLazily \/ ClockTick \/ CacheAges \/ Replay
             \/ \E n \in Published : Invalidate(n)
    BY <2>1 DEF Commit, CommitLazily, ClockTick, CacheAges, Replay, Invalidate, Delete
  <2>2. ASSUME NEW r \in InFlight, ReadStep(r)
        PROVE  /\ replayed' = replayed
               /\ cache' = cache \/ (r.pc = "store" /\ cache' \in {cache, r.list})
    BY <2>2 DEF ReadStep, Lookup, Store
  <2> QED BY <1>2, <2>1, <2>2 DEF CacheStep
<1>3. ASSUME NEW u \in User, PageStep(u) PROVE UNCHANGED <<replayed, cache>>
  BY <1>3 DEF PageStep, Open, Poll, CountdownEnds, SeatChange, ShowSnapshot, Connect, Disconnect,
              Leave, EndStream, Ask, RestOfCache, cacheVars
<1>4. CASE \/ UNCHANGED vars
           \/ \E n \in Published : Ingest(n)
           \/ \E r \in InFlight : Show(r) \/ SendSnapshot(r) \/ Unanswered(r)
  BY <1>4 DEF vars, cacheVars, Ingest, Show, SendSnapshot, Unanswered, RestOfCache
<1> QED BY <1>1, <1>2, <1>3, <1>4 DEF Next

LEMMA NextDeletes ==
  ASSUME [Next]_vars, NEW n \in deleted' \ raced', n \notin deleted \ raced
  PROVE  ~OlderToCome(n) /\ cache' = NoEntry /\ UNCHANGED <<replayed, reads>>
<1>1. CASE UNCHANGED <<deleted, raced>>
  BY <1>1
<1>2. ASSUME NEW m \in Published, Invalidate(m)
      PROVE  ~OlderToCome(n) /\ cache' = NoEntry /\ UNCHANGED <<replayed, reads>>
  <2>1. /\ deleted' = deleted \cup {m} /\ raced' = raced \cup {x \in {m} : OlderToCome(m)}
        /\ cache' = NoEntry /\ UNCHANGED <<replayed, reads>>
    BY <1>2 DEF Invalidate, Delete
  <2>2. n = m
    BY <2>1
  <2> QED BY <2>1, <2>2
<1>3. CASE CacheStep
  BY <1>1, <1>2, <1>3 DEF CacheStep, Commit, CommitLazily, ClockTick, CacheAges, Replay, ReadStep, Lookup, Store
<1>4. ASSUME NEW u \in User, PageStep(u) PROVE UNCHANGED <<deleted, raced>>
  BY <1>4 DEF PageStep, Open, Poll, CountdownEnds, SeatChange, ShowSnapshot, Connect, Disconnect,
              Leave, EndStream, Ask, RestOfCache, cacheVars
<1>5. CASE \/ UNCHANGED vars
           \/ \E m \in Published : Ingest(m)
           \/ \E r \in InFlight : Show(r) \/ SendSnapshot(r) \/ Unanswered(r)
  BY <1>5 DEF vars, cacheVars, Ingest, Show, SendSnapshot, Unanswered, RestOfCache
<1> QED BY <1>1, <1>3, <1>4, <1>5 DEF Next

LEMMA NextFresh == FreshInv /\ [Next]_vars => FreshInv'
<1> SUFFICES ASSUME FreshInv, [Next]_vars, NEW n \in deleted' \ raced'
             PROVE  ServesFrom(n)'
  BY NextTyped DEF FreshInv
<1>1. /\ StreamTyped /\ replayed \in Nat
      /\ \A r \in InFlight : r.pc = "store" => r \in Request /\ r.list \in Nat
  BY DEF FreshInv, StreamTyped, SeatsTyped, ReadsTyped, Fit, Request, Response
<1>0. n \in Nat /\ StreamTyped'
  BY <1>1, NextTyped DEF StreamTyped, KeyTyped, SeatsTyped, Published, Changes
<1>2. CASE n \in deleted \ raced
  <2>1. ServesFrom(n)
    BY <1>2 DEF FreshInv
  <2>2. replayed' >= n
    BY <1>0, <1>1, <2>1, NextServes DEF ServesFrom
  <2>3. \A q \in InFlight' : q.pc = "store" => q.list >= n
    BY <1>1, <2>1, NextAwaits DEF ServesFrom, Awaited
  <2>4. cache' # NoEntry => cache' >= n
    BY <1>1, <2>1, NextServes DEF ServesFrom
  <2> QED BY <2>2, <2>3, <2>4 DEF ServesFrom, NoEntry
<1>3. CASE n \notin deleted \ raced
  <2>1. ~OlderToCome(n) /\ cache' = NoEntry /\ UNCHANGED <<replayed, reads>>
    BY <1>3, NextDeletes
  <2>2. replayed' >= n
    BY <1>0, <1>1, <2>1 DEF OlderToCome
  <2>3. \A r \in InFlight : r.pc = "store" => r.list >= n
    BY <1>0, <1>1, <2>1 DEF OlderToCome
  <2>4. InFlight' = InFlight
    BY <2>1 DEF InFlight
  <2> QED BY <2>1, <2>2, <2>3, <2>4 DEF ServesFrom, NoEntry
<1> QED BY <1>2, <1>3

(* After the DEL of a change, for any number of listings, publishes and pages  *)
(* and whatever fails, the key never serves an older listing unless one was on *)
(* its way to the key, or the read pool behind, when the DEL was carried out.  *)
THEOREM ServedFresh == Spec => []FreshAfterDelete
<1>1. Init => FreshInv
  BY InitTyped DEF FreshInv, Init, CacheInit
<1>2. FreshInv => FreshAfterDelete
  BY DEF FreshInv, FreshAfterDelete, ServesFrom
<1> QED BY <1>1, <1>2, NextFresh, PTL DEF Spec
=============================================================================
