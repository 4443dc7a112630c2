---------------------------- MODULE OverlapProofs ---------------------------
(***************************************************************************)
(* Why only overlapping calls of one browser, or a lost answer, make       *)
(* auth-svc turn a refresh away: while a user's browsers each do one thing *)
(* at a time, every browser keeps a live refresh token that no other       *)
(* browser and no other call is about to use.                              *)
(***************************************************************************)
EXTENDS SessionProofs

\* None of the browsers of c's user has had two calls in flight at once.
Steady(c) == Owner(c) \notin overlapped

At(q, c, pcs) == call[q].client = c /\ call[q].pc \in pcs

\* t is the refresh token c will present next: the one its jar holds, unless an
\* answer that brings another, or none, is on its way.
Keeps(c, t) ==
  \/ \E q \in Call : At(q, c, {"in", "set"}) /\ call[q].tok = t
  \/ jar[c].tok = t /\ ~ \E q \in Call : At(q, c, {"in", "set", "out"})

Refused == {"burn", "burning", "clear"}
Presenting == {"lookup", "user", "rotate", "logout"}

OneCall ==
  \A c \in Client : Steady(c) =>
    \A q1, q2 \in Call : call[q1].client = c /\ call[q2].client = c => q1 = q2
NoneRefused ==
  \A c \in Client : Steady(c) => \A q \in Call : ~At(q, c, Refused)
CookieCurrent ==
  \A c \in Client : Steady(c) =>
    \A q \in Call : At(q, c, Presenting) => call[q].tok = jar[c].tok
KeptLive ==
  \A c \in Client : Steady(c) => \A t \in Tok : Keeps(c, t) => Live(t)
KeptApart ==
  \A c, d \in Client : Steady(c) /\ Steady(d) =>
    \A t \in Tok : Keeps(c, t) /\ Keeps(d, t) => c = d

Undisturbed == OneCall /\ NoneRefused /\ CookieCurrent /\ KeptLive /\ KeptApart

OverlapInv == SessionInv /\ (faults = 0 => Undisturbed)

-----------------------------------------------------------------------------
LEMMA OverlapTypes ==
  ASSUME SessionInv
  PROVE  /\ call \in [Call -> CallRecord] /\ jar \in [Client -> Jar]
         /\ tokens \in [Tok -> RefreshToken] /\ faults \in Nat
         /\ None \notin Client /\ None \notin Tok
BY AuthNoneAssumption, AuthFaultsAssumption DEF SessionInv, Typing, TypeOK, AuthTypeOK

\* A browser keeps tokens of its user only.
LEMMA KeptOurs ==
  ASSUME SessionInv, NEW c \in Client, NEW t \in Tok, Keeps(c, t)
  PROVE  Issued(t) /\ tokens[t].user = Owner(c)
<1>1. ASSUME NEW q \in Call, At(q, c, {"in", "set"}), call[q].tok = t
      PROVE  Issued(t) /\ tokens[t].user = Owner(c)
  BY <1>1 DEF SessionInv, CallFine, Ours, At
<1>2. jar[c].tok = t => Issued(t) /\ tokens[t].user = Owner(c)
  BY DEF SessionInv, JarFine, Ours
<1> QED BY <1>1, <1>2 DEF Keeps

\* What a browser keeps when it has one call in flight, or none but that one.
LEMMA KeptByOne ==
  ASSUME NEW q \in Call, NEW c \in Client, NEW t
  PROVE  /\ (\A x \in Call \ {q} : call[x].client # c) =>
              (Keeps(c, t) <=> IF At(q, c, {"in", "set", "out"})
                                 THEN call[q].pc # "out" /\ call[q].tok = t
                                 ELSE jar[c].tok = t)
         /\ (\A x \in Call \ {q} : call'[x].client # c) =>
              (Keeps(c, t)' <=> IF At(q, c, {"in", "set", "out"})'
                                  THEN call'[q].pc # "out" /\ call'[q].tok = t
                                  ELSE jar'[c].tok = t)
BY DEF Keeps, At

\* A step of one call q of browser c leaves the other browsers what they have,
\* so it is enough that c ends up well and that the others' tokens stay live.
LEMMA LocalStep ==
  ASSUME SessionInv, Undisturbed, NEW q \in Call, NEW c \in Client,
         call[q].client \in {c, None}, call'[q].client \in {c, None},
         \A x \in Call \ {q} : call'[x] = call[x],
         \A d \in Client \ {c} : jar'[d] = jar[d],
         overlapped \subseteq overlapped',
         \A d \in Client \ {c}, t \in Tok : Steady(d) /\ Keeps(d, t) => Live(t)',
         Steady(c)' =>
           /\ \A x \in Call \ {q} : call[x].client # c
           /\ call'[q].client = c => call'[q].pc \notin Refused
           /\ call'[q].client = c /\ call'[q].pc \in Presenting => call'[q].tok = jar'[c].tok
           /\ \A t \in Tok : Keeps(c, t)' => Live(t)' /\ (Keeps(c, t) \/ ~Live(t))
  PROVE  Undisturbed'
<1>0. None \notin Client
  BY OverlapTypes
<1>1. \A d \in Client : Steady(d)' => Steady(d)
  BY DEF Steady
<1>2. \A d \in Client \ {c} : \A x \in Call : call'[x].client = d => call'[x] = call[x]
  BY <1>0
<1>3. \A d \in Client \ {c} : \A x \in Call : call[x].client = d => call'[x] = call[x]
  BY <1>0
<1>4. ASSUME NEW d \in Client \ {c}, NEW t \in Tok PROVE Keeps(d, t)' <=> Keeps(d, t)
  BY <1>2, <1>3 DEF Keeps, At
<1>5. OneCall'
  BY <1>1, <1>2 DEF Undisturbed, OneCall
<1>6. NoneRefused'
  <2> SUFFICES ASSUME NEW d \in Client, Steady(d)', NEW x \in Call, At(x, d, Refused)' PROVE FALSE
    BY DEF NoneRefused
  <2>1. CASE d = c
    BY <2>1 DEF At
  <2>2. CASE d # c
    BY <1>1, <1>2, <2>2 DEF Undisturbed, NoneRefused, At
  <2> QED BY <2>1, <2>2
<1>7. CookieCurrent'
  <2> SUFFICES ASSUME NEW d \in Client, Steady(d)', NEW x \in Call, At(x, d, Presenting)'
               PROVE  call'[x].tok = jar'[d].tok
    BY DEF CookieCurrent
  <2>1. CASE d = c
    BY <2>1 DEF At
  <2>2. CASE d # c
    BY <1>1, <1>2, <2>2 DEF Undisturbed, CookieCurrent, At
  <2> QED BY <2>1, <2>2
<1>8. KeptLive'
  <2> SUFFICES ASSUME NEW d \in Client, Steady(d)', NEW t \in Tok, Keeps(d, t)' PROVE Live(t)'
    BY DEF KeptLive
  <2>1. CASE d = c
    BY <2>1
  <2>2. CASE d # c
    BY <1>1, <1>4, <2>2
  <2> QED BY <2>1, <2>2
<1>9. KeptApart'
  <2> SUFFICES ASSUME NEW d \in Client, NEW e \in Client, Steady(d)', Steady(e)', d # e,
                      NEW t \in Tok, Keeps(d, t)', Keeps(e, t)'
               PROVE  FALSE
    BY DEF KeptApart
  <2>1. Steady(d) /\ Steady(e)
    BY <1>1
  <2>2. ASSUME NEW a \in Client, NEW b \in Client, Steady(a), Steady(b), a # b,
               Keeps(a, t), Keeps(b, t)
        PROVE  FALSE
    BY <2>2 DEF Undisturbed, KeptApart
  <2>3. \A a \in Client : Steady(a) /\ Keeps(a, t) => Live(t)
    BY DEF Undisturbed, KeptLive
  <2>4. CASE d = c
    BY <1>4, <2>1, <2>2, <2>3, <2>4
  <2>5. CASE e = c
    BY <1>4, <2>1, <2>2, <2>3, <2>5
  <2>6. CASE d # c /\ e # c
    BY <1>4, <2>1, <2>2, <2>6
  <2> QED BY <2>4, <2>5, <2>6
<1> QED BY <1>5, <1>6, <1>7, <1>8, <1>9 DEF Undisturbed

\* A token a call presents, or burns, is no other browser's.
LEMMA OthersUntouched ==
  ASSUME SessionInv, Undisturbed, NEW q \in Call, NEW c \in Client, call[q].client = c,
         NEW d \in Client \ {c}, Steady(d), NEW t \in Tok, Keeps(d, t)
  PROVE  /\ call[q].pc \in Presenting => call[q].tok # t
         /\ call[q].pc = "burning" => t \notin call[q].doomed
<1>1. tokens[t].user = Owner(d)
  BY KeptOurs
<1>2. Owner(c) = Owner(d) => Steady(c)
  BY DEF Steady
<1>3. ASSUME call[q].pc \in Presenting, call[q].tok = t PROVE FALSE
  <2>1. tokens[t].user = Owner(c)
    BY <1>3 DEF SessionInv, CallFine, Ours, Presenting
  <2>2. Steady(c) /\ \A x \in Call \ {q} : call[x].client # c
    BY <1>1, <1>2, <2>1 DEF Undisturbed, OneCall
  <2>3. jar[c].tok = t
    BY <1>3, <2>2 DEF Undisturbed, CookieCurrent, At
  <2>4. Keeps(c, t)
    BY <1>3, <2>2, <2>3, KeptByOne DEF At, Presenting
  <2> QED BY <2>2, <2>4 DEF Undisturbed, KeptApart
<1>4. ASSUME call[q].pc = "burning", t \in call[q].doomed PROVE FALSE
  <2>1. tokens[t].user = Owner(c)
    BY <1>4 DEF SessionInv, CallFine, Ours
  <2> QED BY <1>1, <1>2, <1>4, <2>1 DEF Undisturbed, NoneRefused, At, Refused
<1> QED BY <1>3, <1>4

-----------------------------------------------------------------------------
(* auth-svc's requests. *)

\* A steady browser's only call, before the answer: what the browser keeps is in
\* the jar, it is live, and it is what the call presents, if it presents any.
LEMMA SteadyCall ==
  ASSUME SessionInv, Undisturbed, NEW q \in Call, NEW c \in Client, call[q].client = c, Steady(c)
  PROVE  /\ \A x \in Call \ {q} : call[x].client # c
         /\ call[q].pc \notin Refused
         /\ call[q].pc \in Presenting => call[q].tok = jar[c].tok
         /\ call[q].pc \in Presenting /\ call[q].tok \in Tok => Live(call[q].tok)
         /\ call[q].pc \notin {"in", "set", "out"} =>
              \A t \in Tok : (Keeps(c, t) <=> jar[c].tok = t) /\ (Keeps(c, t) => Live(t))
<1>1. \A x \in Call \ {q} : call[x].client # c
  BY DEF Undisturbed, OneCall
<1>2. call[q].pc \notin Refused /\ (call[q].pc \in Presenting => call[q].tok = jar[c].tok)
  BY DEF Undisturbed, NoneRefused, CookieCurrent, At
<1>3. ASSUME call[q].pc \notin {"in", "set", "out"}, NEW t \in Tok
      PROVE  (Keeps(c, t) <=> jar[c].tok = t) /\ (Keeps(c, t) => Live(t))
  <2>1. Keeps(c, t) <=> jar[c].tok = t
    BY <1>1, <1>3, KeptByOne DEF At
  <2> QED BY <2>1 DEF Undisturbed, KeptLive
<1> QED BY <1>1, <1>2, <1>3 DEF Presenting

\* A call moves on without an answer and without touching a token.
LEMMA MovesOn ==
  ASSUME SessionInv, Undisturbed, NEW q \in Call, NEW c \in Client, call[q].client = c,
         call'[q].client \in {c, None}, \A x \in Call \ {q} : call'[x] = call[x],
         UNCHANGED <<tokens, jar, overlapped>>,
         call[q].pc \notin {"in", "set", "out"}, call'[q].pc \notin {"in", "set", "out"},
         call'[q].pc \in Presenting =>
           \/ call'[q].tok = jar[c].tok
           \/ call[q].pc \in Presenting /\ call'[q].tok = call[q].tok,
         Steady(c) => call'[q].pc \notin Refused
  PROVE  Undisturbed'
<1>0. Steady(c)' <=> Steady(c)
  BY DEF Steady
<1>1. \A d \in Client \ {c}, t \in Tok : Steady(d) /\ Keeps(d, t) => Live(t)'
  BY DEF Undisturbed, KeptLive, Live
<1>2. ASSUME Steady(c)
      PROVE  /\ \A x \in Call \ {q} : call[x].client # c
             /\ call'[q].client = c => call'[q].pc \notin Refused
             /\ call'[q].client = c /\ call'[q].pc \in Presenting => call'[q].tok = jar'[c].tok
             /\ \A t \in Tok : Keeps(c, t)' => Live(t)' /\ (Keeps(c, t) \/ ~Live(t))
  <2>1. /\ \A x \in Call \ {q} : call[x].client # c /\ call'[x].client # c
        /\ call[q].pc \in Presenting => call[q].tok = jar[c].tok
        /\ \A t \in Tok : (Keeps(c, t) <=> jar[c].tok = t) /\ (Keeps(c, t) => Live(t))
    BY <1>2, SteadyCall
  <2>2. \A t \in Tok : Keeps(c, t)' <=> jar[c].tok = t
    BY <2>1, KeptByOne DEF At
  <2> QED BY <1>2, <2>1, <2>2 DEF Live
<1> QED BY <1>0, <1>1, <1>2, LocalStep

LEMMA AuthUndisturbed ==
  ASSUME SessionInv, Undisturbed, NEW q \in Call, AuthStep(q), ~Lost(q),
         UNCHANGED <<jar, overlapped>>
  PROVE  Undisturbed'
<1>a. /\ call \in [Call -> CallRecord] /\ tokens \in [Tok -> RefreshToken]
      /\ None \notin Client /\ None \notin Tok /\ Typing
  BY OverlapTypes DEF SessionInv
<1>b. call[q].pc # "idle"
  BY DEF AuthStep, Lookup, ReadUser, Rotate, BurnStart, BurnCommit, ReadLogin, Issue, Logout,
    Lost, ServerPc, AnswerPc
<1>d. PICK c \in Client : call[q].client = c
  BY <1>b DEF SessionInv, Typing, CallShape, Shape
<1>c. c \in Client /\ Shape(call[q]) /\ (Steady(c)' <=> Steady(c))
  BY DEF SessionInv, Typing, CallShape, Steady
\* The call is answered with a token that was not issued before; the one it
\* presented, if it presented one, is revoked.
<1>f. ASSUME NEW pc \in {"in", "set"}, NEW n \in Unissued, AnswerWith(q, pc, n, call[q].ver),
             tokens'[n].state = "live", call[q].pc \notin {"in", "set", "out"},
             \A t \in Tok : Live(t) => Live(t)' \/ (call[q].pc \in Presenting /\ t = call[q].tok)
      PROVE  Undisturbed'
  <2>1. /\ call'[q].client = c /\ call'[q].pc = pc /\ call'[q].tok = n
        /\ \A x \in Call \ {q} : call'[x] = call[x]
    BY <1>a, <1>d, <1>f DEF AnswerWith
  <2>2. \A d \in Client \ {c}, t \in Tok : Steady(d) /\ Keeps(d, t) => Live(t)'
    BY <1>c, <1>d, <1>f, OthersUntouched DEF Undisturbed, KeptLive
  <2>3. ASSUME Steady(c)
        PROVE  /\ \A x \in Call \ {q} : call[x].client # c
               /\ \A t \in Tok : Keeps(c, t)' => Live(t)' /\ (Keeps(c, t) \/ ~Live(t))
    <3>1. \A x \in Call \ {q} : call[x].client # c /\ call'[x].client # c
      BY <1>c, <1>d, <2>1, <2>3, SteadyCall
    <3>2. \A t \in Tok : Keeps(c, t)' <=> t = n
      BY <1>c, <1>f, <2>1, <3>1, KeptByOne DEF At
    <3> QED BY <1>f, <3>1, <3>2 DEF Live, Unissued
  <2> QED BY <1>c, <1>d, <1>f, <2>1, <2>2, <2>3, LocalStep DEF Refused, Presenting
<1>g. ASSUME Quit(q), tokens' = tokens, call[q].pc \notin {"in", "set", "out"} PROVE Undisturbed'
  <2>1. call'[q].client = None /\ call'[q].pc = "idle" /\ \A x \in Call \ {q} : call'[x] = call[x]
    BY <1>a, <1>g DEF Quit, NoCall
  <2> QED BY <1>c, <1>d, <1>g, <2>1, MovesOn DEF Presenting, Refused
<1>h. ASSUME NEW pc, Goto(q, pc), tokens' = tokens, call[q].pc \in Presenting,
             pc \notin {"in", "set", "out"}, Steady(c) => pc \notin Refused
      PROVE  Undisturbed'
  <2>1. /\ call'[q].client = c /\ call'[q].pc = pc /\ call'[q].tok = call[q].tok
        /\ \A x \in Call \ {q} : call'[x] = call[x]
    BY <1>a, <1>d, <1>h DEF Goto, CallRecord
  <2> QED BY <1>c, <1>d, <1>h, <2>1, MovesOn DEF Presenting
<1>i. Steady(c) => /\ call[q].pc \notin Refused
                   /\ call[q].pc \in Presenting /\ call[q].tok \in Tok => Live(call[q].tok)
  BY <1>c, <1>d, SteadyCall
<1>j. call[q].tok \in Tok \cup {None}
  BY <1>a DEF CallRecord
<1>1. CASE Lookup(q)
  <2>1. CASE Quit(q)
    BY <1>1, <1>g, <2>1 DEF Lookup
  <2>2. CASE Goto(q, "burn") /\ ~Live(call[q].tok) /\ call[q].tok # None
    BY <1>1, <1>h, <1>i, <1>j, <2>2 DEF Lookup, Presenting
  <2>3. CASE Goto(q, "user")
    BY <1>1, <1>h, <2>3 DEF Lookup, Presenting, Refused
  <2> QED BY <1>1, <2>1, <2>2, <2>3 DEF Lookup
<1>2. CASE ReadUser(q)
  <2>1. /\ call'[q].client = c /\ call'[q].pc = "rotate" /\ call'[q].tok = call[q].tok
        /\ \A x \in Call \ {q} : call'[x] = call[x]
    BY <1>a, <1>d, <1>2 DEF ReadUser, CallRecord
  <2> QED BY <1>2, <1>c, <1>d, MovesOn, <2>1 DEF ReadUser, Presenting, Refused
<1>3. CASE Rotate(q)
  <2>1. ASSUME NEW n \in Unissued, AnswerWith(q, "set", n, call[q].ver),
               tokens' = [Revoked({call[q].tok}) EXCEPT ![n] =
                 [state |-> "live", user |-> Caller(q), session |-> tokens[call[q].tok].session]]
        PROVE  Undisturbed'
    <3>1. tokens'[n].state = "live" /\ \A t \in Tok : Live(t) => Live(t)' \/ t = call[q].tok
      BY <1>a, <2>1 DEF Revoked, Unissued, Live
    <3> QED BY <1>3, <1>f, <2>1, <3>1 DEF Rotate, Presenting
  <2>2. CASE Goto(q, "clear") /\ ~Live(call[q].tok) /\ tokens' = tokens
    BY <1>3, <1>c, <1>h, <1>i, <2>2 DEF Rotate, Presenting, Shape
  <2>3. CASE Quit(q) /\ tokens' = tokens
    BY <1>3, <1>g, <2>3 DEF Rotate
  <2> QED BY <1>3, <2>1, <2>2, <2>3 DEF Rotate
<1>4. CASE BurnStart(q)
  <2>1. /\ call'[q].client = c /\ call'[q].pc = "burning"
        /\ \A x \in Call \ {q} : call'[x] = call[x]
    BY <1>a, <1>d, <1>4 DEF BurnStart, CallRecord
  <2> QED BY <1>4, <1>c, <1>d, MovesOn, <1>i, <2>1 DEF BurnStart, Presenting, Refused
<1>5. CASE BurnCommit(q)
  <2>1. /\ call'[q].client = c /\ call'[q].pc = "clear" /\ ~Steady(c)
        /\ \A x \in Call \ {q} : call'[x] = call[x]
    BY <1>a, <1>d, <1>5, <1>i DEF BurnCommit, CallRecord, Refused
  <2>2. \A t \in Tok : Live(t) => Live(t)' \/ t \in call[q].doomed
    BY <1>a, <1>5 DEF BurnCommit, Revoked, Live
  <2>3. \A d \in Client \ {c}, t \in Tok : Steady(d) /\ Keeps(d, t) => Live(t)'
    BY <1>5, <1>c, <1>d, <2>2, OthersUntouched DEF BurnCommit, Undisturbed, KeptLive
  <2> QED BY <1>c, <1>d, <2>1, <2>3, LocalStep
<1>6. CASE ReadLogin(q)
  <2>1. /\ call'[q].client = c /\ call'[q].pc = "issue"
        /\ \A x \in Call \ {q} : call'[x] = call[x]
    BY <1>a, <1>d, <1>6 DEF ReadLogin, CallRecord
  <2> QED BY <1>6, <1>c, <1>d, MovesOn, <2>1 DEF ReadLogin, Presenting, Refused
<1>7. CASE Issue(q)
  <2>1. ASSUME NEW n \in Unissued, AnswerWith(q, "in", n, call[q].ver),
               tokens' = [tokens EXCEPT ![n] = [state |-> "live", user |-> Caller(q), session |-> n]]
        PROVE  Undisturbed'
    <3>1. tokens'[n].state = "live" /\ \A t \in Tok : Live(t) => Live(t)'
      BY <1>a, <2>1 DEF Unissued, Live
    <3> QED BY <1>7, <1>f, <2>1, <3>1 DEF Issue
  <2> QED BY <1>7, <1>g, <2>1 DEF Issue
<1>8. CASE Logout(q)
  <2>1. /\ call'[q].client = c /\ call'[q].pc = "out"
        /\ \A x \in Call \ {q} : call'[x] = call[x]
    BY <1>a, <1>d, <1>8 DEF Logout, Goto, CallRecord
  <2>2. \A t \in Tok : Live(t) => Live(t)' \/ t = call[q].tok
    BY <1>a, <1>8 DEF Logout, Revoked, Live
  <2>3. \A d \in Client \ {c}, t \in Tok : Steady(d) /\ Keeps(d, t) => Live(t)'
    BY <1>8, <1>c, <1>d, <2>2, OthersUntouched DEF Logout, Undisturbed, KeptLive, Presenting
  <2>4. ASSUME Steady(c)
        PROVE  /\ \A x \in Call \ {q} : call[x].client # c
               /\ \A t \in Tok : ~Keeps(c, t)'
    <3>1. \A x \in Call \ {q} : call[x].client # c /\ call'[x].client # c
      BY <1>c, <1>d, <2>1, <2>4, SteadyCall
    <3> QED BY <1>c, <2>1, <3>1, KeptByOne DEF At
  <2> QED BY <1>c, <1>d, <2>1, <2>3, <2>4, LocalStep DEF Refused, Presenting
<1> QED BY <1>1, <1>2, <1>3, <1>4, <1>5, <1>6, <1>7, <1>8 DEF AuthStep

-----------------------------------------------------------------------------
(* The browsers. *)

\* A slot without a call has no browser.
Blank == \A q \in Call : call[q].pc = "idle" => call[q].client = None

LEMMA BlankStep ==
  ASSUME SessionInv, Blank, [Next]_vars
  PROVE  Blank'
<1>0. call \in [Call -> CallRecord]
  BY OverlapTypes
<1>1. ASSUME NEW q \in Call, \A x \in Call \ {q} : call'[x] = call[x],
             call'[q].pc = "idle" => call'[q].client = None
      PROVE  Blank'
  BY <1>1 DEF Blank
<1>2. ASSUME NEW q \in Call, Quit(q) PROVE Blank'
  BY <1>0, <1>1, <1>2 DEF Quit, NoCall
<1>3. ASSUME NEW q \in Call, NEW pc, Goto(q, pc), pc # "idle" PROVE Blank'
  BY <1>0, <1>1, <1>3 DEF Goto, CallRecord
<1>4. ASSUME NEW q \in Call, NEW pc, NEW t, NEW v, AnswerWith(q, pc, t, v), pc # "idle" PROVE Blank'
  BY <1>0, <1>1, <1>4 DEF AnswerWith
<1>5. ASSUME NEW q \in Call, AuthStep(q) PROVE Blank'
  <2>1. CASE ReadUser(q) \/ BurnStart(q) \/ BurnCommit(q) \/ ReadLogin(q)
    <3>1. call'[q].pc # "idle" /\ \A x \in Call \ {q} : call'[x] = call[x]
      BY <1>0, <2>1 DEF ReadUser, BurnStart, BurnCommit, ReadLogin, CallRecord
    <3> QED BY <1>1, <3>1
  <2>2. CASE Lookup(q) \/ Rotate(q) \/ Issue(q) \/ Logout(q) \/ Lost(q)
    BY <1>2, <1>3, <1>4, <2>2 DEF Lookup, Rotate, Issue, Logout, Lost
  <2> QED BY <1>5, <2>1, <2>2 DEF AuthStep
<1>6. ASSUME NEW q \in Call, NEW c \in Client, SignIn(q, c) \/ SignOut(q, c) \/ CallApi(q, c)
      PROVE  Blank'
  <2>1. call'[q].pc # "idle" /\ \A x \in Call \ {q} : call'[x] = call[x]
    BY <1>0, <1>6 DEF SignIn, SignOut, CallApi, Start
  <2> QED BY <1>1, <2>1
<1>7. ASSUME NEW q \in Call, Gateway(q) PROVE Blank'
  <2>1. CASE Quit(q)
    BY <1>2, <2>1
  <2>2. CASE ~Quit(q)
    <3>1. call'[q].pc = "lookup" /\ \A x \in Call \ {q} : call'[x] = call[x]
      BY <1>0, <1>7, <2>2 DEF Gateway, CallRecord
    <3> QED BY <1>1, <3>1
  <2> QED BY <2>1, <2>2
<1>8. ASSUME NEW q \in Call, ReceiveCookies(q) \/ ReceiveClear(q) PROVE Blank'
  BY <1>2, <1>3, <1>8 DEF ReceiveCookies, ReceiveClear
<1>9. CASE call' = call
  BY <1>9 DEF Blank
<1> QED BY <1>5, <1>6, <1>7, <1>8, <1>9 DEF Next, AccessExpires, vars, authVars

\* A page starts a call: if its browser stays steady, it had none in flight.
LEMMA StartUndisturbed ==
  ASSUME SessionInv, Undisturbed, Blank, NEW q \in Call, NEW c \in Client,
         SignIn(q, c) \/ SignOut(q, c) \/ CallApi(q, c)
  PROVE  Undisturbed'
<1>0. call \in [Call -> CallRecord] /\ jar \in [Client -> Jar] /\ None \notin Client
  BY OverlapTypes
<1>1. PICK pc \in {"login", "logout", "api"}, t \in Tok \cup {None}, v \in Nat :
        Start(q, c, pc, t, v) /\ (pc = "logout" => t = jar[c].tok)
  BY <1>0 DEF SessionInv, Typing, JarShape, SignIn, SignOut, CallApi, Access, Jar
<1>2. /\ call[q].client = None /\ call'[q].client = c /\ call'[q].pc = pc /\ call'[q].tok = t
      /\ \A x \in Call \ {q} : call'[x] = call[x]
      /\ UNCHANGED <<tokens, jar>>
      /\ overlapped \subseteq overlapped'
      /\ Steady(c)' => Steady(c) /\ \A x \in Call : call[x].client # c
  BY <1>0, <1>1 DEF Start, NoAuth, Blank, Steady
<1>3. \A d \in Client \ {c}, x \in Tok : Steady(d) /\ Keeps(d, x) => Live(x)'
  BY <1>2 DEF Undisturbed, KeptLive, Live
<1>4. ASSUME Steady(c)', NEW x \in Tok, Keeps(c, x)' PROVE Live(x)' /\ Keeps(c, x)
  <2>1. \A y \in Call \ {q} : call[y].client # c /\ call'[y].client # c
    BY <1>2, <1>4
  <2>2. jar[c].tok = x
    BY <1>2, <1>4, <2>1, KeptByOne DEF At
  <2>3. Keeps(c, x)
    BY <1>0, <1>2, <2>1, <2>2, KeptByOne DEF At
  <2> QED BY <1>2, <1>4, <2>3 DEF Undisturbed, KeptLive, Live
<1> QED BY <1>0, <1>1, <1>2, <1>3, <1>4, LocalStep DEF Refused, Presenting

\* The answer's cookies reach the jar, or are cleared there.
LEMMA ReceiveUndisturbed ==
  ASSUME SessionInv, Undisturbed, NEW q \in Call, ReceiveCookies(q) \/ ReceiveClear(q)
  PROVE  Undisturbed'
<1>0. /\ call \in [Call -> CallRecord] /\ jar \in [Client -> Jar]
      /\ None \notin Client /\ None \notin Tok
  BY OverlapTypes
<1>1. PICK c \in Client : call[q].client = c
  BY DEF SessionInv, Typing, CallShape, Shape, ReceiveCookies, ReceiveClear
<1>2. /\ call'[q].client \in {c, None} /\ call'[q].pc \in {"idle", "retry"}
      /\ \A x \in Call \ {q} : call'[x] = call[x]
      /\ \A d \in Client \ {c} : jar'[d] = jar[d]
      /\ UNCHANGED <<tokens, overlapped>>
      /\ \/ call[q].pc \in {"in", "set"} /\ jar'[c].tok = call[q].tok
         \/ jar'[c].tok = None
  BY <1>0, <1>1 DEF ReceiveCookies, ReceiveClear, Quit, Goto, NoCall, EmptyJar, NoAuth, CallRecord
<1>3. \A d \in Client \ {c}, t \in Tok : Steady(d) /\ Keeps(d, t) => Live(t)'
  BY <1>2 DEF Undisturbed, KeptLive, Live
<1>4. Steady(c)' <=> Steady(c)
  BY <1>2 DEF Steady
<1>5. ASSUME Steady(c)
      PROVE  /\ \A x \in Call \ {q} : call[x].client # c
             /\ \A t \in Tok : Keeps(c, t)' => Live(t)' /\ Keeps(c, t)
  <2>1. \A x \in Call \ {q} : call[x].client # c /\ call'[x].client # c
    BY <1>1, <1>2, <1>5, SteadyCall
  <2>2. ASSUME NEW t \in Tok, Keeps(c, t)' PROVE Live(t)' /\ Keeps(c, t)
    <3>1. jar'[c].tok = t
      BY <1>2, <2>1, <2>2, KeptByOne DEF At
    <3>2. Keeps(c, t)
      BY <1>0, <1>1, <1>2, <3>1 DEF Keeps, At
    <3> QED BY <1>2, <1>5, <3>2 DEF Undisturbed, KeptLive, Live
  <2> QED BY <2>1, <2>2
<1> QED BY <1>1, <1>2, <1>3, <1>4, <1>5, LocalStep DEF Refused, Presenting

\* The gateway lets the call pass, refuses it, or makes the browser refresh.
LEMMA GatewayUndisturbed ==
  ASSUME SessionInv, Undisturbed, NEW q \in Call, Gateway(q)
  PROVE  Undisturbed'
<1>0. call \in [Call -> CallRecord]
  BY OverlapTypes
<1>1. PICK c \in Client : call[q].client = c
  BY DEF SessionInv, Typing, CallShape, Shape, Gateway
<1>2. CASE Quit(q)
  <2>1. call'[q].client = None /\ call'[q].pc = "idle" /\ \A x \in Call \ {q} : call'[x] = call[x]
    BY <1>0, <1>2 DEF Quit, NoCall
  <2> QED BY <1>1, <2>1, MovesOn DEF Gateway, NoAuth, Presenting, Refused
<1>3. CASE ~Quit(q)
  <2>1. /\ call'[q].client = c /\ call'[q].pc = "lookup" /\ call'[q].tok = jar[c].tok
        /\ \A x \in Call \ {q} : call'[x] = call[x]
    BY <1>0, <1>1, <1>3 DEF Gateway, CallRecord
  <2> QED BY <1>1, <2>1, MovesOn DEF Gateway, NoAuth, Refused
<1> QED BY <1>2, <1>3

\* An access cookie that expires leaves the refresh tokens where they are.
LEMMA ExpiryUndisturbed ==
  ASSUME SessionInv, Undisturbed, UNCHANGED <<call, tokens, overlapped>>,
         \A c \in Client : jar'[c].tok = jar[c].tok
  PROVE  Undisturbed'
<1>1. \A c \in Client, t \in Tok : Keeps(c, t)' <=> Keeps(c, t)
  BY DEF Keeps, At
<1>2. \A c \in Client : Steady(c)' <=> Steady(c)
  BY DEF Steady
<1>3. OneCall' /\ NoneRefused' /\ CookieCurrent'
  BY <1>2 DEF Undisturbed, OneCall, NoneRefused, CookieCurrent, At
<1>4. KeptLive' /\ KeptApart'
  BY <1>1, <1>2 DEF Undisturbed, KeptLive, KeptApart, Live
<1> QED BY <1>3, <1>4 DEF Undisturbed

LEMMA OverlapInvariant == Spec => [](OverlapInv /\ Blank)
<1>1. Init => OverlapInv /\ Blank
  <2> SUFFICES ASSUME Init PROVE OverlapInv /\ Blank
    OBVIOUS
  <2>1. SessionInv
    BY SessionInit
  <2>2. /\ \A q \in Call : call[q].pc = "idle" /\ call[q].client = None
        /\ \A c \in Client : jar[c].tok = None
    BY DEF Init, AuthInit, NoCall, EmptyJar
  <2>3. \A c \in Client, t \in Tok : ~Keeps(c, t)
    BY <2>2, AuthNoneAssumption DEF Keeps, At
  <2>4. Undisturbed
    BY <2>2, <2>3, AuthNoneAssumption
    DEF Undisturbed, OneCall, NoneRefused, CookieCurrent, KeptLive, KeptApart, At, Refused, Presenting
  <2> QED BY <2>1, <2>2, <2>4 DEF OverlapInv, Blank
<1>2. OverlapInv /\ Blank /\ [Next]_vars => OverlapInv' /\ Blank'
  <2> SUFFICES ASSUME OverlapInv, Blank, [Next]_vars PROVE OverlapInv' /\ Blank'
    OBVIOUS
  <2>1. SessionInv' /\ Blank'
    BY SessionStep, BlankStep DEF OverlapInv
  <2>2. ASSUME faults' = 0 PROVE Undisturbed'
    <3>0. faults \in Nat /\ jar \in [Client -> Jar]
      BY OverlapTypes DEF OverlapInv
    <3>1. ASSUME NEW q \in Call, Lost(q) PROVE FALSE
      BY <2>2, <3>0, <3>1 DEF Lost
    <3>2. faults = 0
      BY <2>2, <3>1
      DEF Next, SignIn, SignOut, CallApi, Start, AuthStep, Lookup, ReadUser, Rotate, BurnStart,
        BurnCommit, ReadLogin, Issue, Logout, Gateway, ReceiveCookies, ReceiveClear,
        AccessExpires, NoAuth, vars, authVars
    <3>3. SessionInv /\ Undisturbed
      BY <3>2 DEF OverlapInv
    <3>4. ASSUME NEW q \in Call, NEW c \in Client, SignIn(q, c) \/ SignOut(q, c) \/ CallApi(q, c)
          PROVE  Undisturbed'
      BY <3>3, <3>4, StartUndisturbed
    <3>5. ASSUME NEW q \in Call, AuthStep(q), UNCHANGED <<jar, overlapped>> PROVE Undisturbed'
      BY <3>1, <3>3, <3>5, AuthUndisturbed
    <3>6. ASSUME NEW q \in Call, Gateway(q) \/ ReceiveCookies(q) \/ ReceiveClear(q) PROVE Undisturbed'
      BY <3>3, <3>6, GatewayUndisturbed, ReceiveUndisturbed
    <3>7. ASSUME NEW c \in Client, AccessExpires(c) PROVE Undisturbed'
      <4>1. /\ \A d \in Client : jar'[d].tok = jar[d].tok
            /\ UNCHANGED <<call, tokens, overlapped>>
        BY <3>0, <3>7 DEF AccessExpires, Jar, authVars
      <4> QED BY <3>3, <4>1, ExpiryUndisturbed
    <3>8. CASE UNCHANGED vars
      BY <3>3, <3>8, ExpiryUndisturbed DEF vars, authVars
    <3> QED BY <3>4, <3>5, <3>6, <3>7, <3>8 DEF Next
  <2> QED BY <2>1, <2>2 DEF OverlapInv
<1> QED BY <1>1, <1>2, PTL DEF Spec

(* WebSessions!OnlyOverlapSignsOut: with no answer lost, a refresh is turned *)
(* away (auth.ts:153, 195) only for a user one of whose browsers had two     *)
(* calls in flight, however many browsers sign in, refresh and sign out.     *)
THEOREM OverlapSignsOut == Spec => []OnlyOverlapSignsOut
<1>1. OverlapInv => OnlyOverlapSignsOut
  <2> SUFFICES ASSUME OverlapInv, faults = 0, NEW q \in Call, call[q].pc = "clear"
               PROVE  Caller(q) \in overlapped
    BY DEF OnlyOverlapSignsOut
  <2>1. PICK c \in Client : call[q].client = c
    BY DEF OverlapInv, SessionInv, Typing, CallShape, Shape
  <2> QED BY <2>1 DEF OverlapInv, Undisturbed, NoneRefused, At, Refused, Steady, Caller
<1> QED BY <1>1, OverlapInvariant, PTL
=============================================================================
