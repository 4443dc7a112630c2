--------------------------- MODULE SessionProofs ----------------------------
(* What TLAPS proves of WebSessions, for every number of browsers, calls,  *)
(* users, tokens and failures.                                             *)
EXTENDS WebSessions, TLAPS

\* A call in flight has a browser; past the lookup it has a token.
Shape(r) ==
  /\ r.pc # "idle" => r.client \in Client
  /\ r.pc \in {"user", "rotate", "burn", "burning", "in", "set"} => r.tok \in Tok

CallShape == \A q \in Call : Shape(call[q])

\* An access token in a jar came with a refresh token.
JarShape == \A c \in Client : jar[c].access # None => jar[c].tok \in Tok

Typing == TypeOK /\ CallShape /\ JarShape

-----------------------------------------------------------------------------
\* Writing one well-formed record into the calls.
LEMMA CallTyped ==
  ASSUME Typing, NEW q \in Call, NEW r \in CallRecord, Shape(r),
         call' = [call EXCEPT ![q] = r]
  PROVE  call' \in [Call -> CallRecord] /\ CallShape'
  BY DEF Typing, TypeOK, AuthTypeOK, CallShape, Shape

\* A call that moves on keeps its token and its browser.
LEMMA GotoTyped ==
  ASSUME Typing, NEW q \in Call, NEW pc \in CallPc, call[q].client \in Client,
         pc \in {"user", "rotate", "burn", "burning", "in", "set"} => call[q].tok \in Tok,
         Goto(q, pc)
  PROVE  call' \in [Call -> CallRecord] /\ CallShape'
<1> DEFINE r == [call[q] EXCEPT !.pc = pc]
<1>1. call[q] \in CallRecord
  BY DEF Typing, TypeOK, AuthTypeOK
<1>2. r \in CallRecord /\ Shape(r)
  BY <1>1 DEF CallRecord, Shape
<1>3. call' = [call EXCEPT ![q] = r]
  BY DEF Goto
<1> QED BY <1>2, <1>3, CallTyped

LEMMA QuitTyped ==
  ASSUME Typing, NEW q \in Call, Quit(q)
  PROVE  call' \in [Call -> CallRecord] /\ CallShape'
<1>1. NoCall \in CallRecord /\ Shape(NoCall)
  BY DEF NoCall, CallRecord, CallPc, Shape
<1> QED BY <1>1, CallTyped DEF Quit

LEMMA AnswerTyped ==
  ASSUME Typing, NEW q \in Call, NEW pc \in {"in", "set"}, NEW t \in Tok, NEW v \in Nat,
         call[q].client \in Client, AnswerWith(q, pc, t, v)
  PROVE  call' \in [Call -> CallRecord] /\ CallShape'
<1> DEFINE r == [pc |-> pc, client |-> call[q].client, tok |-> t, ver |-> v, doomed |-> {}]
<1>1. r \in CallRecord /\ Shape(r)
  BY DEF CallRecord, CallPc, AnswerPc, Shape
<1> QED BY <1>1, CallTyped DEF AnswerWith

LEMMA RevokedTyped ==
  ASSUME tokens \in [Tok -> RefreshToken], NEW T
  PROVE  Revoked(T) \in [Tok -> RefreshToken]
  BY DEF Revoked, RefreshToken

LEMMA CallerTyped ==
  ASSUME Typing, NEW q \in Call, call[q].pc # "idle"
  PROVE  call[q].client \in Client /\ Caller(q) \in User /\ version[Caller(q)] \in Nat
  BY OwnerAssumption DEF Typing, TypeOK, AuthTypeOK, CallShape, Shape, Caller

LEMMA TypingInit == Init => Typing
<1> SUFFICES ASSUME Init PROVE Typing
  OBVIOUS
<1>1. NoCall \in CallRecord /\ Shape(NoCall)
  BY DEF NoCall, CallRecord, CallPc, Shape
<1>2. AuthTypeOK
  BY <1>1, AuthFaultsAssumption DEF Init, AuthInit, AuthTypeOK, RefreshToken
<1>3. CallShape
  BY <1>1 DEF Init, AuthInit, CallShape
<1>4. jar \in [Client -> Jar] /\ JarShape
  BY DEF Init, Jar, EmptyJar, JarShape
<1> QED BY <1>2, <1>3, <1>4 DEF Typing, TypeOK, Init

\* Each request of auth-svc leaves the types as they are.
LEMMA AuthTyping ==
  ASSUME Typing, NEW q \in Call, AuthStep(q), UNCHANGED <<jar, overlapped>>
  PROVE  Typing'
<1> DEFINE CallOK == call' \in [Call -> CallRecord] /\ CallShape'
           RestOK == /\ version' \in [User -> Nat] /\ tokens' \in [Tok -> RefreshToken]
                     /\ faults' \in 0 .. MaxFaults
<1>0. SUFFICES CallOK /\ RestOK
  BY DEF Typing, TypeOK, AuthTypeOK, JarShape
<1>a. /\ version \in [User -> Nat] /\ tokens \in [Tok -> RefreshToken]
      /\ faults \in 0 .. MaxFaults /\ call[q] \in CallRecord /\ Shape(call[q])
  BY DEF Typing, TypeOK, AuthTypeOK, CallShape
<1>b. call[q].pc # "idle"
  BY DEF AuthStep, Lookup, ReadUser, Rotate, BurnStart, BurnCommit, ReadLogin, Issue, Logout,
    Lost, ServerPc, AnswerPc
<1>c. call[q].client \in Client /\ Caller(q) \in User /\ version[Caller(q)] \in Nat
  BY <1>b, CallerTyped
<1>d. version' = version \/ Bump(Caller(q)) => version' \in [User -> Nat]
  BY <1>a, <1>c DEF Bump
<1> USE DEF CallPc, ServerPc, AnswerPc
<1>1. CASE Lookup(q)
  <2>1. CallOK
    BY <1>1, <1>a, <1>c, QuitTyped, GotoTyped DEF Lookup, CallRecord
  <2> QED BY <1>1, <1>a, <2>1 DEF Lookup
<1>2. CASE ReadUser(q)
  <2> DEFINE r == [call[q] EXCEPT !.pc = "rotate", !.ver = version[Caller(q)]]
  <2>1. r \in CallRecord /\ Shape(r)
    BY <1>2, <1>a, <1>c DEF ReadUser, CallRecord, Shape
  <2>2. call' = [call EXCEPT ![q] = r]
    BY <1>2 DEF ReadUser
  <2>3. CallOK
    BY <2>1, <2>2, CallTyped
  <2> QED BY <1>2, <1>a, <2>3 DEF ReadUser
<1>3. CASE Rotate(q)
  <2>1. call[q].ver \in Nat /\ call[q].tok \in Tok
    BY <1>3, <1>a DEF Rotate, Shape, CallRecord
  <2>2. CallOK
    BY <1>3, <2>1, <1>c, QuitTyped, GotoTyped, AnswerTyped DEF Rotate, Unissued
  <2>3. tokens' \in [Tok -> RefreshToken]
    BY <1>3, <1>a, <1>c, <2>1, RevokedTyped DEF Rotate, Unissued, RefreshToken
  <2> QED BY <1>3, <1>a, <2>2, <2>3 DEF Rotate
<1>4. CASE BurnStart(q)
  <2> DEFINE D == {t \in Tok : Live(t) /\ tokens[t].user = Caller(q)}
             r == [call[q] EXCEPT !.pc = "burning", !.doomed = D]
  <2>1. D \in SUBSET Tok
    OBVIOUS
  <2> HIDE DEF D
  <2>2. r \in CallRecord /\ Shape(r)
    BY <1>4, <1>a, <1>c, <2>1 DEF BurnStart, CallRecord, Shape
  <2>3. call' = [call EXCEPT ![q] = r]
    BY <1>4 DEF BurnStart, D
  <2>4. CallOK
    BY <2>2, <2>3, CallTyped
  <2> QED BY <1>4, <1>a, <2>4 DEF BurnStart
<1>5. CASE BurnCommit(q)
  <2> DEFINE r == [call[q] EXCEPT !.pc = "clear", !.doomed = {}]
  <2>1. r \in CallRecord /\ Shape(r)
    BY <1>a, <1>c DEF CallRecord, Shape
  <2>2. call' = [call EXCEPT ![q] = r]
    BY <1>5 DEF BurnCommit
  <2>3. CallOK
    BY <2>1, <2>2, CallTyped
  <2> QED BY <1>5, <1>a, <1>d, <2>3, RevokedTyped DEF BurnCommit
<1>6. CASE ReadLogin(q)
  <2> DEFINE r == [call[q] EXCEPT !.pc = "issue", !.ver = version[Caller(q)]]
  <2>1. r \in CallRecord /\ Shape(r)
    BY <1>a, <1>c DEF CallRecord, Shape
  <2>2. call' = [call EXCEPT ![q] = r]
    BY <1>6 DEF ReadLogin
  <2>3. CallOK
    BY <2>1, <2>2, CallTyped
  <2> QED BY <1>6, <1>a, <2>3 DEF ReadLogin
<1>7. CASE Issue(q)
  <2>1. call[q].ver \in Nat
    BY <1>a DEF CallRecord
  <2>2. CallOK
    BY <1>7, <2>1, <1>c, QuitTyped, AnswerTyped DEF Issue, Unissued
  <2>3. tokens' \in [Tok -> RefreshToken]
    BY <1>7, <1>a, <1>c DEF Issue, Unissued, RefreshToken
  <2> QED BY <1>7, <1>a, <2>2, <2>3 DEF Issue
<1>8. CASE Logout(q)
  <2>1. CallOK
    BY <1>8, <1>c, GotoTyped DEF Logout
  <2> QED BY <1>8, <1>a, <1>d, <2>1, RevokedTyped DEF Logout
<1>9. CASE Lost(q)
  <2>1. CallOK
    BY <1>9, QuitTyped DEF Lost
  <2> QED BY <1>9, <1>a, <2>1, AuthFaultsAssumption DEF Lost
<1> QED BY <1>1, <1>2, <1>3, <1>4, <1>5, <1>6, <1>7, <1>8, <1>9 DEF AuthStep

LEMMA TypingStep == Typing /\ [Next]_vars => Typing'
<1> SUFFICES ASSUME Typing, [Next]_vars PROVE Typing'
  OBVIOUS
<1> USE DEF TypeOK, AuthTypeOK
<1>1. ASSUME NEW q \in Call, NEW c \in Client, SignIn(q, c) \/ SignOut(q, c) \/ CallApi(q, c)
      PROVE  Typing'
  <2>1. PICK pc \in {"login", "logout", "api"}, t \in Tok \cup {None}, v \in Nat :
          Start(q, c, pc, t, v)
    BY <1>1 DEF Typing, JarShape, SignIn, SignOut, CallApi, Access, Jar
  <2> DEFINE r == [pc |-> pc, client |-> c, tok |-> t, ver |-> v, doomed |-> {}]
  <2>2. r \in CallRecord /\ Shape(r)
    BY DEF CallRecord, CallPc, ServerPc, Shape
  <2>3. call' \in [Call -> CallRecord] /\ CallShape'
    BY <2>1, <2>2, CallTyped DEF Start
  <2> QED BY <2>1, <2>3, OwnerAssumption DEF Typing, JarShape, Start, NoAuth
<1>2. ASSUME NEW q \in Call, AuthStep(q), UNCHANGED <<jar, overlapped>>
      PROVE  Typing'
  BY <1>2, AuthTyping
<1>3. ASSUME NEW q \in Call, Gateway(q) PROVE Typing'
  <2>1. CASE Quit(q)
    BY <1>3, <2>1, QuitTyped DEF Gateway, Typing, JarShape, NoAuth
  <2>2. CASE ~Quit(q)
    <3> DEFINE r == [call[q] EXCEPT !.pc = "lookup", !.tok = jar[call[q].client].tok, !.ver = 0]
    <3>1. call[q] \in CallRecord /\ call[q].client \in Client
      BY <1>3, <2>2, CallerTyped DEF Typing, Gateway
    <3>2. jar[call[q].client].tok \in Tok \cup {None}
      BY <3>1 DEF Typing, Jar
    <3>3. r \in CallRecord /\ Shape(r)
      BY <3>1, <3>2 DEF CallRecord, CallPc, ServerPc, Shape
    <3>4. call' = [call EXCEPT ![q] = r]
      BY <1>3, <2>2 DEF Gateway
    <3>5. call' \in [Call -> CallRecord] /\ CallShape'
      BY <3>3, <3>4, CallTyped
    <3> QED BY <1>3, <3>5 DEF Gateway, Typing, JarShape, NoAuth
  <2> QED BY <2>1, <2>2
<1>4. ASSUME NEW q \in Call, ReceiveCookies(q) PROVE Typing'
  <2>1. call[q].client \in Client /\ call[q].tok \in Tok /\ call[q].ver \in Nat
    BY <1>4 DEF ReceiveCookies, Typing, CallShape, Shape, CallRecord
  <2>2. call' \in [Call -> CallRecord] /\ CallShape'
    BY <1>4, <2>1, QuitTyped, GotoTyped DEF ReceiveCookies, CallPc
  <2>3. jar' \in [Client -> Jar] /\ JarShape'
    BY <1>4, <2>1 DEF ReceiveCookies, Typing, Jar, JarShape
  <2> QED BY <1>4, <2>2, <2>3 DEF ReceiveCookies, Typing, NoAuth
<1>5. ASSUME NEW q \in Call, ReceiveClear(q) PROVE Typing'
  <2>1. jar' \in [Client -> Jar] /\ JarShape'
    BY <1>5 DEF ReceiveClear, Typing, Jar, EmptyJar, JarShape
  <2> QED BY <1>5, <2>1, QuitTyped DEF ReceiveClear, Typing, NoAuth
<1>6. ASSUME NEW c \in Client, AccessExpires(c) PROVE Typing'
  BY <1>6 DEF AccessExpires, authVars, Jar, JarShape, Typing, CallShape
<1>7. CASE UNCHANGED vars
  BY <1>7 DEF vars, authVars, Typing, CallShape, JarShape
<1> QED BY <1>1, <1>2, <1>3, <1>4, <1>5, <1>6, <1>7 DEF Next

\* WebSessions!TypeOK: tokens, versions, calls and cookies keep their types.
THEOREM SessionTypes == Spec => []TypeOK
<1>1. Typing => TypeOK
  BY DEF Typing
<1> QED BY <1>1, TypingInit, TypingStep, PTL DEF Spec

-----------------------------------------------------------------------------
Issued(t) == tokens[t].state # "none"

\* t, if it is a token, is one of u's.
Ours(t, u) == t \in Tok => Issued(t) /\ tokens[t].user = u

\* A session is named by an issued token of the same user.
TokensOwned ==
  \A t \in Tok : Issued(t) =>
    /\ tokens[t].session \in Tok /\ tokens[t].user \in User
    /\ Ours(tokens[t].session, tokens[t].user)

\* An access token of version v that came with t: see AccessNeedsSession.
Backed(t, v) ==
  v = version[tokens[t].user] =>
    \E x \in Tok : Live(x) /\ tokens[x].session = tokens[t].session

CallFine(r) ==
  r.pc # "idle" =>
    /\ Ours(r.tok, Owner(r.client))
    /\ r.ver <= version[Owner(r.client)]
    /\ \A t \in r.doomed : Ours(t, Owner(r.client))
    /\ r.pc \in {"api", "retry", "set", "in"} /\ r.tok # None => Backed(r.tok, r.ver)

JarFine(c, j) ==
  /\ Ours(j.tok, Owner(c))
  /\ j.access # None => j.access <= version[Owner(c)] /\ Backed(j.tok, j.access)

\* The inductive invariant: what is carried about was true once, and an end of
\* a session raises the version above all that is carried about of its user.
SessionInv ==
  /\ Typing /\ TokensOwned /\ OneLivePerSession
  /\ \A q \in Call : CallFine(call[q])
  /\ \A c \in Client : JarFine(c, jar[c])

\* The ways in which a step may change the tables.
Replaced(t, n) ==
  /\ Live(t) /\ ~Issued(n) /\ version' = version
  /\ tokens' = [Revoked({t}) EXCEPT ![n] =
                  [state |-> "live", user |-> tokens[t].user, session |-> tokens[t].session]]

SignedIn(n, u) ==
  /\ ~Issued(n) /\ version' = version
  /\ tokens' = [tokens EXCEPT ![n] = [state |-> "live", user |-> u, session |-> n]]

Ended(T, u) ==
  (\A t \in T : Ours(t, u)) /\ tokens' = Revoked(T) /\ Bump(u)

TokenStep ==
  \/ UNCHANGED <<tokens, version>>
  \/ \E t, n \in Tok : Replaced(t, n)
  \/ \E n \in Tok, u \in User : SignedIn(n, u)
  \/ \E T \in SUBSET Tok, u \in User : Ended(T, u)

LEMMA NextTokens == SessionInv /\ [Next]_vars => TokenStep
<1> SUFFICES ASSUME SessionInv, [Next]_vars PROVE TokenStep
  OBVIOUS
<1>1. ASSUME NEW q \in Call, AuthStep(q) PROVE TokenStep
  <2>a. call[q].pc # "idle"
    BY <1>1 DEF AuthStep, Lookup, ReadUser, Rotate, BurnStart, BurnCommit, ReadLogin, Issue,
      Logout, Lost, ServerPc, AnswerPc
  <2>b. /\ call[q].client \in Client /\ Caller(q) \in User
        /\ call[q] \in CallRecord /\ Shape(call[q])
    BY <2>a, CallerTyped DEF SessionInv, Typing, TypeOK, AuthTypeOK, CallShape
  <2>c. Ours(call[q].tok, Caller(q)) /\ \A t \in call[q].doomed : Ours(t, Caller(q))
    BY <2>a DEF SessionInv, CallFine, Caller
  <2>1. CASE Rotate(q)
    <3>1. call[q].tok \in Tok /\ tokens[call[q].tok].user = Caller(q)
      BY <2>1, <2>b, <2>c DEF Rotate, Shape, Ours
    <3> QED BY <2>1, <3>1 DEF Rotate, TokenStep, Replaced, Unissued, Issued
  <2>2. CASE BurnCommit(q)
    <3>1. call[q].doomed \in SUBSET Tok
      BY <2>b DEF CallRecord
    <3> QED BY <2>2, <2>b, <2>c, <3>1 DEF BurnCommit, TokenStep, Ended
  <2>3. CASE Issue(q)
    BY <2>3, <2>b DEF Issue, TokenStep, SignedIn, Unissued, Issued
  <2>4. CASE Logout(q)
    <3>1. CASE call[q].tok = None
      BY <2>4, <3>1 DEF Logout, TokenStep
    <3>2. CASE call[q].tok # None
      <4>1. {call[q].tok} \in SUBSET Tok
        BY <2>b, <3>2 DEF CallRecord
      <4> QED BY <2>4, <2>b, <2>c, <3>2, <4>1 DEF Logout, TokenStep, Ended
    <3> QED BY <3>1, <3>2
  <2>5. CASE Lookup(q) \/ ReadUser(q) \/ BurnStart(q) \/ ReadLogin(q) \/ Lost(q)
    BY <2>5 DEF Lookup, ReadUser, BurnStart, ReadLogin, Lost, TokenStep
  <2> QED BY <1>1, <2>1, <2>2, <2>3, <2>4, <2>5 DEF AuthStep
<1>2. ASSUME ~ \E q \in Call : AuthStep(q) PROVE UNCHANGED <<tokens, version>>
  BY <1>2 DEF Next, SignIn, SignOut, CallApi, Start, Gateway, ReceiveCookies, ReceiveClear,
    AccessExpires, NoAuth, vars, authVars
<1> QED BY <1>1, <1>2 DEF TokenStep

-----------------------------------------------------------------------------
\* Tokens stay issued, to the same user and in the same session; versions grow.
LEMMA Stable ==
  ASSUME Typing, TokenStep
  PROVE  /\ \A t \in Tok : Issued(t) => /\ Issued(t)'
                                        /\ tokens'[t].user = tokens[t].user
                                        /\ tokens'[t].session = tokens[t].session
         /\ \A u \in User : version[u] \in Nat /\ version'[u] \in Nat /\ version[u] <= version'[u]
<1>1. version \in [User -> Nat] /\ tokens \in [Tok -> RefreshToken]
  BY DEF Typing, TypeOK, AuthTypeOK
<1>2. CASE UNCHANGED <<tokens, version>>
  BY <1>1, <1>2 DEF Issued
<1>3. ASSUME NEW t \in Tok, NEW n \in Tok, Replaced(t, n)
      PROVE  \A x \in Tok : Issued(x) => Issued(x)' /\ tokens'[x].user = tokens[x].user
                                        /\ tokens'[x].session = tokens[x].session
  BY <1>1, <1>3 DEF Replaced, Issued, Revoked, RefreshToken
<1>4. ASSUME NEW n \in Tok, NEW u \in User, SignedIn(n, u)
      PROVE  \A x \in Tok : Issued(x) => Issued(x)' /\ tokens'[x].user = tokens[x].user
                                        /\ tokens'[x].session = tokens[x].session
  BY <1>1, <1>4 DEF SignedIn, Issued, RefreshToken
<1>5. ASSUME NEW T \in SUBSET Tok, NEW u \in User, Ended(T, u)
      PROVE  /\ \A x \in Tok : Issued(x) => Issued(x)' /\ tokens'[x].user = tokens[x].user
                                        /\ tokens'[x].session = tokens[x].session
             /\ \A w \in User : version'[w] \in Nat /\ version[w] <= version'[w]
  <2>1. \A x \in Tok : Issued(x) => Issued(x)' /\ tokens'[x].user = tokens[x].user
                                        /\ tokens'[x].session = tokens[x].session
    <3> SUFFICES ASSUME NEW x \in Tok, Issued(x)
                 PROVE  Issued(x)' /\ tokens'[x].user = tokens[x].user
                          /\ tokens'[x].session = tokens[x].session
      OBVIOUS
    <3>1. CASE x \in T
      BY <1>1, <1>5, <3>1 DEF Ended, Issued, Revoked, RefreshToken
    <3>2. CASE x \notin T
      BY <1>1, <1>5, <3>2 DEF Ended, Issued, Revoked
    <3> QED BY <3>1, <3>2
  <2>2. \A w \in User : version'[w] \in Nat /\ version[w] <= version'[w]
    BY <1>1, <1>5 DEF Ended, Bump
  <2> QED BY <2>1, <2>2
<1>6. (\E t, n \in Tok : Replaced(t, n)) \/ (\E n \in Tok, u \in User : SignedIn(n, u))
        => version' = version
  BY DEF Replaced, SignedIn
<1> QED BY <1>1, <1>2, <1>3, <1>4, <1>5, <1>6 DEF TokenStep

LEMMA OwnedStep ==
  ASSUME Typing, TokensOwned, TokenStep
  PROVE  TokensOwned'
<1>1. tokens \in [Tok -> RefreshToken]
  BY DEF Typing, TypeOK, AuthTypeOK
<1>2. SUFFICES ASSUME NEW x \in Tok, Issued(x)'
               PROVE  /\ tokens'[x].session \in Tok /\ tokens'[x].user \in User
                      /\ tokens'[tokens'[x].session].state # "none"
                      /\ tokens'[tokens'[x].session].user = tokens'[x].user
  BY DEF TokensOwned, Ours, Issued
<1>3. CASE Issued(x)
  BY <1>3, Stable DEF TokensOwned, Ours, Issued
<1>4. CASE ~Issued(x)
  <2>1. ASSUME NEW t \in Tok, Replaced(t, x)
        PROVE  /\ tokens'[x].session = tokens[t].session /\ tokens'[x].user = tokens[t].user
               /\ Issued(t)
    BY <1>1, <2>1 DEF Replaced, Revoked, Issued, Live
  <2>2. ASSUME NEW u \in User, SignedIn(x, u)
        PROVE  tokens'[x].session = x /\ tokens'[x].user = u
    BY <1>1, <2>2 DEF SignedIn
  <2>3. (\E t \in Tok : Replaced(t, x)) \/ (\E u \in User : SignedIn(x, u))
    <3>1. ASSUME NEW t \in Tok, NEW n \in Tok, Replaced(t, n) PROVE x = n
      BY <1>1, <1>2, <1>4, <3>1 DEF Replaced, Revoked, Issued, Live
    <3>2. ASSUME NEW n \in Tok, NEW u \in User, SignedIn(n, u) PROVE x = n
      BY <1>1, <1>2, <1>4, <3>2 DEF SignedIn, Issued
    <3>3. ASSUME NEW T \in SUBSET Tok, NEW u \in User, Ended(T, u) PROVE FALSE
      BY <1>1, <1>2, <1>4, <3>3 DEF Ended, Revoked, Issued, Ours
    <3>4. ~ UNCHANGED <<tokens, version>>
      BY <1>2, <1>4 DEF Issued
    <3> QED BY <3>1, <3>2, <3>3, <3>4 DEF TokenStep
  <2>4. ASSUME NEW t \in Tok, Replaced(t, x)
        PROVE  /\ tokens'[x].session \in Tok /\ tokens'[x].user \in User
               /\ tokens'[tokens'[x].session].state # "none"
               /\ tokens'[tokens'[x].session].user = tokens'[x].user
    BY <2>1, <2>4, Stable DEF TokensOwned, Ours, Issued
  <2> QED BY <1>2, <2>2, <2>3, <2>4 DEF Issued
<1> QED BY <1>3, <1>4

LEMMA OneLiveStep ==
  ASSUME Typing, TokensOwned, OneLivePerSession, TokenStep
  PROVE  OneLivePerSession'
<1>1. tokens \in [Tok -> RefreshToken]
  BY DEF Typing, TypeOK, AuthTypeOK
<1>2. ASSUME NEW t \in Tok, NEW n \in Tok, Replaced(t, n) PROVE OneLivePerSession'
  <2>1. \A x \in Tok : Live(x)' => x = n \/ (Live(x) /\ x # t /\ tokens'[x].session = tokens[x].session)
    BY <1>1, <1>2 DEF Replaced, Revoked, Live, Issued, RefreshToken
  <2>2. tokens'[n].session = tokens[t].session /\ Live(t)
    BY <1>1, <1>2 DEF Replaced, Revoked
  <2> QED BY <2>1, <2>2 DEF OneLivePerSession, Live
<1>3. ASSUME NEW n \in Tok, NEW u \in User, SignedIn(n, u) PROVE OneLivePerSession'
  <2>1. \A x \in Tok : Live(x)' => x = n \/ (Live(x) /\ tokens'[x].session = tokens[x].session)
    BY <1>1, <1>3 DEF SignedIn, Live
  <2>2. tokens'[n].session = n /\ \A x \in Tok : Live(x) => tokens[x].session # n
    BY <1>1, <1>3 DEF SignedIn, TokensOwned, Ours, Live, Issued
  <2> QED BY <2>1, <2>2 DEF OneLivePerSession, Live
<1>4. ASSUME NEW T \in SUBSET Tok, NEW u \in User, Ended(T, u) PROVE OneLivePerSession'
  <2>1. \A x \in Tok : Live(x)' => Live(x) /\ tokens'[x].session = tokens[x].session
    BY <1>1, <1>4 DEF Ended, Revoked, Live, RefreshToken
  <2> QED BY <2>1 DEF OneLivePerSession, Live
<1>5. CASE UNCHANGED <<tokens, version>>
  BY <1>5 DEF OneLivePerSession, Live
<1> QED BY <1>2, <1>3, <1>4, <1>5 DEF TokenStep

\* A session that loses its live token raises its user's version.
LEMMA BackedStep ==
  ASSUME Typing, TokensOwned, TokenStep,
         NEW t \in Tok, Issued(t), NEW v \in Nat, v <= version[tokens[t].user], Backed(t, v)
  PROVE  Backed(t, v)'
<1>1. version \in [User -> Nat] /\ tokens \in [Tok -> RefreshToken]
  BY DEF Typing, TypeOK, AuthTypeOK
<1>2. /\ tokens[t].user \in User /\ tokens'[t].user = tokens[t].user
      /\ tokens'[t].session = tokens[t].session
  BY Stable DEF TokensOwned
<1>3. SUFFICES ASSUME v = version'[tokens[t].user]
               PROVE  \E x \in Tok : Live(x)' /\ tokens'[x].session = tokens[t].session
  BY <1>2 DEF Backed, Live
<1>4. v = version[tokens[t].user]
  BY <1>2, <1>3, Stable
<1>5. PICK x \in Tok : Live(x) /\ tokens[x].session = tokens[t].session
  BY <1>4 DEF Backed
<1>6. CASE UNCHANGED <<tokens, version>>
  BY <1>5, <1>6 DEF Live
<1>7. ASSUME NEW a \in Tok, NEW n \in Tok, Replaced(a, n)
      PROVE  \E y \in Tok : Live(y)' /\ tokens'[y].session = tokens[t].session
  <2>1. CASE x = a
    <3>1. Live(n)' /\ tokens'[n].session = tokens[a].session
      BY <1>1, <1>7 DEF Replaced, Revoked, Live
    <3> QED BY <1>5, <2>1, <3>1
  <2>2. CASE x # a
    <3>1. Live(x)' /\ tokens'[x].session = tokens[x].session
      BY <1>1, <1>5, <1>7, <2>2 DEF Replaced, Revoked, Live, Issued
    <3> QED BY <1>5, <3>1
  <2> QED BY <2>1, <2>2
<1>8. ASSUME NEW n \in Tok, NEW u \in User, SignedIn(n, u)
      PROVE  \E y \in Tok : Live(y)' /\ tokens'[y].session = tokens[t].session
  <2>1. Live(x)' /\ tokens'[x].session = tokens[x].session
    BY <1>1, <1>5, <1>8 DEF SignedIn, Live, Issued
  <2> QED BY <1>5, <2>1
<1>9. ASSUME NEW T \in SUBSET Tok, NEW u \in User, Ended(T, u)
      PROVE  \E y \in Tok : Live(y)' /\ tokens'[y].session = tokens[t].session
  <2>1. tokens[t].user # u
    <3>1. version'[u] = version[u] + 1 /\ version[u] \in Nat
      BY <1>1, <1>9 DEF Ended, Bump
    <3>2. ASSUME tokens[t].user = u PROVE FALSE
      <4>1. v = version[u] /\ v = version'[u]
        BY <1>3, <1>4, <3>2
      <4> QED BY <3>1, <4>1
    <3> QED BY <3>2
  <2>2. tokens[x].user = tokens[t].user
    BY <1>5 DEF TokensOwned, Ours, Live, Issued
  <2>3. x \notin T
    BY <1>9, <2>1, <2>2 DEF Ended, Ours
  <2>4. Live(x)' /\ tokens'[x].session = tokens[x].session
    BY <1>1, <1>5, <1>9, <2>3 DEF Ended, Revoked, Live
  <2> QED BY <1>5, <2>4
<1> QED BY <1>6, <1>7, <1>8, <1>9 DEF TokenStep

\* So what a call or a jar carries stays fine as long as it is carried.
LEMMA CallKept ==
  ASSUME Typing, TokensOwned, TokenStep, NEW r \in CallRecord, Shape(r), CallFine(r)
  PROVE  CallFine(r)'
<1> SUFFICES ASSUME r.pc # "idle" PROVE CallFine(r)'
  BY DEF CallFine
<1>1. r.client \in Client /\ Owner(r.client) \in User
  BY OwnerAssumption DEF Shape
<1>2. r.ver \in Nat /\ r.doomed \in SUBSET Tok /\ r.tok \in Tok \cup {None}
  BY DEF CallRecord
<1>3. Ours(r.tok, Owner(r.client))'
  BY Stable DEF CallFine, Ours
<1>4. \A t \in r.doomed : Ours(t, Owner(r.client))'
  BY <1>2, Stable DEF CallFine, Ours
<1>5. r.ver <= version'[Owner(r.client)]
  BY <1>1, <1>2, Stable DEF CallFine
<1>6. ASSUME r.pc \in {"api", "retry", "set", "in"}, r.tok # None PROVE Backed(r.tok, r.ver)'
  BY <1>2, <1>6, BackedStep DEF CallFine, Ours
<1> QED BY <1>3, <1>4, <1>5, <1>6 DEF CallFine

LEMMA JarKept ==
  ASSUME Typing, TokensOwned, TokenStep, NEW c \in Client, NEW j \in Jar,
         j.access # None => j.access \in Nat /\ j.tok \in Tok, JarFine(c, j)
  PROVE  JarFine(c, j)'
<1>1. Owner(c) \in User
  BY OwnerAssumption
<1>2. Ours(j.tok, Owner(c))'
  BY Stable DEF JarFine, Ours
<1>3. ASSUME j.access # None
      PROVE  j.access <= version'[Owner(c)] /\ Backed(j.tok, j.access)'
  BY <1>1, <1>3, Stable, BackedStep DEF JarFine, Ours
<1> QED BY <1>2, <1>3 DEF JarFine

\* It is enough to look at the call that moves, and at a jar that changes.
LEMMA CallsFine ==
  ASSUME SessionInv, TokenStep, NEW q \in Call,
         \A x \in Call \ {q} : call'[x] = call[x], CallFine(call[q])'
  PROVE  \A x \in Call : CallFine(call[x])'
<1> TAKE x \in Call
<1>1. CASE x # q
  <2>1. PICK r \in CallRecord : r = call[x]
    BY DEF SessionInv, Typing, TypeOK, AuthTypeOK
  <2>2. CallFine(r)'
    BY <2>1, CallKept DEF SessionInv, Typing, CallShape
  <2>3. call'[x] = r
    BY <1>1, <2>1
  <2> QED BY <2>2, <2>3 DEF CallFine
<1> QED BY <1>1

LEMMA JarsFine ==
  ASSUME SessionInv, TokenStep, NEW c \in Client, jar'[c] = jar[c]
  PROVE  JarFine(c, jar[c])'
<1>1. PICK j \in Jar : j = jar[c]
  BY DEF SessionInv, Typing, TypeOK
<1>2. JarFine(c, j)'
  BY <1>1, JarKept DEF SessionInv, Typing, JarShape, Jar
<1> QED BY <1>1, <1>2 DEF JarFine

\* A call that only moves on, or reads the version, carries nothing wrong.
LEMMA MovedFine ==
  ASSUME NEW r \in CallRecord, r.pc # "idle", CallFine(r)', NEW q \in Call,
         call'[q].client = r.client, call'[q].tok = r.tok,
         call'[q].ver = r.ver \/ call'[q].ver <= version'[Owner(r.client)],
         call'[q].doomed \subseteq r.doomed,
         call'[q].pc \notin {"api", "retry", "set", "in"}
  PROVE  CallFine(call[q])'
  BY DEF CallFine

\* What auth-svc does to a call.
LEMMA AuthCallFine ==
  ASSUME SessionInv, TokenStep, NEW q \in Call, AuthStep(q)
  PROVE  (\A x \in Call \ {q} : call'[x] = call[x]) /\ CallFine(call[q])'
<1>a. /\ call \in [Call -> CallRecord] /\ version \in [User -> Nat]
      /\ tokens \in [Tok -> RefreshToken] /\ Typing
  BY DEF SessionInv, Typing, TypeOK, AuthTypeOK
<1>b. call[q].pc # "idle"
  BY DEF AuthStep, Lookup, ReadUser, Rotate, BurnStart, BurnCommit, ReadLogin, Issue, Logout,
    Lost, ServerPc, AnswerPc
<1>c. PICK r \in CallRecord : r = call[q]
  BY <1>a
<1>d. /\ r.client \in Client /\ Owner(r.client) \in User /\ version[Owner(r.client)] \in Nat
      /\ Shape(r) /\ CallFine(r) /\ Caller(q) = Owner(r.client) /\ r.pc # "idle"
  BY <1>a, <1>b, <1>c, CallerTyped DEF SessionInv, Typing, CallShape, Caller
<1>e. CallFine(r)'
  BY <1>d, CallKept DEF SessionInv
<1>f. ASSUME Quit(q) PROVE (\A x \in Call \ {q} : call'[x] = call[x]) /\ CallFine(call[q])'
  BY <1>a, <1>f DEF Quit, NoCall, CallFine
<1>g. ASSUME NEW pc \in CallPc \ {"api", "retry", "set", "in"}, Goto(q, pc)
      PROVE  (\A x \in Call \ {q} : call'[x] = call[x]) /\ CallFine(call[q])'
  <2>1. /\ call'[q].client = r.client /\ call'[q].tok = r.tok /\ call'[q].ver = r.ver
        /\ call'[q].doomed = r.doomed /\ call'[q].pc = pc
        /\ \A x \in Call \ {q} : call'[x] = call[x]
    BY <1>a, <1>c, <1>g DEF Goto, CallRecord
  <2> QED BY <1>d, <1>e, <2>1, MovedFine
<1>h. ASSUME NEW pc \in {"in", "set"}, NEW n \in Tok, AnswerWith(q, pc, n, r.ver),
             tokens'[n].state = "live", tokens'[n].user = Owner(r.client)
      PROVE  (\A x \in Call \ {q} : call'[x] = call[x]) /\ CallFine(call[q])'
  <2>1. /\ call'[q] = [pc |-> pc, client |-> r.client, tok |-> n, ver |-> r.ver, doomed |-> {}]
        /\ \A x \in Call \ {q} : call'[x] = call[x]
    BY <1>a, <1>c, <1>h DEF AnswerWith
  <2>2. r.ver <= version'[Owner(r.client)]
    BY <1>d, <1>e DEF CallFine
  <2> QED BY <1>h, <2>1, <2>2 DEF CallFine, Ours, Issued, Backed, Live
\* A call that reads the version.
<1>i. ASSUME NEW pc \in {"rotate", "issue"}, version' = version,
             call' = [call EXCEPT ![q].pc = pc, ![q].ver = version[Caller(q)]]
      PROVE  (\A x \in Call \ {q} : call'[x] = call[x]) /\ CallFine(call[q])'
  <2>1. /\ call'[q].client = r.client /\ call'[q].tok = r.tok /\ call'[q].pc = pc
        /\ call'[q].doomed = r.doomed /\ call'[q].ver = version[Owner(r.client)]
        /\ \A x \in Call \ {q} : call'[x] = call[x]
    BY <1>a, <1>c, <1>d, <1>i DEF CallRecord
  <2>2. call'[q].ver <= version'[Owner(r.client)]
    BY <1>d, <1>i, <2>1
  <2> QED BY <1>d, <1>e, <1>i, <2>1, <2>2, MovedFine
<1> USE DEF CallPc, ServerPc, AnswerPc
<1>1. CASE Lookup(q)
  BY <1>1, <1>f, <1>g DEF Lookup
<1>2. CASE ReadUser(q)
  BY <1>2, <1>i DEF ReadUser
<1>3. CASE Rotate(q)
  <2>1. r.tok \in Tok
    BY <1>3, <1>c, <1>d DEF Rotate, Shape
  <2>2. ASSUME NEW n \in Unissued,
               tokens' = [Revoked({r.tok}) EXCEPT ![n] =
                 [state |-> "live", user |-> Caller(q), session |-> tokens[r.tok].session]]
        PROVE  tokens'[n].state = "live" /\ tokens'[n].user = Owner(r.client)
    BY <1>d, <2>2 DEF Unissued, Revoked
  <2> QED BY <1>3, <1>c, <1>f, <1>g, <1>h, <2>2 DEF Rotate, Unissued
<1>4. CASE BurnStart(q)
  <2>1. /\ call'[q].client = r.client /\ call'[q].tok = r.tok /\ call'[q].ver = r.ver
        /\ call'[q].doomed = {t \in Tok : Live(t) /\ tokens[t].user = Owner(r.client)}
        /\ call'[q].pc = "burning"
        /\ \A x \in Call \ {q} : call'[x] = call[x]
    BY <1>4, <1>a, <1>c, <1>d DEF BurnStart, CallRecord
  <2> QED BY <1>4, <1>d, <1>e, <2>1 DEF BurnStart, CallFine, Ours, Issued, Live
<1>5. CASE BurnCommit(q)
  <2>1. /\ call'[q].client = r.client /\ call'[q].tok = r.tok /\ call'[q].ver = r.ver
        /\ call'[q].doomed = {} /\ call'[q].pc = "clear"
        /\ \A x \in Call \ {q} : call'[x] = call[x]
    BY <1>5, <1>a, <1>c DEF BurnCommit, CallRecord
  <2> QED BY <1>d, <1>e, <2>1, MovedFine
<1>6. CASE ReadLogin(q)
  BY <1>6, <1>i DEF ReadLogin
<1>7. CASE Issue(q)
  <2>1. ASSUME NEW n \in Unissued,
               tokens' = [tokens EXCEPT ![n] = [state |-> "live", user |-> Caller(q), session |-> n]]
        PROVE  tokens'[n].state = "live" /\ tokens'[n].user = Owner(r.client)
    BY <1>a, <1>d, <2>1 DEF Unissued
  <2> QED BY <1>7, <1>c, <1>f, <1>h, <2>1 DEF Issue, Unissued
<1>8. CASE Logout(q)
  BY <1>8, <1>g DEF Logout
<1>9. CASE Lost(q)
  BY <1>9, <1>f DEF Lost
<1> QED BY <1>1, <1>2, <1>3, <1>4, <1>5, <1>6, <1>7, <1>8, <1>9 DEF AuthStep

LEMMA SessionInit == Init => SessionInv
<1> SUFFICES ASSUME Init PROVE SessionInv
  OBVIOUS
<1>1. Typing
  BY TypingInit
<1>2. TokensOwned /\ OneLivePerSession
  BY DEF Init, AuthInit, TokensOwned, OneLivePerSession, Issued, Live
<1>3. \A q \in Call : CallFine(call[q])
  BY DEF Init, AuthInit, NoCall, CallFine
<1>4. \A c \in Client : JarFine(c, jar[c])
  BY AuthNoneAssumption DEF Init, EmptyJar, JarFine, Ours
<1> QED BY <1>1, <1>2, <1>3, <1>4 DEF SessionInv

LEMMA SessionStep == SessionInv /\ [Next]_vars => SessionInv'
<1> SUFFICES ASSUME SessionInv, [Next]_vars PROVE SessionInv'
  OBVIOUS
<1>1. TokenStep
  BY NextTokens
<1>2. Typing' /\ TokensOwned' /\ OneLivePerSession' /\ Typing
  BY <1>1, TypingStep, OwnedStep, OneLiveStep DEF SessionInv
<1>3. SUFFICES (\A q \in Call : CallFine(call[q])') /\ (\A c \in Client : JarFine(c, jar[c])')
  BY <1>2 DEF SessionInv
<1>4. jar' = jar => \A c \in Client : JarFine(c, jar[c])'
  BY <1>1, JarsFine
<1>a. /\ call \in [Call -> CallRecord] /\ jar \in [Client -> Jar] /\ version \in [User -> Nat]
  BY <1>2 DEF Typing, TypeOK, AuthTypeOK
<1>5. ASSUME NEW q \in Call, NEW c \in Client, SignIn(q, c) \/ SignOut(q, c) \/ CallApi(q, c)
      PROVE  (\A x \in Call : CallFine(call[x])') /\ jar' = jar
  <2>1. PICK pc \in {"login", "logout", "api"}, t \in Tok \cup {None}, v \in Nat :
          /\ Start(q, c, pc, t, v) /\ t \in {None, jar[c].tok}
          /\ v = 0 \/ v <= version[Owner(c)]
          /\ pc = "api" /\ t # None => Backed(t, v)
    BY <1>2, <1>5, <1>a DEF SessionInv, Typing, JarShape, JarFine, SignIn, SignOut, CallApi, Access, Jar
  <2>2. /\ call'[q] = [pc |-> pc, client |-> c, tok |-> t, ver |-> v, doomed |-> {}]
        /\ \A x \in Call \ {q} : call'[x] = call[x]
        /\ UNCHANGED <<version, tokens, jar>>
    BY <2>1, <1>a DEF Start, NoAuth
  <2>3. Ours(t, Owner(c)) /\ v <= version[Owner(c)]
    BY <2>1, <1>a, OwnerAssumption, AuthNoneAssumption DEF SessionInv, JarFine, Ours
  <2>4. CallFine(call[q])'
    BY <2>1, <2>2, <2>3 DEF CallFine, Ours, Issued, Backed, Live
  <2> QED BY <1>1, <2>2, <2>4, CallsFine
<1>6. ASSUME NEW q \in Call, AuthStep(q), jar' = jar
      PROVE  \A x \in Call : CallFine(call[x])'
  BY <1>1, <1>6, AuthCallFine, CallsFine
<1>7. ASSUME NEW q \in Call, Gateway(q)
      PROVE  (\A x \in Call : CallFine(call[x])') /\ jar' = jar
  <2>1. UNCHANGED <<version, tokens, jar>>
    BY <1>7 DEF Gateway, NoAuth
  <2>2. CASE Quit(q)
    BY <1>1, <1>a, <2>1, <2>2, CallsFine DEF Quit, NoCall, CallFine
  <2>3. CASE ~Quit(q)
    <3>1. call[q].client \in Client /\ version[Owner(call[q].client)] \in Nat
      BY <1>2, <1>7, <2>3, CallerTyped DEF Gateway, Caller
    <3>2. /\ call'[q].client = call[q].client /\ call'[q].tok = jar[call[q].client].tok
          /\ call'[q].ver = 0 /\ call'[q].doomed = call[q].doomed /\ call'[q].pc = "lookup"
          /\ \A x \in Call \ {q} : call'[x] = call[x]
      BY <1>7, <1>a, <2>3 DEF Gateway, CallRecord
    <3>3. Ours(jar[call[q].client].tok, Owner(call[q].client)) /\ CallFine(call[q])
      BY <3>1 DEF SessionInv, JarFine
    <3>4. CallFine(call[q])'
      BY <1>7, <2>1, <2>3, <3>1, <3>2, <3>3 DEF Gateway, CallFine, Ours, Issued
    <3> QED BY <1>1, <2>1, <3>2, <3>4, CallsFine
  <2> QED BY <2>2, <2>3
<1>8. ASSUME NEW q \in Call, ReceiveCookies(q)
      PROVE  (\A x \in Call : CallFine(call[x])') /\ \A c \in Client : JarFine(c, jar[c])'
  <2>1. UNCHANGED <<version, tokens>> /\ call[q].client \in Client
    BY <1>2, <1>8, CallerTyped DEF ReceiveCookies, NoAuth
  <2>2. /\ Ours(call[q].tok, Owner(call[q].client)) /\ call[q].ver <= version[Owner(call[q].client)]
        /\ call[q].tok \in Tok /\ Backed(call[q].tok, call[q].ver) /\ CallFine(call[q])
    BY <1>8, AuthNoneAssumption DEF ReceiveCookies, SessionInv, Typing, CallShape, Shape, CallFine
  <2>3. CallFine(call[q])' /\ \A x \in Call \ {q} : call'[x] = call[x]
    <3>1. CASE Quit(q)
      BY <1>a, <3>1 DEF Quit, NoCall, CallFine
    <3>2. CASE Goto(q, "retry")
      <4>1. /\ call'[q].client = call[q].client /\ call'[q].tok = call[q].tok
            /\ call'[q].ver = call[q].ver /\ call'[q].doomed = call[q].doomed
            /\ call'[q].pc = "retry" /\ \A x \in Call \ {q} : call'[x] = call[x]
        BY <1>a, <3>2 DEF Goto, CallRecord
      <4> QED BY <1>8, <2>1, <2>2, <4>1 DEF ReceiveCookies, CallFine, Ours, Issued, Backed, Live
    <3> QED BY <1>8, <3>1, <3>2 DEF ReceiveCookies
  <2>4. ASSUME NEW c \in Client PROVE JarFine(c, jar[c])'
    <3>1. CASE c = call[q].client
      <4>1. jar'[c] = [tok |-> call[q].tok, access |-> call[q].ver]
        BY <1>8, <1>a, <3>1 DEF ReceiveCookies
      <4> QED BY <2>1, <2>2, <3>1, <4>1 DEF JarFine, Ours, Issued, Backed, Live
    <3>2. CASE c # call[q].client
      BY <1>8, <1>1, <1>a, <3>2, JarsFine DEF ReceiveCookies
    <3> QED BY <3>1, <3>2
  <2> QED BY <1>1, <2>3, <2>4, CallsFine
<1>9. ASSUME NEW q \in Call, ReceiveClear(q)
      PROVE  (\A x \in Call : CallFine(call[x])') /\ \A c \in Client : JarFine(c, jar[c])'
  <2>1. CallFine(call[q])' /\ \A x \in Call \ {q} : call'[x] = call[x]
    BY <1>9, <1>a DEF ReceiveClear, Quit, NoCall, CallFine
  <2>2. ASSUME NEW c \in Client PROVE JarFine(c, jar[c])'
    <3>1. CASE c = call[q].client
      BY <1>9, <1>a, <3>1, AuthNoneAssumption DEF ReceiveClear, EmptyJar, JarFine, Ours
    <3>2. CASE c # call[q].client
      BY <1>9, <1>1, <1>a, <3>2, JarsFine DEF ReceiveClear
    <3> QED BY <3>1, <3>2
  <2> QED BY <1>1, <2>1, <2>2, CallsFine
<1>10. ASSUME call' = call PROVE \A x \in Call : CallFine(call[x])'
  <2> TAKE x \in Call
  <2>1. PICK r \in CallRecord : r = call[x]
    BY <1>a
  <2>2. CallFine(r)'
    BY <1>1, <2>1, CallKept DEF SessionInv, Typing, CallShape
  <2> QED BY <1>10, <2>1, <2>2 DEF CallFine
<1>11. ASSUME NEW b \in Client, AccessExpires(b)
       PROVE  (\A x \in Call : CallFine(call[x])') /\ \A c \in Client : JarFine(c, jar[c])'
  <2>1. call' = call /\ UNCHANGED <<version, tokens>>
    BY <1>11 DEF AccessExpires, authVars
  <2>2. ASSUME NEW c \in Client PROVE JarFine(c, jar[c])'
    <3>1. CASE c = b
      <4>1. jar'[c].access = None /\ jar'[c].tok = jar[c].tok
        BY <1>11, <1>a, <3>1 DEF AccessExpires, Jar
      <4> QED BY <2>1, <4>1 DEF SessionInv, JarFine, Ours, Issued
    <3>2. CASE c # b
      BY <1>11, <1>1, <1>a, <3>2, JarsFine DEF AccessExpires
    <3> QED BY <3>1, <3>2
  <2> QED BY <2>1, <2>2, <1>10
<1>12. CASE UNCHANGED vars
  BY <1>12, <1>4, <1>10 DEF vars, authVars
<1> QED BY <1>4, <1>5, <1>6, <1>7, <1>8, <1>9, <1>11, <1>12 DEF Next

-----------------------------------------------------------------------------
LEMMA SessionInvariance == Spec => []SessionInv
  BY SessionInit, SessionStep, PTL DEF Spec

\* WebSessions!OneLivePerSession: the compare-and-set of /refresh (auth.ts:175)
\* leaves one live token in a session, whoever races.
THEOREM OneLive == Spec => []OneLivePerSession
<1>1. SessionInv => OneLivePerSession
  BY DEF SessionInv
<1> QED BY <1>1, SessionInvariance, PTL

\* WebSessions!AccessNeedsSession: logout and the reuse burn end the access
\* tokens of the sessions they end, by the version (auth.ts:147, 221).
THEOREM AccessEnds == Spec => []AccessNeedsSession
<1>1. SessionInv => AccessNeedsSession
  <2> SUFFICES ASSUME SessionInv, NEW a \in AccessTokens PROVE Backed(a.tok, a.ver)
    BY DEF AccessNeedsSession, Backed
  <2>1. CASE \E c \in Client : jar[c].access # None /\ a = [tok |-> jar[c].tok, ver |-> jar[c].access]
    BY <2>1 DEF SessionInv, JarFine
  <2>2. CASE \E q \in Call : /\ call[q].pc \in {"api", "retry", "set", "in"} /\ call[q].tok # None
                            /\ a = [tok |-> call[q].tok, ver |-> call[q].ver]
    BY <2>2 DEF SessionInv, CallFine
  <2> QED BY <2>1, <2>2 DEF AccessTokens
<1> QED BY <1>1, SessionInvariance, PTL
=============================================================================
