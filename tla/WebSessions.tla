---------------------------- MODULE WebSessions -----------------------------
(***************************************************************************)
(* Browsers against auth-svc and the gateway: the cookie jar, the calls of *)
(* the web client (api.ts) with their one refresh and retry, and the       *)
(* gateway's check of the access token.  Both cookies of a jar were set by *)
(* one answer: jar[c].tok is the refresh token, jar[c].access the version  *)
(* in the access token that came with it, gone when it has expired.        *)
(***************************************************************************)
EXTENDS AuthSessions

VARIABLES
  jar,
  overlapped  \* users one of whose browsers had two calls in flight at once

vars == <<authVars, jar, overlapped>>

Jar == [tok : Tok \cup {None}, access : Nat \cup {None}]
EmptyJar == [tok |-> None, access |-> None]

TypeOK ==
  AuthTypeOK /\ jar \in [Client -> Jar] /\ overlapped \in SUBSET User

Init ==
  /\ AuthInit
  /\ jar = [c \in Client |-> EmptyJar]
  /\ overlapped = {}

NoAuth == UNCHANGED <<version, tokens, faults>>

\* c's page calls fetch; the browser adds the cookies of this moment.
Start(q, c, pc, t, v) ==
  /\ call[q].pc = "idle"
  /\ call' = [call EXCEPT ![q] = [pc |-> pc, client |-> c, tok |-> t, ver |-> v, doomed |-> {}]]
  /\ overlapped' = IF \E x \in Call : call[x].client = c
                     THEN overlapped \cup {Owner(c)} ELSE overlapped
  /\ NoAuth /\ UNCHANGED jar

\* The login page shows when /me is refused: that call is never refreshed.
SignIn(q, c) == jar[c].access = None /\ Start(q, c, "login", None, 0)
SignOut(q, c) == Start(q, c, "logout", jar[c].tok, 0)

\* Mutant: an expired access cookie is sent.
AccessSent(c) == [tok |-> jar[c].tok, ver |-> jar[c].access]

\* Any call that needs a user.  Version 0 with tok None stands for no cookie.
Access(c) == IF jar[c].access = None THEN [tok |-> None, ver |-> 0]
                                     ELSE [tok |-> jar[c].tok, ver |-> jar[c].access]
CallApi(q, c) == Start(q, c, "api", Access(c).tok, Access(c).ver)

\* attachUser, and requireAuth behind it.
Accepted(q) == call[q].tok # None /\ call[q].ver = version[Caller(q)]

\* A first 401 makes the client refresh, with the jar's token of this moment.
Gateway(q) ==
  /\ \/ call[q].pc \in {"api", "retry"} /\ Accepted(q) /\ Quit(q)
     \/ call[q].pc = "retry" /\ ~Accepted(q) /\ Quit(q)
     \/ /\ call[q].pc = "api" /\ ~Accepted(q)
        /\ call' = [call EXCEPT ![q].pc = "lookup", ![q].tok = jar[call[q].client].tok, ![q].ver = 0]
  /\ NoAuth /\ UNCHANGED <<jar, overlapped>>

\* Mutant: the jar keeps the refresh token it had.
KeepRefresh(q) ==
  /\ call[q].pc \in {"in", "set"}
  /\ jar' = [jar EXCEPT ![call[q].client] =
               [tok |-> IF call[q].pc = "in" THEN call[q].tok ELSE @.tok, access |-> call[q].ver]]
  /\ IF call[q].pc = "in" THEN Quit(q) ELSE Goto(q, "retry")
  /\ NoAuth /\ UNCHANGED overlapped

\* setAuthCookies; a call that was refreshed is sent again.
ReceiveCookies(q) ==
  /\ \/ call[q].pc = "in" /\ Quit(q)
     \/ call[q].pc = "set" /\ Goto(q, "retry")
  /\ jar' = [jar EXCEPT ![call[q].client] = [tok |-> call[q].tok, access |-> call[q].ver]]
  /\ NoAuth /\ UNCHANGED overlapped

\* clearAuthCookies
ReceiveClear(q) ==
  /\ call[q].pc \in {"clear", "out"}
  /\ jar' = [jar EXCEPT ![call[q].client] = EmptyJar]
  /\ Quit(q)
  /\ NoAuth /\ UNCHANGED overlapped

\* 15 minutes have passed.
AccessExpires(c) ==
  /\ jar[c].access # None
  /\ jar' = [jar EXCEPT ![c].access = None]
  /\ UNCHANGED <<authVars, overlapped>>

Next ==
  \/ \E q \in Call, c \in Client : SignIn(q, c) \/ SignOut(q, c) \/ CallApi(q, c)
  \/ \E q \in Call : AuthStep(q) /\ UNCHANGED <<jar, overlapped>>
  \/ \E q \in Call : Gateway(q) \/ ReceiveCookies(q) \/ ReceiveClear(q)
  \/ \E c \in Client : AccessExpires(c)

Spec == Init /\ [][Next]_vars

-----------------------------------------------------------------------------
\* Whatever refreshes, sign-outs and burns race, a session has at most one
\* token that can be refreshed with.
OneLivePerSession ==
  \A t1, t2 \in Tok :
    Live(t1) /\ Live(t2) /\ tokens[t1].session = tokens[t2].session => t1 = t2

\* The access tokens there are: in a jar, on the way to or from a browser.
AccessTokens ==
  {[tok |-> jar[c].tok, ver |-> jar[c].access] : c \in {x \in Client : jar[x].access # None}}
    \cup {[tok |-> call[q].tok, ver |-> call[q].ver] :
            q \in {x \in Call : call[x].pc \in {"api", "retry", "set", "in"} /\ call[x].tok # None}}

\* An access token the gateway would accept belongs to a session that can still
\* be refreshed: ending a session ends its access tokens with it, also those
\* whose version was read before and that are signed after.
AccessNeedsSession ==
  \A a \in AccessTokens :
    a.ver = version[tokens[a.tok].user]
      => \E t \in Tok : Live(t) /\ tokens[t].session = tokens[a.tok].session

\* Sessions survive everything but a sign-out, a lost answer and overlapping
\* calls of one browser: a user who does one thing at a time on each of several
\* browsers is never turned away by what another of them does.
OnlyOverlapSignsOut ==
  faults = 0 => \A q \in Call : call[q].pc = "clear" => Caller(q) \in overlapped

\* api.ts:73: "Transparently refresh an expired access token once, then retry":
\* a refresh is refused only when the session of its token has ended.
RefreshIsTransparent ==
  \A q \in Call : call[q].pc = "clear" =>
    ~ \E t \in Tok : Live(t) /\ tokens[t].session = tokens[call[q].tok].session
=============================================================================
