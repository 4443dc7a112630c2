---------------------------- MODULE AuthSessions ----------------------------
(***************************************************************************)
(* Sessions of auth-svc (routes/auth.ts): refresh tokens that are rotated  *)
(* by compare-and-set, burned when a rotated one is presented again, and   *)
(* revoked by logout; the tokenVersion every access token carries and the  *)
(* gateway compares.  A member of Call is one call of a browser, served by *)
(* one request at a time; call[q].pc is where that request is:             *)
(*   lookup, user, rotate   /refresh, before each of its database calls    *)
(*   burn, burning          reuse detected; its update has taken a snapshot*)
(*   login, issue           /login, before the user lookup and the insert  *)
(*   logout                 /logout, before its transaction                *)
(*   in, set, clear, out    answered: signed in; refreshed; 401, cookies   *)
(*                          cleared; logged out, cookies cleared           *)
(*   api, retry             not auth-svc's, see WebSessions                *)
(* Users and tokens are never deleted.  Left out: registration, wrong      *)
(* passwords, the 7 days after which a refresh token expires.              *)
(***************************************************************************)
EXTENDS Naturals, FiniteSets

CONSTANTS
  User,
  Client,    \* browsers
  Tok,       \* refresh tokens that can ever be issued (a bound)
  Call,      \* calls of browsers in flight at one time (a bound)
  None,      \* null, no cookie
  Owner(_),  \* who signs in on a browser
  MaxFaults  \* failed requests in one behaviour (a bound)

ASSUME OwnerAssumption == \A c \in Client : Owner(c) \in User
ASSUME AuthNoneAssumption == None \notin User \cup Client \cup Tok
ASSUME AuthFaultsAssumption == MaxFaults \in Nat

VARIABLES
  version,  \* version[u]: User.tokenVersion
  tokens,   \* the RefreshToken table; session is the token its sign-in issued
  call,
  faults

authVars == <<version, tokens, call, faults>>

ServerPc == {"lookup", "user", "rotate", "burn", "burning", "login", "issue", "logout"}
AnswerPc == {"in", "set", "clear", "out"}
CallPc == {"idle", "api", "retry"} \cup ServerPc \cup AnswerPc

RefreshToken == [state : {"none", "live", "revoked"}, user : User \cup {None},
                 session : Tok \cup {None}]
CallRecord == [pc : CallPc, client : Client \cup {None}, tok : Tok \cup {None},
               ver : Nat, doomed : SUBSET Tok]

NoCall == [pc |-> "idle", client |-> None, tok |-> None, ver |-> 0, doomed |-> {}]

AuthTypeOK ==
  /\ version \in [User -> Nat]
  /\ tokens \in [Tok -> RefreshToken]
  /\ call \in [Call -> CallRecord]
  /\ faults \in 0 .. MaxFaults

AuthInit ==
  /\ version = [u \in User |-> 0]
  /\ tokens = [t \in Tok |-> [state |-> "none", user |-> None, session |-> None]]
  /\ call = [q \in Call |-> NoCall]
  /\ faults = 0

Caller(q) == Owner(call[q].client)
Live(t) == tokens[t].state = "live"
Unissued == {t \in Tok : tokens[t].state = "none"}

Goto(q, pc) == call' = [call EXCEPT ![q].pc = pc]
AnswerWith(q, pc, t, v) ==
  call' = [call EXCEPT ![q] = [pc |-> pc, client |-> call[q].client, tok |-> t,
                               ver |-> v, doomed |-> {}]]
Quit(q) == call' = [call EXCEPT ![q] = NoCall]

\* The rows of T with revokedAt set.
Revoked(T) == [t \in Tok |-> IF t \in T THEN [tokens[t] EXCEPT !.state = "revoked"] ELSE tokens[t]]

Bump(u) == version' = [version EXCEPT ![u] = @ + 1]

-----------------------------------------------------------------------------
(* POST /refresh *)

Lookup(q) ==
  /\ call[q].pc = "lookup"
  /\ \/ call[q].tok = None /\ Quit(q)                                 \* no_refresh_token
     \/ call[q].tok # None /\ ~Live(call[q].tok) /\ Goto(q, "burn")
     \/ call[q].tok # None /\ Live(call[q].tok) /\ Goto(q, "user")
  /\ UNCHANGED <<version, tokens, faults>>

\* The new access token carries the version read here, before the rotation.
ReadUser(q) ==
  /\ call[q].pc = "user"
  /\ call' = [call EXCEPT ![q].pc = "rotate", ![q].ver = version[Caller(q)]]
  /\ UNCHANGED <<version, tokens, faults>>

\* Mutant: no guard on revokedAt.
RotateAny(q) ==
  /\ call[q].pc = "rotate"
  /\ \E n \in Unissued :
       /\ tokens' = [Revoked({call[q].tok}) EXCEPT ![n] =
                       [state |-> "live", user |-> Caller(q),
                        session |-> tokens[call[q].tok].session]]
       /\ AnswerWith(q, "set", n, call[q].ver)
  /\ UNCHANGED <<version, faults>>

\* updateMany where revokedAt is null, and the replacement, in one transaction.
Rotate(q) ==
  /\ call[q].pc = "rotate"
  /\ \/ /\ Live(call[q].tok)
        /\ \E n \in Unissued :
             /\ tokens' = [Revoked({call[q].tok}) EXCEPT ![n] =
                             [state |-> "live", user |-> Caller(q),
                              session |-> tokens[call[q].tok].session]]
             /\ AnswerWith(q, "set", n, call[q].ver)
     \/ ~Live(call[q].tok) /\ Goto(q, "clear") /\ UNCHANGED tokens
     \/ Unissued = {} /\ Quit(q) /\ UNCHANGED tokens                  \* Tok is used up
  /\ UNCHANGED <<version, faults>>

\* The burn's updateMany sees the rows committed when it starts ...
BurnStart(q) ==
  /\ call[q].pc = "burn"
  /\ call' = [call EXCEPT ![q].pc = "burning",
                          ![q].doomed = {t \in Tok : Live(t) /\ tokens[t].user = Caller(q)}]
  /\ UNCHANGED <<version, tokens, faults>>

\* ... and not the replacement that a concurrent rotation of one of them inserts.
BurnCommit(q) ==
  /\ call[q].pc = "burning"
  /\ tokens' = Revoked(call[q].doomed)
  /\ Bump(Caller(q))
  /\ call' = [call EXCEPT ![q].pc = "clear", ![q].doomed = {}]
  /\ UNCHANGED faults

-----------------------------------------------------------------------------
(* POST /login, POST /logout *)

\* The user row is read before the password is verified.
ReadLogin(q) ==
  /\ call[q].pc = "login"
  /\ call' = [call EXCEPT ![q].pc = "issue", ![q].ver = version[Caller(q)]]
  /\ UNCHANGED <<version, tokens, faults>>

\* issueSession
Issue(q) ==
  /\ call[q].pc = "issue"
  /\ \/ \E n \in Unissued :
          /\ tokens' = [tokens EXCEPT ![n] =
                          [state |-> "live", user |-> Caller(q), session |-> n]]
          /\ AnswerWith(q, "in", n, call[q].ver)
     \/ Unissued = {} /\ Quit(q) /\ UNCHANGED tokens                  \* Tok is used up
  /\ UNCHANGED <<version, faults>>

\* Mutant: outstanding access tokens are left to expire.
LogoutQuietly(q) ==
  /\ call[q].pc = "logout"
  /\ tokens' = IF call[q].tok = None THEN tokens ELSE Revoked({call[q].tok})
  /\ Goto(q, "out")
  /\ UNCHANGED <<version, faults>>

\* The presented token only, and only if it is not revoked yet.
Logout(q) ==
  /\ call[q].pc = "logout"
  /\ \/ call[q].tok = None /\ UNCHANGED <<version, tokens>>
     \/ call[q].tok # None /\ tokens' = Revoked({call[q].tok}) /\ Bump(Caller(q))
  /\ Goto(q, "out")
  /\ UNCHANGED faults

-----------------------------------------------------------------------------
\* The request or its answer is lost: the browser's fetch rejects.
Lost(q) ==
  /\ call[q].pc \in ServerPc \cup AnswerPc
  /\ faults < MaxFaults /\ faults' = faults + 1
  /\ Quit(q)
  /\ UNCHANGED <<version, tokens>>

AuthStep(q) ==
  \/ Lookup(q) \/ ReadUser(q) \/ Rotate(q) \/ BurnStart(q) \/ BurnCommit(q)
  \/ ReadLogin(q) \/ Issue(q) \/ Logout(q) \/ Lost(q)
=============================================================================
