----------------------------- MODULE AuthTokens -----------------------------
(***************************************************************************)
(* Refresh tokens and the password of one account: the handlers login,     *)
(* refresh, logout, change_password, forgot_password and reset_password of *)
(* app/api/auth_routes.py, each request with a session of its own at READ  *)
(* COMMITTED.                                                              *)
(*                                                                         *)
(* A secret (a refresh token, a password, a reset token) is fresh wherever *)
(* one is made, so it is named by the request that makes it; Before stands *)
(* for those that are there at the start.  Hashing and signing are taken to*)
(* be injective.                                                           *)
(***************************************************************************)
EXTENDS Integers

CONSTANTS
  Requests,         \* requests to the endpoints
  Before,           \* the maker of the first token and of the first password
  NoSecret          \* no reset token, no lock holder

ASSUME NamesAssumption == Before \notin Requests /\ NoSecret \notin Requests \union {Before}

Makers == Requests \union {Before}

VARIABLES
  tokens,           \* refresh_tokens: "none" without a row, else live or revoked
  tokenLock,        \* the request that has an uncommitted revocation of the row
  user,             \* the columns hashed_password and reset_token of the account
  read,             \* the same columns of the instance a request's session holds
  pc,               \* where each request is
  kind,             \* its endpoint
  secret,           \* the secret its client presents
  late,             \* refreshes whose token was revoked before they came
  minted,           \* reset tokens that have been committed
  mailed            \* reset tokens whose link has been sent

vars == <<tokens, tokenLock, user, read, pc, kind, secret, late, minted, mailed>>

User == [password : Makers, reset : Requests \union {NoSecret}]

Kinds == {"login", "refresh", "logout", "change", "forgot", "reset"}

\* Answered 200, refused with 400 or 401, raised or cut off by a crash.
Ended == {"done", "refused", "raised"}

Init ==
  /\ tokens = [t \in Makers |-> IF t = Before THEN "live" ELSE "none"]
  /\ tokenLock = [t \in Makers |-> NoSecret]
  /\ user = [password |-> Before, reset |-> NoSecret]
  /\ read = [q \in Requests |-> user]
  /\ pc = [q \in Requests |-> "idle"]
  /\ kind \in [Requests -> Kinds]
  /\ secret = [q \in Requests |-> Before]
  /\ late = {}
  /\ minted = {}
  /\ mailed = {}

Goto(q, label) == pc' = [pc EXCEPT ![q] = label]

\* What clients may present: tokens they were given, links they were sent, and
\* whatever was or may have become the password.
Presented(k) ==
  CASE k \in {"refresh", "logout"} ->
         {Before} \union {q \in Requests : kind[q] \in {"login", "refresh"} /\ pc[q] = "done"}
    [] k \in {"login", "change"} ->
         {Before} \union {q \in Requests : kind[q] \in {"change", "reset"} /\ pc[q] # "idle"}
    [] k = "reset" -> mailed
    [] OTHER -> {NoSecret}

\* The request comes.  Its access token, where it needs one, is not accepted, its
\* refresh token has expired, or its user is unknown (which forgot_password does not
\* tell): it goes no further.
Receive(q) ==
  /\ pc[q] = "idle"
  /\ \E s \in Presented(kind[q]) :
       /\ secret' = [secret EXCEPT ![q] = s]
       /\ late' = IF kind[q] = "refresh" /\ tokens[s] = "revoked"
                    THEN late \union {q} ELSE late
  /\ \/ Goto(q, "received")
     \/ Goto(q, IF kind[q] = "forgot" THEN "done" ELSE "refused")
  /\ UNCHANGED <<tokens, tokenLock, user, read, kind, minted, mailed>>

\* Mutated form: a token is taken for good as long as it is stored.
FindToken_unchecked(q) ==
  /\ pc[q] = "received" /\ kind[q] \in {"refresh", "logout"}
  /\ Goto(q, IF tokens[secret[q]] = "none" THEN "refused" ELSE "revoke")
  /\ UNCHANGED <<tokens, tokenLock, user, read, kind, secret, late, minted, mailed>>

\* find_by_hash.  A logout of a token that is revoked already has nothing to change
\* and answers as any other.
FindToken(q) ==
  /\ pc[q] = "received" /\ kind[q] \in {"refresh", "logout"}
  /\ \/ tokens[secret[q]] = "live" /\ Goto(q, "revoke")
     \/ tokens[secret[q]] # "live" /\ Goto(q, IF kind[q] = "logout" THEN "done" ELSE "refused")
  /\ UNCHANGED <<tokens, tokenLock, user, read, kind, secret, late, minted, mailed>>

\* Mutated form: revoke_token commits, as if it were a service of its own.
RevokeToken_committed(q) ==
  /\ pc[q] = "revoke"
  /\ tokenLock[secret[q]] = NoSecret
  /\ tokens' = [tokens EXCEPT ![secret[q]] = "revoked"]
  /\ Goto(q, "commit")
  /\ UNCHANGED <<tokenLock, user, read, kind, secret, late, minted, mailed>>

\* revoke_token queries again but gets the instance read before, still unrevoked, and
\* updates the row, once no other transaction has it, whatever that one has made of it.
RevokeToken(q) ==
  /\ pc[q] = "revoke"
  /\ tokenLock[secret[q]] = NoSecret
  /\ tokenLock' = [tokenLock EXCEPT ![secret[q]] = q]
  /\ Goto(q, "commit")
  /\ UNCHANGED <<tokens, user, read, kind, secret, late, minted, mailed>>

Unlock(q) == tokenLock' = [t \in Makers |-> IF tokenLock[t] = q THEN NoSecret ELSE tokenLock[t]]

\* The one commit of refresh, which has the revocation and the successor in it, of
\* logout and of login.
CommitTokens(q) ==
  /\ pc[q] = "commit" /\ kind[q] \in {"login", "refresh", "logout"}
  /\ tokens' = [t \in Makers |->
       CASE t = secret[q] /\ kind[q] # "login" -> "revoked"
         [] t = q /\ kind[q] # "logout" -> "live"
         [] OTHER -> tokens[t]]
  /\ Unlock(q)
  /\ Goto(q, "answer")
  /\ UNCHANGED <<user, read, kind, secret, late, minted, mailed>>

\* find_by_username, get or find_by_reset_token, and the check of the password.
FindUser(q) ==
  /\ pc[q] = "received" /\ kind[q] \in {"login", "change", "forgot", "reset"}
  /\ read' = [read EXCEPT ![q] = user]
  /\ \/ /\ \/ kind[q] \in {"login", "change"} /\ user.password = secret[q]
           \/ kind[q] = "reset" /\ user.reset = secret[q]
           \/ kind[q] = "forgot"
        /\ Goto(q, "commit")
     \/ /\ \/ kind[q] \in {"login", "change"} /\ user.password # secret[q]
           \/ kind[q] = "reset" /\ user.reset # secret[q]
        /\ Goto(q, "refused")
  /\ UNCHANGED <<tokens, tokenLock, user, kind, secret, late, minted, mailed>>

\* Mutated form: every column of the instance is written.
Written_whole(q, columns) ==
  [c \in DOMAIN user |-> IF c \in columns THEN (IF c = "reset" /\ kind[q] = "reset"
                                                  THEN NoSecret ELSE q)
                         ELSE read[q][c]]

\* The session's UPDATE sets the columns the handler has changed, and no other.
Written(q, columns) ==
  [c \in DOMAIN user |-> IF c \in columns THEN (IF c = "reset" /\ kind[q] = "reset"
                                                  THEN NoSecret ELSE q)
                         ELSE user[c]]

\* db.commit() of change_password, forgot_password and reset_password.  A reset whose
\* link is too old only clears it, be it the one it has read or a newer one.
CommitUser(q) ==
  /\ pc[q] = "commit" /\ kind[q] \in {"change", "forgot", "reset"}
  /\ \/ kind[q] = "change" /\ user' = Written(q, {"password"}) /\ Goto(q, "answer")
     \/ kind[q] = "forgot" /\ user' = Written(q, {"reset"}) /\ Goto(q, "mail")
     \/ kind[q] = "reset" /\ user' = Written(q, {"password", "reset"}) /\ Goto(q, "answer")
     \/ kind[q] = "reset" /\ user' = Written(q, {"reset"}) /\ Goto(q, "refused")
  /\ minted' = IF kind[q] = "forgot" THEN minted \union {q} ELSE minted
  /\ UNCHANGED <<tokens, tokenLock, read, kind, secret, late, mailed>>

\* Mutated form: the link is sent and the commit left to the session's end.
SendLink_early(q) ==
  /\ kind[q] = "forgot" /\ pc[q] \in {"commit", "mail"}
  /\ mailed' = mailed \union {q}
  /\ Goto(q, IF pc[q] = "mail" THEN "answer" ELSE "commit")
  /\ UNCHANGED <<tokens, tokenLock, user, read, kind, secret, late, minted>>

\* send_password_reset_email prints the link, sends it if it can, and never raises.
SendLink(q) ==
  /\ pc[q] = "mail"
  /\ mailed' = mailed \union {q}
  /\ Goto(q, "answer")
  /\ UNCHANGED <<tokens, tokenLock, user, read, kind, secret, late, minted>>

Answer(q) ==
  /\ pc[q] = "answer"
  /\ Goto(q, "done")
  /\ UNCHANGED <<tokens, tokenLock, user, read, kind, secret, late, minted, mailed>>

\* Mutated form: the transaction is left open.
Fail_leaking(q) ==
  /\ pc[q] \notin Ended \union {"idle"}
  /\ Goto(q, "raised")
  /\ UNCHANGED <<tokens, tokenLock, user, read, kind, secret, late, minted, mailed>>

\* A statement fails or the worker dies: nothing uncommitted stays.
Fail(q) ==
  /\ pc[q] \notin Ended \union {"idle"}
  /\ Unlock(q)
  /\ Goto(q, "raised")
  /\ UNCHANGED <<tokens, user, read, kind, secret, late, minted, mailed>>

Step(q) ==
  \/ FindToken(q)
  \/ RevokeToken(q)
  \/ CommitTokens(q)
  \/ FindUser(q)
  \/ CommitUser(q)
  \/ SendLink(q)
  \/ Answer(q)

Next == \E q \in Requests : Receive(q) \/ Step(q) \/ Fail(q)

Spec == Init /\ [][Next]_vars

\* Those that wait for a row's lock are queued.
FairSpec == Spec /\ \A q \in Requests : SF_vars(Step(q))

-----------------------------------------------------------------------------
\* The types; a row is locked by a request that is about to commit its revocation.
TypeOK ==
  /\ tokens \in [Makers -> {"none", "live", "revoked"}]
  /\ tokenLock \in [Makers -> Requests \union {NoSecret}]
  /\ \A t \in Makers, q \in Requests :
       tokenLock[t] = q => secret[q] = t /\ pc[q] = "commit"
  /\ user \in User
  /\ read \in [Requests -> User]
  /\ pc \in [Requests -> {"idle", "received", "revoke", "commit", "mail", "answer"}
                           \union Ended]
  /\ kind \in [Requests -> Kinds]
  /\ secret \in [Requests -> Makers \union {NoSecret}]
  /\ late \subseteq Requests
  /\ minted \subseteq Requests
  /\ mailed \subseteq Requests

\* A rotation is stored whole: a successor only with its predecessor revoked, and a
\* token is revoked only by a logout or with a successor stored for it; who is answered
\* with a token finds it stored.  (The answer may still be lost: a refresh that fails
\* after its commit leaves a successor that its client was never given.)
RotationWhole ==
  /\ \A q \in Requests :
       /\ kind[q] = "refresh" /\ tokens[q] # "none" => tokens[secret[q]] = "revoked"
       /\ kind[q] \in {"login", "refresh"} /\ pc[q] = "done" => tokens[q] # "none"
  /\ \A t \in Makers :
       tokens[t] = "revoked" =>
         \E q \in Requests :
           /\ secret[q] = t
           /\ kind[q] = "logout" \/ (kind[q] = "refresh" /\ tokens[q] # "none")

\* A refresh that comes when its token is revoked, by a logout or another refresh, gets
\* none.  (One that had read the token before does: two refreshes may share one.)
RevokedIsRefused == \A q \in late : tokens[q] = "none" /\ pc[q] # "done"

\* A password or reset link that was replaced or spent does not come back, however
\* long ago the requests in flight have read the account: a change of the password is
\* to that of the request that commits, one of the link to its own or to none.
SecretsStayDead ==
  [][/\ user'.password # user.password =>
          \E q \in Requests : /\ user'.password = q /\ pc[q] = "commit"
                            /\ kind[q] \in {"change", "reset"}
     /\ user'.reset \notin {user.reset, NoSecret} =>
          \E q \in Requests : user'.reset = q /\ pc[q] = "commit" /\ kind[q] = "forgot"]_vars

\* A link that is sent is one that was stored: it works, or something has replaced,
\* spent or cleared it since.
MailedIsStored == mailed \subseteq minted
=============================================================================
