-------------------------- MODULE AuthTokensProofs --------------------------
(***************************************************************************)
(* Proofs about AuthTokens for any number of requests.                     *)
(*                                                                         *)
(* Two facts carry the argument: a request stores a token at most once,    *)
(* after which it only answers, and a token once revoked stays revoked.    *)
(* So what a refresh did to its predecessor nobody undoes.                 *)
(***************************************************************************)
EXTENDS AuthTokens, TLAPS

USE NamesAssumption

\* A request about a token presents one; none presents what it is to make itself.
SecretInv ==
  \A q \in Requests :
    /\ kind[q] \in {"refresh", "logout"} => secret[q] \in Makers
    /\ pc[q] # "idle" => secret[q] # q
    /\ pc[q] = "revoke" => kind[q] \in {"refresh", "logout"}
    /\ \A t \in Makers : tokenLock[t] = q => kind[q] \in {"refresh", "logout"}

\* A request that has stored its token has nothing left to do but answer, one that
\* answers with a token has stored it, and a token that is presented was stored.
StoredInv ==
  /\ tokens[Before] # "none"
  /\ \A q \in Requests :
       /\ tokens[q] # "none" => pc[q] \in {"answer", "done", "raised"}
       /\ kind[q] \in {"login", "refresh"} /\ pc[q] \in {"answer", "done"}
            => tokens[q] # "none"
       /\ kind[q] = "refresh" /\ tokens[q] # "none" => tokens[secret[q]] = "revoked"
       /\ kind[q] \in {"refresh", "logout"} /\ pc[q] # "idle" => tokens[secret[q]] # "none"

\* Who has revoked a token: a request that has come.
RevokedBy(t, q) ==
  /\ secret[q] = t /\ pc[q] # "idle"
  /\ kind[q] = "logout" \/ (kind[q] = "refresh" /\ tokens[q] # "none")

RevokedInv ==
  \A t \in Makers : tokens[t] = "revoked" => \E q \in Requests : RevokedBy(t, q)

\* A refresh that came too late gets no further than the look at its token.
LateInv ==
  \A q \in late :
    /\ kind[q] = "refresh" /\ tokens[secret[q]] = "revoked" /\ tokens[q] = "none"
    /\ pc[q] \in {"received", "refused", "raised"}

MailInv ==
  /\ \A q \in Requests : pc[q] = "mail" => q \in minted /\ kind[q] = "forgot"
  /\ \A q \in minted : pc[q] # "idle"
  /\ mailed \subseteq minted

IInv == TypeOK /\ SecretInv /\ StoredInv /\ RevokedInv /\ LateInv /\ MailInv

-----------------------------------------------------------------------------
\* The step of the request q, whichever it is.
RequestStep(q) == Receive(q) \/ Step(q) \/ Fail(q)

\* What a session's UPDATE makes of the account is an account.
LEMMA WrittenType ==
  ASSUME user \in User, NEW q \in Requests, NEW columns
  PROVE  /\ Written(q, columns) \in User
         /\ Written(q, columns).password =
              IF "password" \in columns THEN q ELSE user.password
         /\ Written(q, columns).reset =
              IF "reset" \in columns THEN (IF kind[q] = "reset" THEN NoSecret ELSE q)
              ELSE user.reset
  <1>1. /\ DOMAIN user = {"password", "reset"}
        /\ user.password \in Makers /\ user.reset \in Requests \union {NoSecret}
    BY DEF User
  <1>2. Written(q, columns) =
          [password |-> IF "password" \in columns THEN q ELSE user.password,
           reset |-> IF "reset" \in columns THEN (IF kind[q] = "reset" THEN NoSecret ELSE q)
                     ELSE user.reset]
    BY <1>1 DEF Written
  <1>3. QED
    BY <1>1, <1>2 DEF User, Makers

\* Clients present secrets.
LEMMA PresentedType ==
  ASSUME TypeOK, SecretInv, NEW q \in Requests, NEW s \in Presented(kind[q])
  PROVE  /\ s \in Makers \union {NoSecret}
         /\ kind[q] \in {"refresh", "logout"} => s \in Makers
         /\ s # Before => s = NoSecret \/ pc[s] # "idle" \/ s \in mailed
  BY DEF Presented, Makers, TypeOK, Kinds

\* A request leaves the others, and its own endpoint and secret, as they are.
LEMMA OthersStay ==
  ASSUME TypeOK, NEW q \in Requests, RequestStep(q)
  PROVE  /\ kind' = kind
         /\ pc[q] # "idle" => secret' = secret /\ late' = late
         /\ \A p \in Requests : p # q => pc'[p] = pc[p] /\ secret'[p] = secret[p]
  <1> USE DEF TypeOK, Goto
  <1>1. CASE Receive(q)
    BY <1>1 DEF Receive
  <1>2. CASE FindToken(q) \/ RevokeToken(q) \/ CommitTokens(q) \/ Fail(q)
    BY <1>2 DEF FindToken, RevokeToken, CommitTokens, Fail
  <1>3. CASE FindUser(q) \/ CommitUser(q) \/ SendLink(q) \/ Answer(q)
    BY <1>3 DEF FindUser, CommitUser, SendLink, Answer
  <1>4. QED
    BY <1>1, <1>2, <1>3 DEF RequestStep, Step

\* Only the commit changes tokens, and only one that is about to be stored or revoked.
LEMMA TokensChange ==
  ASSUME TypeOK, NEW q \in Requests, RequestStep(q)
  PROVE  tokens' = tokens \/ CommitTokens(q)
  BY DEF RequestStep, Step, Receive, FindToken, RevokeToken, FindUser, CommitUser, SendLink,
    Answer, Fail

\* What the commit of a token request leaves.
LEMMA CommitFacts ==
  ASSUME IInv, NEW q \in Requests, CommitTokens(q)
  PROVE  /\ pc[q] = "commit" /\ pc'[q] = "answer" /\ tokens[q] = "none"
         /\ secret' = secret /\ kind' = kind /\ late' = late
         /\ kind[q] # "login" => tokens'[secret[q]] = "revoked"
         /\ kind[q] # "logout" => tokens'[q] = "live"
         /\ kind[q] = "logout" => tokens'[q] = "none"
         /\ \A t \in Makers : t # q /\ (kind[q] = "login" \/ t # secret[q]) =>
              tokens'[t] = tokens[t]
         /\ \A t \in Makers : tokens[t] = "revoked" => tokens'[t] = "revoked"
  <1> USE DEF IInv, TypeOK, CommitTokens, Goto, Makers
  <1>1. pc[q] = "commit" /\ pc'[q] = "answer" /\ tokens[q] = "none"
    BY DEF StoredInv
  <1>2. /\ secret[q] # q
        /\ kind[q] # "login" => secret[q] \in Makers
    BY <1>1 DEF SecretInv
  <1>3. QED
    BY <1>1, <1>2

\* A revoked token stays revoked.
LEMMA RevokedStays ==
  ASSUME IInv, NEW q \in Requests, RequestStep(q), NEW t \in Makers, tokens[t] = "revoked"
  PROVE  tokens'[t] = "revoked"
  BY TokensChange, CommitFacts DEF IInv

\* No token's row is ever lost.
LEMMA StoredStays ==
  ASSUME IInv, NEW q \in Requests, RequestStep(q), NEW t \in Makers, tokens[t] # "none"
  PROVE  tokens'[t] # "none"
  <1>1. CASE tokens' = tokens
    BY <1>1
  <1>2. CASE CommitTokens(q)
    BY <1>2, CommitFacts DEF IInv, TypeOK, Kinds, CommitTokens
  <1>3. QED
    BY <1>1, <1>2, TokensChange DEF IInv

\* A token is stored by the commit of the request that has made it.
LEMMA StoredByCommit ==
  ASSUME IInv, NEW q \in Requests, RequestStep(q), NEW p \in Requests,
         tokens[p] = "none", tokens'[p] # "none"
  PROVE  p = q /\ CommitTokens(q)
  <1>1. CommitTokens(q)
    BY TokensChange DEF IInv
  <1>2. pc[q] = "commit" /\ kind[q] \in {"login", "refresh", "logout"}
    BY <1>1 DEF CommitTokens
  <1>3. kind[q] # "login" => tokens[secret[q]] # "none"
    BY <1>2 DEF IInv, StoredInv
  <1>4. QED
    BY <1>1, <1>3, CommitFacts DEF Makers

\* A request keeps the types.
LEMMA TypeStep ==
  ASSUME IInv, NEW q \in Requests, RequestStep(q)
  PROVE  TypeOK'
  <1>1. \A t \in Makers, p \in Requests : tokenLock'[t] = p => secret'[p] = t /\ pc'[p] = "commit"
    <2> SUFFICES ASSUME NEW t \in Makers, NEW p \in Requests, tokenLock'[t] = p
                 PROVE  secret'[p] = t /\ pc'[p] = "commit"
      OBVIOUS
    <2> USE DEF IInv, TypeOK, SecretInv, Goto
    <2>1. CASE RevokeToken(q)
      BY <2>1 DEF RevokeToken
    <2>2. CASE CommitTokens(q) \/ Fail(q)
      BY <2>2 DEF CommitTokens, Fail, Unlock
    <2>3. CASE Receive(q) \/ FindToken(q) \/ FindUser(q) \/ CommitUser(q) \/ SendLink(q)
               \/ Answer(q)
      <3>1. tokenLock' = tokenLock
        BY <2>3 DEF Receive, FindToken, FindUser, CommitUser, SendLink, Answer
      <3>2. CASE p # q
        BY <3>1, <3>2, OthersStay
      <3>3. CASE p = q
        BY <2>3, <3>1, <3>3 DEF Receive, FindToken, FindUser, CommitUser, SendLink, Answer
      <3>4. QED
        BY <3>2, <3>3
    <2>4. QED
      BY <2>1, <2>2, <2>3 DEF RequestStep, Step
  <1> USE DEF IInv, TypeOK, Goto, Ended
  <1>2. CASE Receive(q)
    BY <1>1, <1>2, PresentedType DEF Receive
  <1>3. CASE FindToken(q) \/ RevokeToken(q)
    BY <1>1, <1>3 DEF FindToken, RevokeToken
  <1>4. CASE CommitTokens(q) \/ Fail(q)
    BY <1>1, <1>4 DEF CommitTokens, Fail, Unlock
  <1>5. CASE FindUser(q)
    BY <1>1, <1>5 DEF FindUser
  <1>6. CASE CommitUser(q)
    BY <1>1, <1>6, WrittenType DEF CommitUser
  <1>7. CASE SendLink(q) \/ Answer(q)
    BY <1>1, <1>7 DEF SendLink, Answer
  <1>8. QED
    BY <1>2, <1>3, <1>4, <1>5, <1>6, <1>7 DEF RequestStep, Step

\* A request keeps what is known of the secrets.
LEMMA SecretStep ==
  ASSUME IInv, NEW q \in Requests, RequestStep(q)
  PROVE  SecretInv'
  <1> SUFFICES ASSUME NEW p \in Requests
               PROVE  /\ kind'[p] \in {"refresh", "logout"} => secret'[p] \in Makers
                      /\ pc'[p] # "idle" => secret'[p] # p
                      /\ pc'[p] = "revoke" => kind'[p] \in {"refresh", "logout"}
                      /\ \A t \in Makers : tokenLock'[t] = p => kind'[p] \in {"refresh", "logout"}
    BY DEF SecretInv
  <1> USE DEF IInv, TypeOK, SecretInv, Goto
  <1>0. \A t \in Makers : tokenLock'[t] = p =>
          tokenLock[t] = p \/ (p = q /\ kind[q] \in {"refresh", "logout"})
    BY DEF RequestStep, Step, Receive, FindToken, RevokeToken, CommitTokens, FindUser,
      CommitUser, SendLink, Answer, Fail, Unlock
  <1>1. CASE p # q
    BY <1>0, <1>1, OthersStay
  <1>2. CASE p = q /\ ~Receive(q)
    <2>1. pc[q] # "idle" /\ (pc'[q] = "revoke" => kind[q] \in {"refresh", "logout"})
      BY <1>2 DEF RequestStep, Step, FindToken, RevokeToken, CommitTokens, FindUser,
        CommitUser, SendLink, Answer, Fail
    <2>2. QED
      BY <1>0, <1>2, <2>1, OthersStay
  <1>3. CASE p = q /\ Receive(q)
    <2>1. PICK s \in Presented(kind[q]) : secret' = [secret EXCEPT ![q] = s]
      BY <1>3 DEF Receive
    <2>2. s # q
      <3>1. pc[q] = "idle" /\ q # Before /\ q # NoSecret
        BY <1>3 DEF Receive
      <3>2. q \notin mailed
        BY <3>1 DEF MailInv
      <3>3. QED
        BY <3>1, <3>2, PresentedType
    <2>3. QED
      BY <1>0, <1>3, <2>1, <2>2, PresentedType DEF Receive
  <1>4. QED
    BY <1>1, <1>2, <1>3

\* A request keeps what is known of the tokens that are stored.
LEMMA StoredStep ==
  ASSUME IInv, NEW q \in Requests, RequestStep(q)
  PROVE  StoredInv'
  <1> USE DEF IInv, TypeOK, Makers
  <1>1. tokens'[Before] # "none"
    BY StoredStays DEF StoredInv
  <1>2. ASSUME NEW p \in Requests, p # q
        PROVE  /\ tokens'[p] # "none" => pc'[p] \in {"answer", "done", "raised"}
               /\ kind'[p] \in {"login", "refresh"} /\ pc'[p] \in {"answer", "done"}
                    => tokens'[p] # "none"
               /\ kind'[p] = "refresh" /\ tokens'[p] # "none" => tokens'[secret'[p]] = "revoked"
               /\ kind'[p] \in {"refresh", "logout"} /\ pc'[p] # "idle"
                    => tokens'[secret'[p]] # "none"
    <2>1. kind' = kind /\ pc'[p] = pc[p] /\ secret'[p] = secret[p]
      BY <1>2, OthersStay
    <2>2. kind[p] \in {"refresh", "logout"} => secret[p] \in Makers
      BY DEF SecretInv
    <2>3. QED
      BY <1>2, <2>1, <2>2, StoredByCommit, RevokedStays, StoredStays DEF StoredInv
  <1>3. /\ tokens'[q] # "none" => pc'[q] \in {"answer", "done", "raised"}
        /\ kind'[q] \in {"login", "refresh"} /\ pc'[q] \in {"answer", "done"}
             => tokens'[q] # "none"
        /\ kind'[q] = "refresh" /\ tokens'[q] # "none" => tokens'[secret'[q]] = "revoked"
        /\ kind'[q] \in {"refresh", "logout"} /\ pc'[q] # "idle"
             => tokens'[secret'[q]] # "none"
    <2>1. CASE Receive(q)
      <3>1. PICK s \in Presented(kind[q]) : secret' = [secret EXCEPT ![q] = s]
        BY <2>1 DEF Receive
      <3>2. tokens' = tokens /\ kind' = kind /\ pc[q] = "idle"
            /\ pc'[q] \in {"received", "done", "refused"}
            /\ (pc'[q] = "done" => kind[q] = "forgot")
        BY <2>1 DEF Receive, Goto
      <3>3. tokens[q] = "none"
        BY <3>2 DEF StoredInv
      <3>4. kind[q] \in {"refresh", "logout"} => tokens[s] # "none"
        BY <3>1, <3>2 DEF Presented, StoredInv, Kinds
      <3>5. QED
        BY <3>1, <3>2, <3>3, <3>4
    <2>2. CASE CommitTokens(q)
      <3>1. kind[q] \in {"login", "refresh", "logout"}
        BY <2>2 DEF CommitTokens
      <3>2. QED
        BY <2>2, <3>1, CommitFacts DEF SecretInv
    <2>3. CASE ~Receive(q) /\ ~CommitTokens(q)
      <3>1. tokens' = tokens /\ pc[q] # "idle" /\ kind' = kind /\ secret' = secret
        <4>1. pc[q] # "idle"
          BY <2>3 DEF RequestStep, Step, FindToken, RevokeToken, FindUser, CommitUser,
            SendLink, Answer, Fail
        <4>2. QED
          BY <2>3, <4>1, TokensChange, OthersStay
      <3>2. /\ pc[q] \in {"answer", "done", "raised"} => pc'[q] \in {"done", "raised"}
            /\ pc'[q] \in {"answer", "done"} /\ kind[q] \in {"login", "refresh"}
                 => pc[q] = "answer"
        BY <2>3 DEF RequestStep, Step, FindToken, RevokeToken, FindUser, CommitUser,
            SendLink, Answer, Fail, Goto, Ended, MailInv, Kinds
      <3>3. QED
        BY <3>1, <3>2 DEF StoredInv
    <2>4. QED
      BY <2>1, <2>2, <2>3
  <1>4. QED
    BY <1>1, <1>2, <1>3 DEF StoredInv

\* Who has revoked a token has done so for good, and who revokes one leaves a trace.
LEMMA RevokedStep ==
  ASSUME IInv, NEW q \in Requests, RequestStep(q)
  PROVE  RevokedInv'
  <1> USE DEF IInv, TypeOK
  <1> SUFFICES ASSUME NEW t \in Makers, tokens'[t] = "revoked"
               PROVE  \E p \in Requests : RevokedBy(t, p)'
    BY DEF RevokedInv
  <1>1. CASE tokens[t] = "revoked"
    <2>1. PICK p \in Requests : RevokedBy(t, p)
      BY <1>1 DEF RevokedInv
    <2>2. secret'[p] = secret[p] /\ kind' = kind /\ pc'[p] # "idle"
      <3>1. CASE p # q
        BY <2>1, <3>1, OthersStay DEF RevokedBy
      <3>2. CASE p = q
        <4>1. pc'[q] # "idle"
          BY DEF RequestStep, Step, Receive, FindToken, RevokeToken, CommitTokens, FindUser,
            CommitUser, SendLink, Answer, Fail, Goto
        <4>2. QED
          BY <2>1, <3>2, <4>1, OthersStay DEF RevokedBy
      <3>3. QED
        BY <3>1, <3>2
    <2>3. kind[p] = "refresh" => tokens'[p] # "none"
      BY <2>1, StoredStays DEF RevokedBy, Makers
    <2>4. QED
      BY <2>1, <2>2, <2>3 DEF RevokedBy
  <1>2. CASE tokens[t] # "revoked"
    <2>1. CommitTokens(q)
      BY <1>2, TokensChange
    <2>2. kind[q] \in {"login", "refresh", "logout"}
      BY <2>1 DEF CommitTokens
    <2>3. kind[q] # "login" /\ t = secret[q]
      <3>1. t = q => kind[q] = "logout" /\ tokens'[q] = "none"
        BY <2>1, <2>2, CommitFacts
      <3>2. QED
        BY <1>2, <2>1, <3>1, CommitFacts
    <2>4. pc'[q] = "answer" /\ secret' = secret /\ kind' = kind
          /\ (kind[q] = "refresh" => tokens'[q] = "live")
      BY <2>1, CommitFacts
    <2>5. RevokedBy(t, q)'
      BY <2>2, <2>3, <2>4 DEF RevokedBy
    <2>6. QED
      BY <2>5
  <1>3. QED
    BY <1>1, <1>2

\* A refresh that comes too late finds its token revoked.
LEMMA LateStep ==
  ASSUME IInv, NEW q \in Requests, RequestStep(q)
  PROVE  LateInv'
  <1> USE DEF IInv, TypeOK
  <1> SUFFICES ASSUME NEW p \in Requests, p \in late'
               PROVE  /\ kind'[p] = "refresh" /\ tokens'[secret'[p]] = "revoked"
                      /\ tokens'[p] = "none"
                      /\ pc'[p] \in {"received", "refused", "raised"}
    BY TypeStep DEF LateInv
  <1>1. CASE p \in late
    <2>1. /\ kind[p] = "refresh" /\ tokens[secret[p]] = "revoked" /\ tokens[p] = "none"
          /\ pc[p] \in {"received", "refused", "raised"} /\ secret[p] \in Makers
      BY <1>1 DEF LateInv, SecretInv
    <2>2. kind' = kind /\ secret'[p] = secret[p]
      BY <2>1, OthersStay
    <2>3. tokens'[secret[p]] = "revoked"
      BY <2>1, RevokedStays
    <2>4. pc'[p] \in {"received", "refused", "raised"}
      <3>1. CASE p # q
        BY <2>1, <3>1, OthersStay
      <3>2. CASE p = q
        BY <2>1, <3>2 DEF RequestStep, Step, Receive, FindToken, RevokeToken, CommitTokens,
          FindUser, CommitUser, SendLink, Answer, Fail, Goto, Ended
      <3>3. QED
        BY <3>1, <3>2
    <2>5. tokens'[p] = "none"
      BY <2>1, StoredByCommit DEF CommitTokens
    <2>6. QED
      BY <2>1, <2>2, <2>3, <2>4, <2>5
  <1>2. CASE p \notin late
    <2>1. Receive(q)
      BY <1>2 DEF RequestStep, Step, FindToken, RevokeToken, CommitTokens,
        FindUser, CommitUser, SendLink, Answer, Fail
    <2>2. PICK s \in Presented(kind[q]) :
            /\ secret' = [secret EXCEPT ![q] = s]
            /\ late' = IF kind[q] = "refresh" /\ tokens[s] = "revoked"
                         THEN late \union {q} ELSE late
      BY <2>1 DEF Receive
    <2>3. p = q /\ kind[q] = "refresh" /\ tokens[s] = "revoked"
      BY <1>2, <2>2
    <2>4. tokens' = tokens /\ tokens[q] = "none"
      BY <2>1 DEF Receive, StoredInv
    <2>5. QED
      BY <2>1, <2>2, <2>3, <2>4 DEF Receive, Goto
  <1>3. QED
    BY <1>1, <1>2

\* A link is sent after it was stored.
LEMMA MailStep ==
  ASSUME IInv, NEW q \in Requests, RequestStep(q)
  PROVE  MailInv'
  <1> USE DEF IInv, TypeOK, MailInv
  <1>1. /\ minted \subseteq minted' /\ minted' \subseteq minted \union {q}
        /\ mailed' \subseteq mailed \union {q}
        /\ q \in mailed' \ mailed => pc[q] = "mail"
        /\ pc'[q] # "idle"
        /\ pc'[q] = "mail" => q \in minted' /\ kind[q] = "forgot"
    BY DEF RequestStep, Step, Receive, FindToken, RevokeToken, CommitTokens, FindUser,
      CommitUser, SendLink, Answer, Fail, Goto, Ended
  <1>2. mailed' \subseteq minted'
    BY <1>1
  <1>3. QED
    BY <1>1, <1>2, OthersStay

-----------------------------------------------------------------------------
\* What carries the argument always holds, for any number of requests.
THEOREM InductiveInvariant == Spec => []IInv
  <1>1. Init => IInv
    <2> SUFFICES ASSUME Init PROVE IInv
      OBVIOUS
    <2> USE DEF Init, Makers
    <2>1. TypeOK
      BY DEF TypeOK, User, Ended
    <2>2. SecretInv /\ MailInv
      BY DEF SecretInv, MailInv, Kinds
    <2>3. StoredInv /\ RevokedInv /\ LateInv
      BY DEF StoredInv, RevokedInv, LateInv
    <2>4. QED
      BY <2>1, <2>2, <2>3 DEF IInv
  <1>2. IInv /\ [Next]_vars => IInv'
    <2> SUFFICES ASSUME IInv, [Next]_vars PROVE IInv'
      OBVIOUS
    <2>1. ASSUME NEW q \in Requests, RequestStep(q) PROVE IInv'
      BY <2>1, TypeStep, SecretStep, StoredStep, RevokedStep, LateStep, MailStep DEF IInv
    <2>2. CASE UNCHANGED vars
      BY <2>2 DEF vars, IInv, TypeOK, SecretInv, StoredInv, RevokedInv, RevokedBy, LateInv, MailInv
    <2>3. QED
      BY <2>1, <2>2 DEF Next, RequestStep
  <1>3. QED
    BY <1>1, <1>2, PTL DEF Spec

\* The types hold, and who has a row locked is about to commit its revocation.
THEOREM TypeCorrect == Spec => []TypeOK
  BY InductiveInvariant, PTL DEF IInv

\* A rotation is stored whole, whatever fails in the middle of it and whoever refreshes or
\* logs out with the same token at the same time; its answer may still be lost.
THEOREM RotationsAreWhole == Spec => []RotationWhole
  <1>1. IInv => RotationWhole
    BY DEF IInv, StoredInv, RevokedInv, RevokedBy, RotationWhole
  <1>2. QED
    BY <1>1, InductiveInvariant, PTL

\* A refresh that comes after its token was revoked gets none.
THEOREM RevokedAreRefused == Spec => []RevokedIsRefused
  <1>1. IInv => RevokedIsRefused
    <2> SUFFICES ASSUME IInv, NEW q \in late PROVE tokens[q] = "none" /\ pc[q] # "done"
      BY DEF RevokedIsRefused
    <2>1. q \in Requests /\ pc[q] \in {"received", "refused", "raised"} /\ kind[q] = "refresh"
      BY DEF IInv, TypeOK, LateInv
    <2>2. QED
      BY <2>1 DEF IInv, LateInv
  <1>2. QED
    BY <1>1, InductiveInvariant, PTL

\* No link is sent that was not stored.
THEOREM MailedLinksWereStored == Spec => []MailedIsStored
  BY InductiveInvariant, PTL DEF IInv, MailInv, MailedIsStored

\* A password or link comes back with no commit, however old the instance is that the
\* session of the request has read.
THEOREM DeadSecretsStayDead == Spec => SecretsStayDead
  <1> DEFINE Fresh ==
        /\ user'.password # user.password =>
             \E q \in Requests : /\ user'.password = q /\ pc[q] = "commit"
                               /\ kind[q] \in {"change", "reset"}
        /\ user'.reset \notin {user.reset, NoSecret} =>
             \E q \in Requests : user'.reset = q /\ pc[q] = "commit" /\ kind[q] = "forgot"
  <1>1. TypeOK /\ [Next]_vars => [Fresh]_vars
    <2> SUFFICES ASSUME TypeOK, NEW q \in Requests, RequestStep(q)
                 PROVE  Fresh
      BY DEF Next, RequestStep
    <2>1. CASE CommitUser(q)
      <3>1. user \in User /\ pc[q] = "commit" /\ kind[q] \in {"change", "forgot", "reset"}
        BY <2>1 DEF CommitUser, TypeOK
      <3>2. CASE kind[q] = "change"
        <4>1. user' = Written(q, {"password"})
          BY <2>1, <3>2 DEF CommitUser
        <4>2. user'.password = q /\ user'.reset = user.reset
          BY <3>1, <4>1, WrittenType
        <4>3. QED
          BY <3>1, <3>2, <4>2
      <3>3. CASE kind[q] = "forgot"
        <4>1. user' = Written(q, {"reset"})
          BY <2>1, <3>3 DEF CommitUser
        <4>2. user'.password = user.password /\ user'.reset = q
          BY <3>1, <3>3, <4>1, WrittenType
        <4>3. QED
          BY <3>1, <3>3, <4>2
      <3>4. CASE kind[q] = "reset"
        <4>1. user' \in {Written(q, {"password", "reset"}), Written(q, {"reset"})}
          BY <2>1, <3>4 DEF CommitUser
        <4>2. user'.password \in {q, user.password} /\ user'.reset = NoSecret
          BY <3>1, <3>4, <4>1, WrittenType
        <4>3. QED
          BY <3>1, <3>4, <4>2
      <3>5. QED
        BY <3>1, <3>2, <3>3, <3>4
    <2>2. CASE ~CommitUser(q)
      <3>1. user' = user
        BY <2>2 DEF RequestStep, Step, Receive, FindToken, RevokeToken, CommitTokens, FindUser,
          SendLink, Answer, Fail
      <3>2. QED
        BY <3>1
    <2>3. QED
      BY <2>1, <2>2
  <1>2. QED
    BY <1>1, TypeCorrect, PTL DEF Spec, SecretsStayDead
=============================================================================
