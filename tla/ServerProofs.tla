----------------------------- MODULE ServerProofs -----------------------------
(***************************************************************************)
(* Theorems about what the server keeps, for any number of accounts,       *)
(* tokens, requests and writers: the tokens and the session of the phone   *)
(* (Accounts), the distance of a trip (TripRecords), the shape of a        *)
(* geofence (Geofences), the two tables of the saved routes and the phone  *)
(* that follows their feed (RouteFeed).                                    *)
(***************************************************************************)
EXTENDS Accounts, TripRecords, Geofences, RouteFeed, FiniteSetTheorems, TLAPS

-----------------------------------------------------------------------------
(* Accounts.  A login has one live token, and the session of the phone     *)
(* lasts as long as nobody disturbs its account.                           *)

(* Steps of a request that look at the token it carries. *)
WithToken == {"find", "claim", "commit", "reuse", "revoke"}
StepsOf(s) ==
  IF s = "enter" THEN {"free", "register", "password", "create", "issue", "revoke", "granted", "refused"}
  ELSE Step \ {"register", "password", "create", "issue", "revoke"}

(* A token that was issued has an account and the login it descends from. *)
TokensAreIssued ==
  \A t \in Token :
    IF token[t].state = "unused" THEN token[t] = Unused
    ELSE token[t].owner \in Account /\ token[t].login \in Token /\ token[token[t].login].state # "unused"

(* Each kind of request goes through its own steps, for an account. *)
RequestsAreOfTheirKind ==
  \A s \in Slot :
    /\ req[s].step \in StepsOf(s)
    /\ ~At(s, "free") => req[s].owner \in Account
    /\ req[s].step \in WithToken => req[s].token \in Token /\ token[req[s].token].state # "unused"
    /\ s # "enter" /\ At(s, "granted") => req[s].next \in Token
    /\ req[s].next # None => token[req[s].next].state # "unused"
    /\ \A t \in req[s].seen : token[t].state # "unused"

(* A transaction that claimed a token has it for itself until it commits. *)
ClaimsAreExclusive ==
  \A s \in Slot : At(s, "commit") =>
    /\ token[req[s].token].state = "live"
    /\ \A r \in Slot : At(r, "commit") /\ req[r].token = req[s].token => r = s

SessionIsIssued == session # NoSession => token[session.token].state # "unused"

AccountsInv ==
  AccountsTypeOK /\ TokensAreIssued /\ RequestsAreOfTheirKind /\ SessionIsIssued
  /\ ClaimsAreExclusive /\ OneLivePerLogin


LEMMA NextTokenIsUnused ==
  ASSUME UnusedTokens # {}
  PROVE  NextToken \in Token /\ token[NextToken].state = "unused"
  BY DEF NextToken, UnusedTokens

LEMMA NoneIsNoToken == None \notin Token
  BY AccountsAssumption DEF None, Token

LEMMA AccountsInitInv == AccountsInit => AccountsInv
  <1> SUFFICES ASSUME AccountsInit PROVE AccountsInv
    OBVIOUS
  <1>1. AccountsTypeOK
    BY DEF AccountsInit, AccountsTypeOK, Unused, Row, Free, Request, Step, NoSession
  <1>2. TokensAreIssued /\ OneLivePerLogin
    BY DEF AccountsInit, TokensAreIssued, OneLivePerLogin, Unused
  <1>3. RequestsAreOfTheirKind /\ ClaimsAreExclusive
    BY DEF AccountsInit, RequestsAreOfTheirKind, ClaimsAreExclusive, Free, At, Slot, StepsOf, Step,
           WithToken
  <1>4. SessionIsIssued
    BY DEF AccountsInit, SessionIsIssued
  <1> QED  BY <1>1, <1>2, <1>3, <1>4 DEF AccountsInv

(* A step that leaves the tokens alone keeps what is said of them. *)
LEMMA SameTokens ==
  ASSUME AccountsInv, UNCHANGED token
  PROVE  TokensAreIssued' /\ OneLivePerLogin'
  BY DEF AccountsInv, TokensAreIssued, OneLivePerLogin

(* A request that goes on to a step of its kind, which needs no claim. *)
LEMMA GoesOn ==
  ASSUME AccountsInv, NEW s \in Slot, NEW n \in Step, Go(s, n),
         n \in StepsOf(s), n # "commit", n # "granted", ~At(s, "free"),
         n \in WithToken => req[s].step \in WithToken,
         UNCHANGED <<token, session, disturbed>>, user' \subseteq Account
  PROVE  AccountsInv'
  <1> USE DEF AccountsInv
  <1>1. req' = [req EXCEPT ![s].step = n] /\ req'[s] = [req[s] EXCEPT !.step = n]
        /\ \A r \in Slot : r # s => req'[r] = req[r]
    BY DEF Go, AccountsTypeOK, Request
  <1>2. req[s] \in Request
    BY DEF AccountsTypeOK
  <1>3. /\ req'[s].step = n /\ req'[s].owner = req[s].owner /\ req'[s].token = req[s].token
        /\ req'[s].next = req[s].next /\ req'[s].seen = req[s].seen
    BY <1>1, <1>2 DEF Request
  <1>4. AccountsTypeOK'
    BY <1>1 DEF AccountsTypeOK, Request
  <1>5. RequestsAreOfTheirKind'
    BY <1>1, <1>3 DEF RequestsAreOfTheirKind, At
  <1>6. ClaimsAreExclusive'
    BY <1>1, <1>3 DEF ClaimsAreExclusive, At
  <1>7. SessionIsIssued'
    BY DEF SessionIsIssued
  <1> QED  BY <1>4, <1>5, <1>6, <1>7, SameTokens

(* A new request, about a token that was issued or about none. *)
LEMMA Posted ==
  ASSUME AccountsInv, NEW s \in Slot, NEW n \in Step, NEW a \in Account, NEW t \in Token \cup {None},
         Post(s, n, a, t), n \in StepsOf(s) \ {"commit", "granted", "free"},
         n \in WithToken => t \in Token /\ token[t].state # "unused",
         UNCHANGED <<user, token, session>>, disturbed' \subseteq Account \cup {NoAccount}
  PROVE  AccountsInv'
  <1> USE DEF AccountsInv
  <1>1. /\ req' = [req EXCEPT ![s] = [step |-> n, owner |-> a, token |-> t, next |-> None, seen |-> {}]]
        /\ \A r \in Slot : r # s => req'[r] = req[r]
    BY DEF Post, AccountsTypeOK
  <1>2. req'[s] = [step |-> n, owner |-> a, token |-> t, next |-> None, seen |-> {}]
    BY <1>1 DEF AccountsTypeOK
  <1>3. AccountsTypeOK'
    <2>1. [step |-> n, owner |-> a, token |-> t, next |-> None, seen |-> {}] \in Request
      BY DEF Request
    <2> QED  BY <1>1, <2>1 DEF AccountsTypeOK
  <1>4. RequestsAreOfTheirKind'
    BY <1>1, <1>2 DEF RequestsAreOfTheirKind, At
  <1>5. ClaimsAreExclusive'
    BY <1>1, <1>2 DEF ClaimsAreExclusive, At
  <1>6. SessionIsIssued'
    BY DEF SessionIsIssued
  <1> QED  BY <1>3, <1>4, <1>5, <1>6, SameTokens

(* A request that ends, whatever session it leaves. *)
LEMMA Ended ==
  ASSUME AccountsInv, NEW s \in Slot, End(s), UNCHANGED <<user, token>>,
         session' = NoSession \/ session' \in [owner : Account, token : Token],
         session' # NoSession => token[session'.token].state # "unused",
         disturbed' \subseteq Account \cup {NoAccount}
  PROVE  AccountsInv'
  <1> USE DEF AccountsInv
  <1>1. req'[s] = Free /\ \A r \in Slot : r # s => req'[r] = req[r]
    BY DEF End, AccountsTypeOK
  <1>2. AccountsTypeOK'
    BY DEF End, Free, Request, Step, AccountsTypeOK
  <1>3. RequestsAreOfTheirKind'
    BY <1>1 DEF RequestsAreOfTheirKind, At, Free, StepsOf, Step, WithToken
  <1>4. ClaimsAreExclusive'
    BY <1>1 DEF ClaimsAreExclusive, At, Free
  <1>5. SessionIsIssued'
    BY DEF SessionIsIssued
  <1> QED  BY <1>2, <1>3, <1>4, <1>5, SameTokens

(* Revoking tokens that no transaction holds. *)
LEMMA Revoked ==
  ASSUME AccountsInv, NEW S \in SUBSET Token, \A t \in S : token[t].state # "unused" /\ ~Locked(t),
         token' = [t \in Token |-> IF t \in S THEN [token[t] EXCEPT !.state = "revoked"] ELSE token[t]],
         NEW s \in Slot, NEW n \in {"granted", "revoked"}, n \in StepsOf(s),
         n = "granted" => s = "enter", req[s].step \in {"revoking", "revoke"},
         req' \in [Slot -> Request], req'[s].step = n, req'[s].owner = req[s].owner,
         req'[s].next = req[s].next, req'[s].seen \subseteq req[s].seen,
         \A r \in Slot : r # s => req'[r] = req[r],
         UNCHANGED <<user, session, disturbed>>
  PROVE  AccountsInv'
  <1> USE DEF AccountsInv
  <1>1. token' \in [Token -> Row]
    BY DEF AccountsTypeOK, Row
  <1>2. \A t \in Token : /\ token'[t].owner = token[t].owner /\ token'[t].login = token[t].login
                         /\ (token'[t].state = "unused") <=> (token[t].state = "unused")
                         /\ token'[t].state = "live" => token[t].state = "live"
                         /\ t \notin S => token'[t] = token[t]
    BY DEF AccountsTypeOK, Row
  <1>3. TokensAreIssued'
    BY <1>2 DEF TokensAreIssued, Unused
  <1>4. OneLivePerLogin'
    BY <1>2 DEF OneLivePerLogin
  <1>5. AccountsTypeOK'
    BY <1>1 DEF AccountsTypeOK
  <1>6. RequestsAreOfTheirKind'
    BY <1>2, NoneIsNoToken DEF RequestsAreOfTheirKind, At, WithToken, AccountsTypeOK, Request
  <1>7. ClaimsAreExclusive'
    BY <1>2 DEF ClaimsAreExclusive, RequestsAreOfTheirKind, WithToken, At, Locked
  <1>8. SessionIsIssued'
    BY <1>2 DEF SessionIsIssued, AccountsTypeOK
  <1> QED  BY <1>3, <1>4, <1>5, <1>6, <1>7, <1>8

(* A fresh token is granted to the login it descends from, which has no other live token then. *)
Grants(s, a, l) ==
  /\ UnusedTokens # {}
  /\ req[s].step \in {"issue", "commit"}
  /\ l = NextToken \/ token[l].state # "unused"
  /\ token' \in [Token -> Row]
  /\ token'[NextToken] = [owner |-> a, login |-> l, state |-> "live"]
  /\ \A t \in Token \ {NextToken} :
       /\ token'[t].owner = token[t].owner /\ token'[t].login = token[t].login
       /\ token'[t].state = token[t].state
            \/ (/\ token[t].state # "unused" /\ token'[t].state = "revoked"
                /\ At(s, "commit") /\ t = req[s].token)
       /\ token'[t].state = "live" => token'[t].login # l
  /\ req' = [req EXCEPT ![s].step = "granted", ![s].next = NextToken]
  /\ UNCHANGED <<user, session, disturbed>>

LEMMA Granted ==
  ASSUME AccountsInv, NEW s \in Slot, NEW a \in Account, NEW l \in Token, Grants(s, a, l)
  PROVE  AccountsInv'
  <1> USE DEF AccountsInv, Grants
  <1>1. NextToken \in Token /\ token[NextToken].state = "unused"
    BY NextTokenIsUnused
  <1>2. /\ req' \in [Slot -> Request]
        /\ req'[s].step = "granted" /\ req'[s].owner = req[s].owner /\ req'[s].token = req[s].token
        /\ req'[s].next = NextToken /\ req'[s].seen = req[s].seen
        /\ \A r \in Slot : r # s => req'[r] = req[r]
    <2>1. req[s] \in Request /\ NextToken \in Token
      BY <1>1 DEF AccountsTypeOK
    <2>2. [req[s] EXCEPT !.step = "granted", !.next = NextToken] \in Request
      BY <2>1 DEF Request, Step
    <2>3. /\ req'[s] = [req[s] EXCEPT !.step = "granted", !.next = NextToken]
          /\ \A r \in Slot : r # s => req'[r] = req[r]
          /\ req' \in [Slot -> Request]
      BY <2>2 DEF AccountsTypeOK
    <2> QED  BY <2>1, <2>3 DEF Request
  <1>3. \A t \in Token : token[t].state # "unused" => token'[t].state # "unused"
    BY <1>1
  <1>4. AccountsTypeOK'
    BY <1>2 DEF AccountsTypeOK
  <1>5. TokensAreIssued'
    <2> SUFFICES ASSUME NEW t \in Token
                 PROVE  IF token'[t].state = "unused" THEN token'[t] = Unused
                        ELSE token'[t].owner \in Account /\ token'[t].login \in Token
                             /\ token'[token'[t].login].state # "unused"
      BY DEF TokensAreIssued
    <2>1. CASE t = NextToken
      BY <2>1, <1>1, <1>3
    <2>2. CASE t # NextToken /\ token'[t].state = "unused"
      <3>1. token[t] = Unused
        BY <2>2 DEF TokensAreIssued
      <3>2. token[t] \in Row /\ token'[t] \in Row
        BY DEF AccountsTypeOK
      <3> QED  BY <2>2, <3>1, <3>2 DEF Row, Unused
    <2>3. CASE t # NextToken /\ token'[t].state # "unused"
      BY <2>3, <1>3 DEF TokensAreIssued
    <2> QED  BY <2>1, <2>2, <2>3
  <1>6. OneLivePerLogin'
    <2>1. \A t \in Token \ {NextToken} : token'[t].state = "live" => token[t].state = "live"
      OBVIOUS
    <2> QED  BY <2>1, <1>1 DEF OneLivePerLogin
  <1>7. RequestsAreOfTheirKind'
    BY <1>1, <1>2, <1>3, NoneIsNoToken
      DEF RequestsAreOfTheirKind, At, WithToken, StepsOf, AccountsTypeOK, Request, Step
  <1>8. ClaimsAreExclusive'
    <2> SUFFICES ASSUME NEW r \in Slot, At(r, "commit")'
                 PROVE  /\ token'[req'[r].token].state = "live"
                        /\ \A q \in Slot : At(q, "commit")' /\ req'[q].token = req'[r].token => q = r
      BY DEF ClaimsAreExclusive
    <2>1. r # s /\ req'[r] = req[r] /\ At(r, "commit")
      BY <1>2 DEF At
    <2>2. req[r].token \in Token \ {NextToken} /\ token[req[r].token].state = "live"
      BY <2>1, <1>1 DEF ClaimsAreExclusive, RequestsAreOfTheirKind, WithToken, At
    <2>3. ~(At(s, "commit") /\ req[s].token = req[r].token)
      BY <2>1 DEF ClaimsAreExclusive
    <2>4. token'[req[r].token].state = "live"
      BY <2>2, <2>3
    <2> QED  BY <2>1, <2>4, <1>2 DEF ClaimsAreExclusive, At
  <1>9. SessionIsIssued'
    BY <1>3 DEF SessionIsIssued, AccountsTypeOK
  <1> QED  BY <1>4, <1>5, <1>6, <1>7, <1>8, <1>9

-----------------------------------------------------------------------------
(* The server's steps, the phone's, and what disturbs them.                *)

LEMMA ServerKeepsInv ==
  ASSUME AccountsInv, NEW s \in Slot, ServerStep(s)
  PROVE  AccountsInv'
  <1> USE DEF AccountsInv
  <1>0. /\ req[s] \in Request /\ req[s].step \in StepsOf(s) /\ (~At(s, "free") => req[s].owner \in Account)
        /\ (req[s].step \in WithToken => req[s].token \in Token /\ token[req[s].token].state # "unused")
        /\ user \subseteq Account
    BY DEF AccountsTypeOK, RequestsAreOfTheirKind
  <1>1. CASE FindEmail(s)
    BY <1>1, <1>0, GoesOn DEF FindEmail, At, Server, Phone, StepsOf, Step, WithToken
  <1>2. CASE CreateUser(s)
    BY <1>2, <1>0, GoesOn DEF CreateUser, At, Phone, StepsOf, Step, WithToken
  <1>3. CASE Password(s)
    BY <1>3, <1>0, GoesOn DEF Password, At, Server, Phone, StepsOf, Step, WithToken
  <1>4. CASE Issue(s)
    <2>1. NextToken \in Token /\ token[NextToken].state = "unused"
      BY <1>4, NextTokenIsUnused DEF Issue
    <2>2. [owner |-> req[s].owner, login |-> NextToken, state |-> "live"] \in Row
      BY <2>1, <1>0, <1>4 DEF Issue, At, Row
    <2>3. /\ token'[NextToken] = [owner |-> req[s].owner, login |-> NextToken, state |-> "live"]
          /\ token' \in [Token -> Row]
          /\ \A t \in Token \ {NextToken} : token'[t] = token[t]
      BY <2>1, <2>2, <1>4 DEF Issue, AccountsTypeOK
    <2>4. \A t \in Token : token[t].state = "live" => token[t].login # NextToken
      BY <2>1 DEF TokensAreIssued
    <2>5. \A t \in Token \ {NextToken} :
           /\ token'[t].owner = token[t].owner /\ token'[t].login = token[t].login
           /\ token'[t].state = token[t].state
                \/ (/\ token[t].state # "unused" /\ token'[t].state = "revoked"
                    /\ At(s, "commit") /\ t = req[s].token)
           /\ token'[t].state = "live" => token'[t].login # NextToken
      BY <2>3, <2>4
    <2>6. /\ UnusedTokens # {} /\ req[s].step \in {"issue", "commit"} /\ req[s].owner \in Account
          /\ req' = [req EXCEPT ![s].step = "granted", ![s].next = NextToken]
          /\ UNCHANGED <<user, session, disturbed>>
      BY <1>0, <1>4 DEF Issue, At, Phone
    <2>7. Grants(s, req[s].owner, NextToken)
      BY <2>3, <2>5, <2>6 DEF Grants
    <2> QED  BY <2>1, <2>6, <2>7, Granted
  <1>5. CASE FindToken(s)
    <2>1. \E n \in {"claim", "reuse", "refused"} : Go(s, n)
      BY <1>5 DEF FindToken
    <2> QED  BY <2>1, <1>5, <1>0, GoesOn DEF FindToken, At, Server, Phone, StepsOf, Step, WithToken
  <1>6. CASE Claim(s)
    <2>1. CASE token[req[s].token].state = "live"
      <3>1. /\ Go(s, "commit") /\ ~Locked(req[s].token) /\ At(s, "claim") /\ UNCHANGED <<user, token, session, disturbed>>
        BY <2>1, <1>6 DEF Claim, Server, Phone
      <3>2. /\ req'[s].step = "commit" /\ req'[s].owner = req[s].owner /\ req'[s].token = req[s].token
            /\ req'[s].next = req[s].next /\ req'[s].seen = req[s].seen
            /\ \A r \in Slot : r # s => req'[r] = req[r]
            /\ req' \in [Slot -> Request]
        BY <3>1, <1>0 DEF Go, AccountsTypeOK, Request, Step
      <3>3. RequestsAreOfTheirKind'
        BY <3>1, <3>2, <1>0 DEF RequestsAreOfTheirKind, At, WithToken, StepsOf, Step
      <3>4. ClaimsAreExclusive'
        BY <3>1, <3>2, <2>1 DEF ClaimsAreExclusive, Locked, At
      <3>5. AccountsTypeOK' /\ SessionIsIssued'
        BY <3>1, <3>2 DEF AccountsTypeOK, SessionIsIssued
      <3> QED  BY <3>1, <3>3, <3>4, <3>5, SameTokens
    <2>2. CASE token[req[s].token].state # "live"
      BY <2>2, <1>6, <1>0, GoesOn DEF Claim, At, Server, Phone, StepsOf, Step, WithToken
    <2> QED  BY <2>1, <2>2
  <1>7. CASE Commit(s)
    <2> DEFINE t0 == req[s].token
    <2>1. NextToken \in Token /\ token[NextToken].state = "unused"
      BY <1>7, NextTokenIsUnused DEF Commit
    <2>2. t0 \in Token /\ token[t0].state = "live" /\ t0 # NextToken
      BY <2>1, <1>0, <1>7 DEF Commit, At, WithToken, ClaimsAreExclusive
    <2>3. token[t0].owner \in Account /\ token[t0].login \in Token /\ token[token[t0].login].state # "unused"
      BY <2>2 DEF TokensAreIssued
    <2>4. Successor(t0) \in Row
      BY <2>3 DEF Successor, Row
    <2>5. /\ token'[NextToken] = Successor(t0)
          /\ token'[t0] = [token[t0] EXCEPT !.state = "revoked"]
          /\ token' \in [Token -> Row]
          /\ \A t \in Token \ {NextToken, t0} : token'[t] = token[t]
      <3>1. token[t0] \in Row
        BY <2>2 DEF AccountsTypeOK
      <3>2. [token[t0] EXCEPT !.state = "revoked"] \in Row
        BY <3>1 DEF Row
      <3> QED  BY <2>1, <2>2, <2>4, <3>2, <1>7 DEF Commit, AccountsTypeOK
    <2>6. /\ token'[t0].owner = token[t0].owner /\ token'[t0].login = token[t0].login
          /\ token'[t0].state = "revoked"
      BY <2>2, <2>5 DEF AccountsTypeOK, Row
    <2>7. \A t \in Token \ {NextToken, t0} : token'[t].state = "live" => token'[t].login # token[t0].login
      BY <2>2, <2>5 DEF OneLivePerLogin
    <2>8. \A t \in Token \ {NextToken} :
           /\ token'[t].owner = token[t].owner /\ token'[t].login = token[t].login
           /\ token'[t].state = token[t].state
                \/ (/\ token[t].state # "unused" /\ token'[t].state = "revoked"
                    /\ At(s, "commit") /\ t = req[s].token)
           /\ token'[t].state = "live" => token'[t].login # token[t0].login
      BY <2>2, <2>5, <2>6, <2>7, <1>7 DEF Commit
    <2>9. /\ UnusedTokens # {} /\ req[s].step \in {"issue", "commit"}
          /\ req' = [req EXCEPT ![s].step = "granted", ![s].next = NextToken]
          /\ UNCHANGED <<user, session, disturbed>>
      BY <1>7 DEF Commit, At, Phone
    <2>10. token'[NextToken] = [owner |-> token[t0].owner, login |-> token[t0].login, state |-> "live"]
      BY <2>5 DEF Successor
    <2>11. Grants(s, token[t0].owner, token[t0].login)
      BY <2>3, <2>5, <2>8, <2>9, <2>10 DEF Grants
    <2> QED  BY <2>3, <2>11, Granted
  <1>8. CASE Reuse(s)
    <2> DEFINE S == Live(token[req[s].token].owner)
    <2>1. S \subseteq Token /\ \A t \in S : token[t].state # "unused"
      BY DEF Live
    <2>2. req' = [req EXCEPT ![s].step = "revoking", ![s].seen = S]
          /\ UNCHANGED <<user, token, session, disturbed>> /\ At(s, "reuse")
      BY <1>8 DEF Reuse, Server, Phone
    <2>3. [req[s] EXCEPT !.step = "revoking", !.seen = S] \in Request
      BY <2>1, <1>0 DEF Request, Step
    <2>4. /\ req'[s] = [req[s] EXCEPT !.step = "revoking", !.seen = S]
          /\ \A r \in Slot : r # s => req'[r] = req[r]
          /\ req' \in [Slot -> Request]
      BY <2>2, <2>3 DEF AccountsTypeOK
    <2>5. req'[s].step = "revoking" /\ req'[s].seen = S /\ req'[s].owner = req[s].owner /\ req'[s].next = req[s].next
      BY <2>4, <1>0 DEF Request
    <2>6. RequestsAreOfTheirKind'
      BY <2>1, <2>2, <2>4, <2>5, <1>0 DEF RequestsAreOfTheirKind, At, WithToken, StepsOf, Step
    <2>7. ClaimsAreExclusive'
      BY <2>2, <2>4, <2>5 DEF ClaimsAreExclusive, At
    <2>8. AccountsTypeOK' /\ SessionIsIssued'
      BY <2>2, <2>4 DEF AccountsTypeOK, SessionIsIssued
    <2> QED  BY <2>2, <2>6, <2>7, <2>8, SameTokens
  <1>9. CASE RevokeAll(s)
    <2>1. \A t \in req[s].seen : t \in Token /\ token[t].state # "unused" /\ ~Locked(t)
      BY <1>9, <1>0 DEF RevokeAll, RequestsAreOfTheirKind, Request
    <2>2. "revoked" \in StepsOf(s)
      BY <1>9, <1>0 DEF RevokeAll, At, StepsOf, Step
    <2>3. [req[s] EXCEPT !.step = "revoked", !.seen = {}] \in Request
      BY <1>0 DEF Request, Step
    <2>4. /\ req'[s] = [req[s] EXCEPT !.step = "revoked", !.seen = {}]
          /\ \A r \in Slot : r # s => req'[r] = req[r]
          /\ req' \in [Slot -> Request]
      BY <1>9, <2>3 DEF RevokeAll, AccountsTypeOK
    <2>5. /\ req'[s].step = "revoked" /\ req'[s].seen = {} /\ req'[s].owner = req[s].owner
          /\ req'[s].next = req[s].next
      BY <2>4, <1>0 DEF Request
    <2>6. /\ token' = [t \in Token |-> IF t \in req[s].seen THEN [token[t] EXCEPT !.state = "revoked"] ELSE token[t]]
          /\ At(s, "revoking") /\ UNCHANGED <<user, session, disturbed>>
      BY <1>9 DEF RevokeAll, Phone
    <2>7. req[s].seen \in SUBSET Token
      BY <1>0 DEF Request
    <2> QED  BY <2>1, <2>2, <2>4, <2>5, <2>6, <2>7, Revoked DEF At
  <1>10. CASE Revoke(s)
    <2> DEFINE t0 == req[s].token
               S == IF token[t0].state = "live" THEN {t0} ELSE {}
    <2>1. s = "enter" /\ t0 \in Token /\ token[t0].state # "unused" /\ ~Locked(t0)
      BY <1>10, <1>0 DEF Revoke, At, StepsOf, WithToken
    <2>2. token' = [t \in Token |-> IF t \in S THEN [token[t] EXCEPT !.state = "revoked"] ELSE token[t]]
      BY <1>10, <2>1 DEF Revoke, AccountsTypeOK, Row
    <2>3. /\ req' \in [Slot -> Request] /\ req'[s].step = "granted" /\ req'[s].owner = req[s].owner
          /\ req'[s].next = req[s].next /\ req'[s].seen = req[s].seen
          /\ \A r \in Slot : r # s => req'[r] = req[r]
      BY <1>10, <1>0 DEF Revoke, Go, AccountsTypeOK, Request, Step
    <2>4. At(s, "revoke") /\ UNCHANGED <<user, session, disturbed>> /\ "granted" \in StepsOf(s)
      BY <1>10, <2>1 DEF Revoke, Phone, StepsOf
    <2>5. S \in SUBSET Token /\ \A t \in S : token[t].state # "unused" /\ ~Locked(t)
      BY <2>1
    <2> QED  BY <2>1, <2>2, <2>3, <2>4, <2>5, Revoked DEF At
  <1> QED
    BY <1>1, <1>2, <1>3, <1>4, <1>5, <1>6, <1>7, <1>8, <1>9, <1>10 DEF ServerStep

LEMMA PhoneKeepsInv ==
  ASSUME AccountsInv, PhoneStep
  PROVE  AccountsInv'
  <1> USE DEF AccountsInv
  <1>0. /\ \A s \in Slot : /\ req[s] \in Request
                           /\ (~At(s, "free") => req[s].owner \in Account)
                           /\ (req[s].next # None => token[req[s].next].state # "unused")
        /\ session # NoSession => /\ session.owner \in Account /\ session.token \in Token
                                  /\ token[session.token].state # "unused"
        /\ disturbed \subseteq Account \cup {NoAccount}
    BY DEF AccountsTypeOK, RequestsAreOfTheirKind, SessionIsIssued
  <1>1. ASSUME NEW a \in Account, Register(a) PROVE AccountsInv'
    BY <1>1, <1>0, Posted DEF Register, Server, Phone, Slot, Step, StepsOf, WithToken
  <1>2. ASSUME NEW a \in Account, Login(a) PROVE AccountsInv'
    BY <1>2, <1>0, Posted DEF Login, Server, Phone, Slot, Step, StepsOf, WithToken
  <1>3. CASE Entered
    <2>1. session' \in [owner : Account, token : Token] /\ token[session'.token].state # "unused"
      BY <1>3, <1>0 DEF Entered, At, Slot, Request
    <2> QED  BY <2>1, <1>3, <1>0, Ended DEF Entered, Server, Slot
  <1>4. CASE NotEntered
    BY <1>4, <1>0, Ended DEF NotEntered, Server, Phone, Slot, AccountsTypeOK
  <1>5. CASE Logout
    BY <1>5, <1>0, Posted DEF Logout, Server, Slot, Step, StepsOf, WithToken
  <1>6. CASE LoggedOut
    BY <1>6, <1>0, Ended DEF LoggedOut, Server, Slot
  <1>7. CASE Refresh
    BY <1>7, <1>0, Posted DEF Refresh, Server, Slot, Step, StepsOf, WithToken
  <1>8. CASE Refreshed
    <2>1. req["renew"].next \in Token
      BY <1>8 DEF Refreshed, RequestsAreOfTheirKind, Slot
    <2>2. session' \in [owner : Account, token : Token] /\ token[session'.token].state # "unused"
      BY <1>8, <1>0, <2>1, NoneIsNoToken DEF Refreshed, At, Slot, Request
    <2> QED  BY <2>2, <1>8, <1>0, Ended DEF Refreshed, Server, Slot
  <1>9. CASE Rejected
    BY <1>9, <1>0, Ended DEF Rejected, Server, Slot
  <1> QED  BY <1>1, <1>2, <1>3, <1>4, <1>5, <1>6, <1>7, <1>8, <1>9 DEF PhoneStep

LEMMA DisturbanceKeepsInv ==
  ASSUME AccountsInv,
         (\E t \in Token : Repeat(t)) \/ Repeated \/ (\E s \in Slot : Lose(s)) \/ Crash
  PROVE  AccountsInv'
  <1> USE DEF AccountsInv
  <1>0. /\ \A s \in Slot : req[s] \in Request
        /\ disturbed \subseteq Account \cup {NoAccount}
        /\ session # NoSession => token[session.token].state # "unused"
        /\ session = NoSession \/ session \in [owner : Account, token : Token]
    BY DEF AccountsTypeOK, SessionIsIssued
  <1>1. ASSUME NEW t \in Token, Repeat(t) PROVE AccountsInv'
    <2>1. token[t].owner \in Account
      BY <1>1 DEF Repeat, TokensAreIssued
    <2> QED  BY <2>1, <1>1, <1>0, Posted DEF Repeat, Server, Slot, Step, StepsOf, WithToken
  <1>2. CASE Repeated
    BY <1>2, <1>0, Ended DEF Repeated, Server, Phone, Slot
  <1>3. ASSUME NEW s \in Slot, Lose(s) PROVE AccountsInv'
    <2>1. disturbed' \subseteq Account \cup {NoAccount}
      BY <1>3, <1>0 DEF Lose, Request
    <2> QED  BY <2>1, <1>3, <1>0, Ended DEF Lose, Server
  <1>4. CASE Crash
    <2>1. req' = [s \in Slot |-> Free] /\ UNCHANGED <<user, token, session>>
      BY <1>4 DEF Crash, Server
    <2>2. disturbed' \subseteq Account \cup {NoAccount}
      BY <1>4, <1>0 DEF Crash, Request
    <2>3. AccountsTypeOK'
      BY <2>1, <2>2 DEF AccountsTypeOK, Free, Request, Step
    <2>4. RequestsAreOfTheirKind' /\ ClaimsAreExclusive'
      BY <2>1 DEF RequestsAreOfTheirKind, ClaimsAreExclusive, At, Free, StepsOf, Step, WithToken
    <2>5. SessionIsIssued'
      BY <2>1, <1>0 DEF SessionIsIssued
    <2> QED  BY <2>1, <2>3, <2>4, <2>5, SameTokens
  <1> QED  BY <1>1, <1>2, <1>3, <1>4

LEMMA AccountsNextKeepsInv == AccountsInv /\ [AccountsNext]_accountVars => AccountsInv'
  <1> SUFFICES ASSUME AccountsInv, [AccountsNext]_accountVars PROVE AccountsInv'
    OBVIOUS
  <1>1. CASE AccountsNext
    BY <1>1, ServerKeepsInv, PhoneKeepsInv, DisturbanceKeepsInv DEF AccountsNext
  <1>2. CASE UNCHANGED accountVars
    BY <1>2 DEF accountVars, AccountsInv, AccountsTypeOK, TokensAreIssued, RequestsAreOfTheirKind, SessionIsIssued,
                ClaimsAreExclusive, OneLivePerLogin, At
  <1> QED  BY <1>1, <1>2

-----------------------------------------------------------------------------
(* The session of the phone always has an account and a token the server   *)
(* issued, whatever answers are lost or arrive after a logout; requests    *)
(* and rows keep to their types (AuthService, SecureSessionStore).         *)
THEOREM AccountsTypeCorrect == AccountsSpec => []AccountsTypeOK
  <1>1. AccountsInv => AccountsTypeOK
    BY DEF AccountsInv
  <1> QED  BY <1>1, AccountsInitInv, AccountsNextKeepsInv, PTL DEF AccountsSpec

(* A login has at most one refresh token that works, however many requests *)
(* present its tokens at once and wherever the server stops                *)
(* (RefreshTokenRepository.rotate).                                        *)
THEOREM OneLiveTokenPerLogin == AccountsSpec => []OneLivePerLogin
  <1>1. AccountsInv => OneLivePerLogin
    BY DEF AccountsInv
  <1> QED  BY <1>1, AccountsInitInv, AccountsNextKeepsInv, PTL DEF AccountsSpec

-----------------------------------------------------------------------------
(* How a session lasts.  Of an account nobody disturbed, the phone has one *)
(* request at a time, and the token of its session works when none is      *)
(* under way.                                                              *)

(* A logout under way, or done and not yet known. *)
Leaving == req["enter"].step \in {"revoke", "granted"} /\ req["enter"].next = None

(* What a request holds of tokens is of the account it is for. *)
OwnersAgree ==
  /\ \A s \in Slot :
       /\ req[s].step \in WithToken => token[req[s].token].owner = req[s].owner
       /\ req[s].next # None => token[req[s].next].owner = req[s].owner
       /\ \A t \in req[s].seen : token[t].owner = req[s].owner
  /\ session # NoSession => token[session.token].owner = session.owner

CopiesDisturb == ~At("copy", "free") => req["copy"].owner \in disturbed

(* A refresh presents the token of the session, which works, and nobody    *)
(* revokes it meanwhile. *)
RenewsAreAlone ==
  ~At("renew", "free") /\ req["renew"].owner \notin disturbed =>
    /\ At("enter", "free")
    /\ session.owner = req["renew"].owner /\ session.token = req["renew"].token
    /\ req["renew"].step \in {"find", "claim", "commit", "granted", "refused"}
    /\ req["renew"].step \in {"find", "claim", "commit"} => token[req["renew"].token].state = "live"
    /\ At("renew", "granted") => token[req["renew"].next].state = "live"

(* A login begins without a session; a logout is of the one there is. *)
EntersAreAlone ==
  ~At("enter", "free") =>
    /\ \/ session = NoSession
       \/ session.owner \in disturbed
       \/ Leaving /\ session.owner = req["enter"].owner
    /\ ~At("enter", "granted") => req["enter"].next = None
    /\ At("enter", "granted") /\ req["enter"].next # None /\ req["enter"].owner \notin disturbed
         => token[req["enter"].next].state = "live"

SessionWorks ==
  /\ session # NoSession /\ session.owner \notin disturbed
  /\ At("enter", "free") /\ (At("renew", "free") \/ req["renew"].owner # session.owner)
  => token[session.token].state = "live"

LastsInv == OwnersAgree /\ CopiesDisturb /\ RenewsAreAlone /\ EntersAreAlone /\ SessionWorks

(* Tokens that were issued keep their account in a step of request s, and  *)
(* those of other accounts go on working. *)
TokensStay(s) ==
  \A t \in Token : token[t].state # "unused" =>
    /\ token'[t].owner = token[t].owner /\ token'[t].state # "unused"
    /\ token[t].state = "live" /\ token[t].owner # req[s].owner => token'[t].state = "live"

(* What every step of request s in the server leaves alone. *)
StepsAlone(s) ==
  /\ ~At(s, "free") /\ req'[s].step # "free"
  /\ req'[s].owner = req[s].owner /\ req'[s].token = req[s].token
  /\ \A r \in Slot : r # s => req'[r] = req[r]
  /\ UNCHANGED <<session, disturbed>>

LEMMA InitLasts == AccountsInit => LastsInv
  BY DEF AccountsInit, LastsInv, OwnersAgree, CopiesDisturb, RenewsAreAlone, EntersAreAlone, SessionWorks,
         At, Free, WithToken, Slot

(* What a request knows, for the steps below. *)
LEMMA RequestFacts ==
  ASSUME AccountsInv, NEW s \in Slot
  PROVE  /\ req[s] \in Request /\ req \in [Slot -> Request] /\ token \in [Token -> Row]
         /\ req[s].step \in StepsOf(s) /\ (~At(s, "free") => req[s].owner \in Account)
         /\ (req[s].step \in WithToken => req[s].token \in Token /\ token[req[s].token].state # "unused")
         /\ (req[s].next # None => req[s].next \in Token /\ token[req[s].next].state # "unused")
         /\ \A t \in req[s].seen : t \in Token /\ token[t].state # "unused"
         /\ session # NoSession => /\ session.owner \in Account /\ session.token \in Token
                                   /\ token[session.token].state # "unused"
  BY DEF AccountsInv, AccountsTypeOK, RequestsAreOfTheirKind, SessionIsIssued, Request

LEMMA StepLeaves ==
  ASSUME AccountsInv, NEW s \in Slot, ServerStep(s)
  PROVE  StepsAlone(s)
  <1>0. req \in [Slot -> Request]
    BY RequestFacts
  <1>1. ASSUME NEW n \in Step \ {"free"}, Go(s, n), ~At(s, "free"), UNCHANGED <<session, disturbed>>
        PROVE  StepsAlone(s)
    BY <1>0, <1>1 DEF Go, StepsAlone, Request
  <1>2. CASE FindEmail(s)
    BY <1>1, <1>2 DEF FindEmail, At, Phone, Step
  <1>3. CASE CreateUser(s)
    BY <1>1, <1>3 DEF CreateUser, At, Phone, Step
  <1>4. CASE Password(s)
    BY <1>1, <1>4 DEF Password, At, Phone, Step
  <1>5. CASE FindToken(s)
    BY <1>1, <1>5 DEF FindToken, At, Phone, Step
  <1>6. CASE Claim(s)
    BY <1>1, <1>6 DEF Claim, At, Phone, Step
  <1>7. CASE Revoke(s)
    BY <1>1, <1>7 DEF Revoke, At, Phone, Step
  <1>8. CASE Issue(s)
    BY <1>0, <1>8 DEF Issue, At, Phone, StepsAlone, Request
  <1>9. CASE Commit(s)
    BY <1>0, <1>9 DEF Commit, At, Phone, StepsAlone, Request
  <1>10. CASE Reuse(s)
    BY <1>0, <1>10 DEF Reuse, At, Phone, StepsAlone, Request
  <1>11. CASE RevokeAll(s)
    BY <1>0, <1>11 DEF RevokeAll, At, Phone, StepsAlone, Request
  <1> QED
    BY <1>2, <1>3, <1>4, <1>5, <1>6, <1>7, <1>8, <1>9, <1>10, <1>11 DEF ServerStep

(* A step of s that takes nothing new from the tokens. *)
LEMMA SameHold ==
  ASSUME AccountsInv, OwnersAgree, NEW s \in Slot, StepsAlone(s), TokensStay(s),
         req'[s].step \in WithToken => req[s].step \in WithToken,
         req'[s].next # None =>
           req'[s].next = req[s].next \/ token'[req'[s].next].owner = req[s].owner,
         \A t \in req'[s].seen : t \in req[s].seen \/ (t \in Token /\ token'[t].owner = req[s].owner)
  PROVE  OwnersAgree'
  <1>1. ASSUME NEW r \in Slot
        PROVE  /\ req'[r].step \in WithToken => token'[req'[r].token].owner = req'[r].owner
               /\ req'[r].next # None => token'[req'[r].next].owner = req'[r].owner
               /\ \A t \in req'[r].seen : token'[t].owner = req'[r].owner
    <2>1. CASE r = s
      BY <2>1, RequestFacts DEF OwnersAgree, StepsAlone, TokensStay
    <2>2. CASE r # s
      BY <2>2, RequestFacts DEF OwnersAgree, StepsAlone, TokensStay
    <2> QED  BY <2>1, <2>2
  <1>2. session' # NoSession => token'[session'.token].owner = session'.owner
    BY RequestFacts DEF OwnersAgree, StepsAlone, TokensStay
  <1> QED  BY <1>1, <1>2 DEF OwnersAgree

LEMMA ServerKeepsOwners ==
  ASSUME AccountsInv, OwnersAgree, NEW s \in Slot, ServerStep(s)
  PROVE  TokensStay(s) /\ OwnersAgree'
  <1>0. /\ req[s] \in Request /\ req \in [Slot -> Request] /\ token \in [Token -> Row]
        /\ (req[s].step \in WithToken => req[s].token \in Token /\ token[req[s].token].state # "unused"
                                         /\ token[req[s].token].owner = req[s].owner)
    BY RequestFacts DEF OwnersAgree
  <1>s. StepsAlone(s)
    BY StepLeaves
  <1>1. ASSUME NEW n \in Step, Go(s, n), n \in WithToken => req[s].step \in WithToken, UNCHANGED token
        PROVE  TokensStay(s) /\ OwnersAgree'
    <2>1. req'[s].step = n /\ req'[s].next = req[s].next /\ req'[s].seen = req[s].seen
      BY <1>1, <1>0 DEF Go, Request
    <2>2. TokensStay(s)
      BY <1>1 DEF TokensStay
    <2> QED  BY <2>1, <2>2, <1>1, <1>s, SameHold
  <1>2. CASE FindEmail(s)
    BY <1>1, <1>2 DEF FindEmail, Server, Step, WithToken
  <1>3. CASE CreateUser(s)
    BY <1>1, <1>3 DEF CreateUser, Step, WithToken
  <1>4. CASE Password(s)
    BY <1>1, <1>4 DEF Password, Server, Step, WithToken
  <1>5. CASE FindToken(s)
    BY <1>1, <1>5 DEF FindToken, At, Server, Step, WithToken
  <1>6. CASE Claim(s)
    BY <1>1, <1>6 DEF Claim, At, Server, Step, WithToken
  <1>7. CASE Revoke(s)
    <2>1. /\ req[s].token \in Token /\ token[req[s].token].owner = req[s].owner
          /\ token[req[s].token].state # "unused"
      BY <1>0, <1>7 DEF Revoke, At, WithToken
    <2>2. \A t \in Token : /\ token'[t].owner = token[t].owner
                           /\ t # req[s].token => token'[t] = token[t]
                           /\ t = req[s].token => token'[t].state \in {"revoked", token[t].state}
      BY <1>0, <1>7, <2>1 DEF Revoke, Row
    <2>3. TokensStay(s)
      BY <2>1, <2>2 DEF TokensStay
    <2>4. req'[s].step = "granted" /\ req'[s].next = req[s].next /\ req'[s].seen = req[s].seen
      BY <1>0, <1>7 DEF Revoke, Go, Request
    <2> QED  BY <2>3, <2>4, <1>s, SameHold DEF WithToken
  <1>8. CASE Issue(s)
    <2>1. NextToken \in Token /\ token[NextToken].state = "unused"
      BY <1>8, NextTokenIsUnused DEF Issue
    <2>2. /\ token'[NextToken].owner = req[s].owner
          /\ \A t \in Token \ {NextToken} : token'[t] = token[t]
      BY <1>0, <1>8, <2>1 DEF Issue
    <2>3. TokensStay(s)
      BY <2>1, <2>2 DEF TokensStay
    <2>4. req'[s].step = "granted" /\ req'[s].next = NextToken /\ req'[s].seen = req[s].seen
      BY <1>0, <1>8 DEF Issue, Request
    <2> QED  BY <2>2, <2>3, <2>4, <1>s, SameHold DEF WithToken
  <1>9. CASE Commit(s)
    <2>1. NextToken \in Token /\ token[NextToken].state = "unused"
      BY <1>9, NextTokenIsUnused DEF Commit
    <2>2. /\ req[s].token \in Token \ {NextToken} /\ token[req[s].token].owner = req[s].owner
      BY <1>0, <1>9, <2>1 DEF Commit, At, WithToken
    <2>3. /\ token'[NextToken].owner = req[s].owner
          /\ token'[req[s].token].owner = req[s].owner /\ token'[req[s].token].state = "revoked"
          /\ \A t \in Token \ {NextToken, req[s].token} : token'[t] = token[t]
      <3>1. token[req[s].token] \in Row
        BY <1>0, <2>2
      <3> QED  BY <1>0, <1>9, <2>1, <2>2, <3>1 DEF Commit, Successor, Row
    <2>4. TokensStay(s)
      BY <2>1, <2>2, <2>3 DEF TokensStay
    <2>5. req'[s].step = "granted" /\ req'[s].next = NextToken /\ req'[s].seen = req[s].seen
      BY <1>0, <1>9 DEF Commit, Request
    <2> QED  BY <2>3, <2>4, <2>5, <1>s, SameHold DEF WithToken
  <1>10. CASE Reuse(s)
    <2>1. /\ req'[s].step = "revoking" /\ req'[s].next = req[s].next
          /\ req'[s].seen = Live(token[req[s].token].owner) /\ UNCHANGED token /\ At(s, "reuse")
      BY <1>0, <1>10 DEF Reuse, Server, Request
    <2>2. TokensStay(s)
      BY <2>1 DEF TokensStay
    <2>3. \A t \in req'[s].seen : t \in Token /\ token'[t].owner = req[s].owner
      BY <1>0, <2>1 DEF Live, At, WithToken
    <2> QED  BY <2>1, <2>2, <2>3, <1>s, SameHold DEF WithToken
  <1>11. CASE RevokeAll(s)
    <2>1. \A t \in Token : /\ token'[t].owner = token[t].owner
                           /\ t \notin req[s].seen => token'[t] = token[t]
                           /\ t \in req[s].seen => token'[t].state = "revoked"
      BY <1>0, <1>11 DEF RevokeAll, Row
    <2>2. \A t \in req[s].seen : token[t].owner = req[s].owner
      BY DEF OwnersAgree
    <2>3. TokensStay(s)
      BY <2>1, <2>2 DEF TokensStay
    <2>4. req'[s].step = "revoked" /\ req'[s].next = req[s].next /\ req'[s].seen = {}
      BY <1>0, <1>11 DEF RevokeAll, Request
    <2> QED  BY <2>3, <2>4, <1>s, SameHold DEF WithToken
  <1> QED
    BY <1>2, <1>3, <1>4, <1>5, <1>6, <1>7, <1>8, <1>9, <1>10, <1>11 DEF ServerStep

(* A step of one request leaves in order what is said of the session. *)
LEMMA ServerKeepsLasts ==
  ASSUME AccountsInv, LastsInv, NEW s \in Slot, ServerStep(s)
  PROVE  LastsInv'
  <1> USE DEF LastsInv
  <1>o. TokensStay(s) /\ OwnersAgree'
    BY ServerKeepsOwners
  <1>s. StepsAlone(s)
    BY StepLeaves
  <1>0. s \in {"enter", "renew", "copy"} /\ "enter" \in Slot /\ "renew" \in Slot /\ "copy" \in Slot
    BY DEF Slot
  <1>f. \A r \in Slot : /\ req[r] \in Request
                        /\ req[r].next # None => req[r].next \in Token /\ token[req[r].next].state # "unused"
                                                 /\ token[req[r].next].owner = req[r].owner
                        /\ req[r].step \in WithToken => req[r].token \in Token /\ token[req[r].token].state # "unused"
                                                        /\ token[req[r].token].owner = req[r].owner
    BY RequestFacts DEF OwnersAgree
  <1>g. session # NoSession => /\ session.owner \in Account /\ session.token \in Token
                               /\ token[session.token].state # "unused"
                               /\ token[session.token].owner = session.owner
    BY <1>0, RequestFacts DEF OwnersAgree
  <1>1. CopiesDisturb'
    BY <1>0, <1>s DEF CopiesDisturb, StepsAlone, At
  <1>2. SessionWorks'
    <2> SUFFICES ASSUME session # NoSession, session.owner \notin disturbed, At("enter", "free")',
                        At("renew", "free")' \/ req'["renew"].owner # session.owner
                 PROVE  token'[session.token].state = "live"
      BY <1>s DEF SessionWorks, StepsAlone
    <2>1. s # "enter" /\ At("enter", "free")
      BY <1>0, <1>s DEF StepsAlone, At
    <2>2. At("renew", "free") \/ req["renew"].owner # session.owner
      BY <1>0, <1>s DEF StepsAlone, At
    <2>3. token[session.token].state = "live"
      BY <2>1, <2>2 DEF SessionWorks
    <2>4. req[s].owner # session.owner
      BY <1>0, <1>s, <2>1, <2>2 DEF CopiesDisturb, StepsAlone, At
    <2> QED  BY <1>g, <1>o, <2>3, <2>4 DEF TokensStay
  <1>3. EntersAreAlone'
    <2> SUFFICES ASSUME ~At("enter", "free")'
                 PROVE  EntersAreAlone'
      BY DEF EntersAreAlone
    <2>1. ~At("enter", "free")
      BY <1>0, <1>s DEF StepsAlone, At
    <2>2. CASE s # "enter"
      <3>1. req'["enter"] = req["enter"]
        BY <1>0, <1>s, <2>2 DEF StepsAlone
      <3>2. req[s].owner \in disturbed
        BY <1>0, <1>s, <2>1, <2>2 DEF CopiesDisturb, RenewsAreAlone, StepsAlone
      <3>3. ASSUME At("enter", "granted"), req["enter"].next # None, req["enter"].owner \notin disturbed
            PROVE  token'[req["enter"].next].state = "live"
        BY <1>0, <1>f, <1>o, <2>1, <3>2, <3>3 DEF EntersAreAlone, TokensStay
      <3> QED  BY <1>s, <2>1, <3>1, <3>3 DEF EntersAreAlone, StepsAlone, Leaving, At
    <2>3. CASE s = "enter"
      <3>1. ASSUME Leaving, ~Revoke(s) PROVE FALSE
        BY <3>1, <2>3, <1>s, RequestFacts
           DEF Leaving, ServerStep, FindEmail, CreateUser, Password, Issue, FindToken, Claim, Commit, Reuse,
               RevokeAll, At, StepsOf
      <3>2. ASSUME Leaving PROVE Leaving'
        BY <3>1, <3>2, <2>3, <1>0, <1>f, RequestFacts DEF Leaving, Revoke, Go, Request
      <3>4. ASSUME ~Issue(s), ~Revoke(s)
            PROVE  req'["enter"].step # "granted" /\ req'["enter"].next = req["enter"].next
                   /\ req["enter"].step # "granted"
        <4>1. \E n \in Step \ {"granted"} : Go(s, n)
          BY <3>4, <2>3, RequestFacts
             DEF ServerStep, FindEmail, CreateUser, Password, FindToken, Claim, Commit, Reuse,
                 RevokeAll, At, StepsOf, Step
        <4>2. req["enter"].step # "granted"
          BY <3>4, <2>3
             DEF ServerStep, FindEmail, CreateUser, Password, FindToken, Claim, Commit, Reuse, RevokeAll, At
        <4> QED  BY <4>1, <4>2, <2>3, RequestFacts DEF Go, Request
      <3>3. ASSUME At("enter", "granted")', req'["enter"].next # None
            PROVE  token'[req'["enter"].next].state = "live"
        <4>1. CASE Issue(s)
          <5>1. NextToken \in Token
            BY <4>1, NextTokenIsUnused DEF Issue
          <5>2. token'[NextToken].state = "live" /\ req'["enter"].next = NextToken
            BY <4>1, <5>1, <2>3, RequestFacts DEF Issue, Request
          <5> QED  BY <5>2
        <4>2. CASE Revoke(s)
          <5>1. At("enter", "revoke") /\ req'["enter"].next = req["enter"].next
            BY <4>2, <2>3, RequestFacts DEF Revoke, Go, Request
          <5> QED  BY <5>1, <3>3, <2>1 DEF EntersAreAlone, At
        <4>3. CASE ~Issue(s) /\ ~Revoke(s)
          BY <4>3, <3>3, <3>4 DEF At
        <4> QED  BY <4>1, <4>2, <4>3
      <3>5. req'["enter"].step # "granted" => req'["enter"].next = None
        <4>1. CASE Issue(s) \/ Revoke(s)
          BY <4>1, <2>3, RequestFacts DEF Issue, Revoke, Go, Request
        <4>2. CASE ~Issue(s) /\ ~Revoke(s)
          BY <4>2, <3>4, <2>1 DEF EntersAreAlone, At
        <4> QED  BY <4>1, <4>2
      <3> QED  BY <1>s, <2>1, <2>3, <3>2, <3>3, <3>5 DEF EntersAreAlone, StepsAlone, At
    <2> QED  BY <2>2, <2>3
  <1>4. RenewsAreAlone'
    <2> SUFFICES ASSUME ~At("renew", "free")', req'["renew"].owner \notin disturbed
                 PROVE  RenewsAreAlone'
      BY <1>s DEF RenewsAreAlone, StepsAlone
    <2>1. ~At("renew", "free") /\ req["renew"].owner \notin disturbed
          /\ req'["renew"].owner = req["renew"].owner /\ req'["renew"].token = req["renew"].token
      BY <1>0, <1>s DEF StepsAlone, At
    <2>2. /\ At("enter", "free")
          /\ session.owner = req["renew"].owner /\ session.token = req["renew"].token
          /\ req["renew"].step \in {"find", "claim", "commit", "granted", "refused"}
          /\ req["renew"].step \in {"find", "claim", "commit"} => token[req["renew"].token].state = "live"
          /\ At("renew", "granted") => token[req["renew"].next].state = "live"
      BY <2>1 DEF RenewsAreAlone
    <2>3. s # "enter" /\ req'["enter"] = req["enter"]
      BY <1>0, <1>s, <2>2 DEF StepsAlone
    <2>4. CASE s = "copy"
      <3>1. req[s].owner # req["renew"].owner /\ req'["renew"] = req["renew"]
        BY <1>0, <1>s, <2>1, <2>4 DEF CopiesDisturb, StepsAlone
      <3>2. req["renew"].step \in {"find", "claim", "commit"} => token'[req["renew"].token].state = "live"
        BY <1>0, <1>f, <1>o, <2>2, <3>1 DEF TokensStay, WithToken
      <3>3. At("renew", "granted") => token'[req["renew"].next].state = "live"
        <4>1. At("renew", "granted") => req["renew"].next # None
          BY <1>0, NoneIsNoToken DEF AccountsInv, RequestsAreOfTheirKind
        <4> QED  BY <4>1, <1>0, <1>f, <1>o, <2>2, <3>1 DEF TokensStay
      <3> QED  BY <1>s, <2>2, <2>3, <3>1, <3>2, <3>3 DEF RenewsAreAlone, StepsAlone, At
    <2>5. CASE s = "renew"
      <3>1. FindToken(s) \/ Claim(s) \/ Commit(s)
        BY <2>2, <2>5, RequestFacts
           DEF ServerStep, FindEmail, CreateUser, Password, Issue, Reuse, RevokeAll, Revoke, At, StepsOf
      <3>2. /\ req'["renew"].step \in {"find", "claim", "commit", "granted", "refused"}
            /\ req'["renew"].step \in {"find", "claim", "commit"} => token'[req["renew"].token].state = "live"
            /\ At("renew", "granted")' => token'[req'["renew"].next].state = "live"
        <4>1. CASE FindToken(s)
          <5>1. Go(s, "claim") \/ Go(s, "refused")
            BY <4>1, <2>2, <2>5 DEF FindToken, At
          <5>2. req'["renew"].step \in {"claim", "refused"}
            BY <5>1, <2>5, RequestFacts DEF Go, Request
          <5> QED  BY <5>2, <4>1, <2>2, <2>5 DEF FindToken, At, Server
        <4>2. CASE Claim(s)
          <5>1. Go(s, "commit")
            BY <4>2, <2>2, <2>5 DEF Claim, At
          <5>2. req'["renew"].step = "commit"
            BY <5>1, <2>5, RequestFacts DEF Go, Request
          <5> QED  BY <5>2, <4>2, <2>2, <2>5 DEF Claim, At, Server
        <4>3. CASE Commit(s)
          <5>1. NextToken \in Token /\ token[NextToken].state = "unused"
            BY <4>3, NextTokenIsUnused DEF Commit
          <5>2. token'[NextToken].state = "live"
            BY <5>1, <4>3, RequestFacts DEF Commit, Successor
          <5>3. req'["renew"].step = "granted" /\ req'["renew"].next = NextToken
            BY <4>3, <2>5, RequestFacts DEF Commit, Request
          <5> QED  BY <5>2, <5>3
        <4> QED  BY <3>1, <4>1, <4>2, <4>3
      <3> QED  BY <1>s, <2>1, <2>2, <2>3, <3>2 DEF RenewsAreAlone, StepsAlone, At
    <2> QED  BY <1>0, <2>3, <2>4, <2>5
  <1> QED  BY <1>o, <1>1, <1>2, <1>3, <1>4

(* What the phone does with its requests, and what disturbs them, touches  *)
(* no token: what a request holds stays of its account.                    *)
LEMMA SameTokensSameOwners ==
  ASSUME OwnersAgree, UNCHANGED token, NEW s \in Slot,
         \A r \in Slot : r # s => req'[r] = req[r],
         \/ req'[s] = Free
         \/ /\ req'[s].next = None /\ req'[s].seen = {}
            /\ req'[s].step \in WithToken => token[req'[s].token].owner = req'[s].owner,
         session' # NoSession => token[session'.token].owner = session'.owner
  PROVE  OwnersAgree'
  BY DEF OwnersAgree, Free, WithToken

LEMMA PhoneKeepsLasts ==
  ASSUME AccountsInv, LastsInv, PhoneStep
  PROVE  LastsInv'
  <1> USE DEF LastsInv
  <1>0. "enter" \in Slot /\ "renew" \in Slot /\ "copy" \in Slot
    BY DEF Slot
  <1>f. \A r \in Slot : /\ req[r] \in Request
                        /\ ~At(r, "free") => req[r].owner \in Account
                        /\ req[r].next # None => token[req[r].next].owner = req[r].owner
    BY RequestFacts DEF OwnersAgree
  <1>g. req \in [Slot -> Request] /\ NoAccount \notin Account /\ NoSession.owner = NoAccount
    BY <1>0, RequestFacts, AccountsAssumption DEF NoSession
  <1>h. session # NoSession => session.owner \in Account /\ token[session.token].owner = session.owner
    BY <1>0, RequestFacts DEF OwnersAgree
  <1>1. ASSUME At("enter", "free"), session = NoSession, NEW n \in {"register", "password"}, NEW a \in Account,
               Post("enter", n, a, None), UNCHANGED <<token, session, disturbed>>
        PROVE  LastsInv'
    <2>1. /\ req'["enter"] = [step |-> n, owner |-> a, token |-> None, next |-> None, seen |-> {}]
          /\ \A r \in Slot : r # "enter" => req'[r] = req[r]
      BY <1>0, <1>1, <1>g DEF Post
    <2>2. OwnersAgree'
      BY <2>1, <1>0, <1>1, SameTokensSameOwners DEF WithToken
    <2>3. CopiesDisturb' /\ SessionWorks' /\ EntersAreAlone'
      BY <2>1, <1>0, <1>1 DEF CopiesDisturb, SessionWorks, EntersAreAlone, At
    <2>4. RenewsAreAlone'
      BY <2>1, <1>0, <1>1, <1>f, <1>g DEF RenewsAreAlone, At
    <2> QED  BY <2>2, <2>3, <2>4
  <1>2. ASSUME NEW a \in Account, Register(a) PROVE LastsInv'
    BY <1>1, <1>2 DEF Register, Server, Phone
  <1>3. ASSUME NEW a \in Account, Login(a) PROVE LastsInv'
    BY <1>1, <1>3 DEF Login, Server, Phone
  <1>e. ASSUME NEW s \in Slot, End(s)
        PROVE  req'[s] = Free /\ (\A r \in Slot : r # s => req'[r] = req[r])
    BY <1>e, <1>g DEF End
  <1>4. CASE Entered
    <2>1. /\ req'["enter"] = Free /\ (\A r \in Slot : r # "enter" => req'[r] = req[r])
          /\ session' = [owner |-> req["enter"].owner, token |-> req["enter"].next]
          /\ At("enter", "granted") /\ req["enter"].next # None /\ UNCHANGED <<token, disturbed>>
      BY <1>0, <1>4, <1>e DEF Entered, Server
    <2>2. OwnersAgree'
      BY <2>1, <1>0, <1>f, SameTokensSameOwners
    <2>3. CopiesDisturb' /\ EntersAreAlone'
      BY <2>1, <1>0 DEF CopiesDisturb, EntersAreAlone, At, Free
    <2>4. RenewsAreAlone'
      BY <2>1, <1>0 DEF RenewsAreAlone, At, Free
    <2>5. SessionWorks'
      BY <2>1, <1>0 DEF EntersAreAlone, SessionWorks, At, Free
    <2> QED  BY <2>2, <2>3, <2>4, <2>5
  <1>5. CASE NotEntered
    <2>1. /\ req'["enter"] = Free /\ (\A r \in Slot : r # "enter" => req'[r] = req[r])
          /\ At("enter", "refused") /\ UNCHANGED <<token, session, disturbed>>
      BY <1>0, <1>5, <1>e DEF NotEntered, Server, Phone
    <2>2. OwnersAgree'
      BY <2>1, <1>0, <1>h, SameTokensSameOwners
    <2>3. CopiesDisturb' /\ EntersAreAlone'
      BY <2>1, <1>0 DEF CopiesDisturb, EntersAreAlone, At, Free
    <2>4. RenewsAreAlone'
      BY <2>1, <1>0 DEF RenewsAreAlone, At, Free
    <2>5. session = NoSession \/ session.owner \in disturbed
      BY <2>1 DEF EntersAreAlone, Leaving, At
    <2>6. SessionWorks'
      BY <2>1, <2>5 DEF SessionWorks
    <2> QED  BY <2>2, <2>3, <2>4, <2>6
  <1>6. CASE Logout
    <2>1. /\ req'["enter"] = [step |-> "revoke", owner |-> session.owner, token |-> session.token,
                              next |-> None, seen |-> {}]
          /\ \A r \in Slot : r # "enter" => req'[r] = req[r]
          /\ disturbed' = IF At("renew", "free") THEN disturbed ELSE disturbed \cup {session.owner}
          /\ session # NoSession /\ UNCHANGED <<token, session>>
      BY <1>0, <1>6, <1>g DEF Logout, Post, Server
    <2>2. OwnersAgree'
      BY <2>1, <1>0, <1>h, SameTokensSameOwners
    <2>3. CopiesDisturb' /\ EntersAreAlone' /\ SessionWorks'
      BY <2>1, <1>0 DEF CopiesDisturb, EntersAreAlone, SessionWorks, Leaving, At
    <2>4. RenewsAreAlone'
      BY <2>1, <1>0 DEF RenewsAreAlone, At
    <2> QED  BY <2>2, <2>3, <2>4
  <1>7. CASE LoggedOut
    <2>1. /\ req'["enter"] = Free /\ (\A r \in Slot : r # "enter" => req'[r] = req[r])
          /\ session' = NoSession /\ At("enter", "granted") /\ UNCHANGED <<token, disturbed>>
      BY <1>0, <1>7, <1>e DEF LoggedOut, Server
    <2>2. OwnersAgree'
      BY <2>1, <1>0, SameTokensSameOwners
    <2>3. CopiesDisturb' /\ EntersAreAlone' /\ SessionWorks'
      BY <2>1, <1>0 DEF CopiesDisturb, EntersAreAlone, SessionWorks, At, Free
    <2>4. RenewsAreAlone'
      BY <2>1, <1>0 DEF RenewsAreAlone, At, Free
    <2> QED  BY <2>2, <2>3, <2>4
  <1>8. CASE Refresh
    <2>1. /\ req'["renew"] = [step |-> "find", owner |-> session.owner, token |-> session.token,
                              next |-> None, seen |-> {}]
          /\ \A r \in Slot : r # "renew" => req'[r] = req[r]
          /\ disturbed' = IF At("enter", "free") THEN disturbed ELSE disturbed \cup {session.owner}
          /\ session # NoSession /\ At("renew", "free") /\ UNCHANGED <<token, session>>
      BY <1>0, <1>8, <1>g DEF Refresh, Post, Server
    <2>2. OwnersAgree'
      BY <2>1, <1>0, <1>h, SameTokensSameOwners
    <2>3. CopiesDisturb' /\ EntersAreAlone' /\ SessionWorks'
      BY <2>1, <1>0 DEF CopiesDisturb, EntersAreAlone, SessionWorks, Leaving, At
    <2>4. RenewsAreAlone'
      BY <2>1, <1>0 DEF RenewsAreAlone, SessionWorks, At
    <2> QED  BY <2>2, <2>3, <2>4
  <1>9. CASE Refreshed
    <2>1. /\ req'["renew"] = Free /\ (\A r \in Slot : r # "renew" => req'[r] = req[r])
          /\ session' = [owner |-> req["renew"].owner, token |-> req["renew"].next]
          /\ At("renew", "granted") /\ req["renew"].next # None /\ UNCHANGED <<token, disturbed>>
      BY <1>0, <1>9, <1>e, NoneIsNoToken DEF Refreshed, Server, AccountsInv, RequestsAreOfTheirKind
    <2>2. OwnersAgree'
      BY <2>1, <1>0, <1>f, SameTokensSameOwners
    <2>3. CopiesDisturb' /\ RenewsAreAlone'
      BY <2>1, <1>0 DEF CopiesDisturb, RenewsAreAlone, At, Free
    <2>4. EntersAreAlone'
      BY <2>1, <1>0 DEF EntersAreAlone, RenewsAreAlone, Leaving, At, Free
    <2>5. SessionWorks'
      BY <2>1, <1>0 DEF RenewsAreAlone, SessionWorks, At, Free
    <2> QED  BY <2>2, <2>3, <2>4, <2>5
  <1>10. CASE Rejected
    <2>1. /\ req'["renew"] = Free /\ (\A r \in Slot : r # "renew" => req'[r] = req[r])
          /\ session' = NoSession /\ UNCHANGED <<token, disturbed>>
      BY <1>0, <1>10, <1>e DEF Rejected, Server
    <2>2. OwnersAgree'
      BY <2>1, <1>0, SameTokensSameOwners
    <2>3. CopiesDisturb' /\ RenewsAreAlone' /\ SessionWorks'
      BY <2>1, <1>0 DEF CopiesDisturb, RenewsAreAlone, SessionWorks, At, Free
    <2>4. EntersAreAlone'
      BY <2>1, <1>0 DEF EntersAreAlone, At
    <2> QED  BY <2>2, <2>3, <2>4
  <1> QED  BY <1>2, <1>3, <1>4, <1>5, <1>6, <1>7, <1>8, <1>9, <1>10 DEF PhoneStep

LEMMA DisturbanceKeepsLasts ==
  ASSUME AccountsInv, LastsInv,
         (\E t \in Token : Repeat(t)) \/ Repeated \/ (\E s \in Slot : Lose(s)) \/ Crash
  PROVE  LastsInv'
  <1> USE DEF LastsInv
  <1>0. "enter" \in Slot /\ "renew" \in Slot /\ "copy" \in Slot
    BY DEF Slot
  <1>g. req \in [Slot -> Request]
    BY <1>0, RequestFacts
  <1>h. session # NoSession => token[session.token].owner = session.owner
    BY DEF OwnersAgree
  <1>1. ASSUME NEW t \in Token, Repeat(t) PROVE LastsInv'
    <2>1. /\ req'["copy"] = [step |-> "find", owner |-> token[t].owner, token |-> t, next |-> None, seen |-> {}]
          /\ \A r \in Slot : r # "copy" => req'[r] = req[r]
          /\ disturbed' = disturbed \cup {token[t].owner} /\ UNCHANGED <<token, session>>
      BY <1>0, <1>1, <1>g DEF Repeat, Post, Server
    <2>2. OwnersAgree'
      BY <2>1, <1>0, <1>h, SameTokensSameOwners
    <2>3. CopiesDisturb' /\ SessionWorks'
      BY <2>1, <1>0 DEF CopiesDisturb, SessionWorks, At
    <2>4. RenewsAreAlone'
      BY <2>1, <1>0 DEF RenewsAreAlone, At
    <2>5. EntersAreAlone'
      BY <2>1, <1>0 DEF EntersAreAlone, Leaving, At
    <2> QED  BY <2>2, <2>3, <2>4, <2>5
  <1>2. CASE Repeated
    <2>1. /\ req'["copy"] = Free /\ (\A r \in Slot : r # "copy" => req'[r] = req[r])
          /\ UNCHANGED <<token, session, disturbed>>
      BY <1>0, <1>2, <1>g DEF Repeated, End, Server, Phone
    <2>2. OwnersAgree'
      BY <2>1, <1>0, <1>h, SameTokensSameOwners
    <2>3. CopiesDisturb' /\ SessionWorks' /\ RenewsAreAlone' /\ EntersAreAlone'
      BY <2>1, <1>0 DEF CopiesDisturb, SessionWorks, RenewsAreAlone, EntersAreAlone, Leaving, At, Free
    <2> QED  BY <2>2, <2>3
  <1>3. ASSUME NEW s \in Slot, Lose(s) PROVE LastsInv'
    <2>1. /\ req'[s] = Free /\ (\A r \in Slot : r # s => req'[r] = req[r])
          /\ session' = IF At(s, "granted") /\ req[s].next = None THEN NoSession ELSE session
          /\ disturbed' = disturbed \cup {req[s].owner} /\ UNCHANGED token /\ ~At(s, "free")
      BY <1>3, <1>g DEF Lose, End, Server, At
    <2>2. OwnersAgree'
      BY <2>1, <1>h, SameTokensSameOwners
    <2>3. CASE s = "enter"
      <3>1. CopiesDisturb' /\ RenewsAreAlone' /\ EntersAreAlone'
        BY <2>1, <2>3, <1>0 DEF CopiesDisturb, RenewsAreAlone, EntersAreAlone, At, Free
      <3>2. session' = NoSession \/ session'.owner \in disturbed'
        BY <2>1, <2>3 DEF EntersAreAlone
      <3>3. SessionWorks'
        BY <3>2 DEF SessionWorks
      <3> QED  BY <2>2, <3>1, <3>3
    <2>4. CASE s = "renew"
      <3>1. UNCHANGED session
        BY <2>1, <2>4, <1>0, NoneIsNoToken DEF AccountsInv, RequestsAreOfTheirKind
      <3>2. CopiesDisturb' /\ RenewsAreAlone' /\ EntersAreAlone'
        BY <2>1, <2>4, <3>1, <1>0 DEF CopiesDisturb, RenewsAreAlone, EntersAreAlone, Leaving, At, Free
      <3>3. SessionWorks'
        BY <2>1, <2>4, <3>1, <1>0 DEF SessionWorks, At, Free
      <3> QED  BY <2>2, <3>2, <3>3
    <2> QED  BY <2>3, <2>4, <1>3 DEF Lose, Slot
  <1>4. CASE Crash
    <2>1. /\ \A s \in Slot : req'[s] = Free
          /\ disturbed' = disturbed \cup {req[s].owner : s \in Slot} /\ UNCHANGED <<token, session>>
      BY <1>4 DEF Crash, Server
    <2>2. OwnersAgree'
      BY <2>1, <1>h DEF OwnersAgree, Free, WithToken
    <2>3. CopiesDisturb' /\ RenewsAreAlone' /\ EntersAreAlone'
      BY <2>1, <1>0 DEF CopiesDisturb, RenewsAreAlone, EntersAreAlone, At, Free
    <2>4. SessionWorks'
      <3> SUFFICES ASSUME session # NoSession, session.owner \notin disturbed'
                   PROVE  token[session.token].state = "live"
        BY <2>1 DEF SessionWorks
      <3>1. session.owner \notin disturbed /\ \A s \in Slot : req[s].owner # session.owner
        BY <2>1
      <3>2. At("enter", "free")
        BY <3>1, <1>0 DEF EntersAreAlone
      <3> QED  BY <3>1, <3>2, <1>0 DEF SessionWorks
    <2> QED  BY <2>2, <2>3, <2>4
  <1> QED  BY <1>1, <1>2, <1>3, <1>4

LEMMA NextKeepsLasts == AccountsInv /\ LastsInv /\ [AccountsNext]_accountVars => LastsInv'
  <1> SUFFICES ASSUME AccountsInv, LastsInv, [AccountsNext]_accountVars PROVE LastsInv'
    OBVIOUS
  <1>1. CASE AccountsNext
    BY <1>1, ServerKeepsLasts, PhoneKeepsLasts, DisturbanceKeepsLasts DEF AccountsNext
  <1>2. CASE UNCHANGED accountVars
    BY <1>2 DEF accountVars, LastsInv, OwnersAgree, CopiesDisturb, RenewsAreAlone, EntersAreAlone,
                SessionWorks, Leaving, At
  <1> QED  BY <1>1, <1>2

(* The server sends the phone back to the login screen only when the       *)
(* tokens of its account were presented out of turn: however many accounts *)
(* log in and out of it, and however requests overlap                      *)
(* (AuthService.refresh, AuthInterceptor.onError).                         *)
THEOREM SessionAlwaysLasts == AccountsSpec => SessionLasts
  <1>1. LastsInv => [Rejected /\ At("renew", "revoked") => req["renew"].owner \in disturbed]_accountVars
    BY DEF LastsInv, RenewsAreAlone, At
  <1> QED  BY <1>1, AccountsInitInv, AccountsNextKeepsInv, InitLasts, NextKeepsLasts, PTL DEF AccountsSpec, SessionLasts

-----------------------------------------------------------------------------
(* Geofences.  A shape that waits to be written is as whole as the row. *)

Whole(shape) ==
  shape # NoFence =>
    /\ shape.type = "CIRCLE" =>
         shape.radius \in 1..MaxRadius /\ shape.area = Buffer(shape.centre, shape.radius)
    /\ shape.type = "POLYGON" =>
         shape.centre = Nothing /\ shape.radius = Nothing /\ shape.area \in ValidRing
FencesInv ==
  /\ edit = [e \in Editor |-> edit[e]]
  /\ Whole(fence)
  /\ \A e \in Editor : edit[e].step = "write" => Whole(edit[e].shape)

LEMMA FencesInitInv == FencesInit => FencesInv
  BY DEF FencesInit, FencesInv, Whole, NoEdit

LEMMA ValidIsWhole ==
  /\ \A c, r : validateShape(Circle(c, r)) => Whole(Circle(c, r))
  /\ \A p : validateShape(Polygon(p)) => Whole(Polygon(p))
  BY DEF validateShape, Circle, Polygon, Whole

LEMMA MergedIsWhole ==
  ASSUME NEW current, NEW patch, validateShape(mergeShape(current, patch))
  PROVE  Whole(mergeShape(current, patch))
  <1> DEFINE shape == mergeShape(current, patch)
  <1>1. shape = NoFence \/ (\E c, r : shape = Circle(c, r)) \/ (\E p : shape = Polygon(p))
    BY Zenon DEF mergeShape
  <1> HIDE DEF shape
  <1>2. Whole(shape)
    BY <1>1, ValidIsWhole DEF Whole, shape
  <1> QED  BY <1>2 DEF shape

LEMMA FencesNextKeepsInv == FencesInv /\ [FencesNext]_fenceVars => FencesInv'
  <1> SUFFICES ASSUME FencesInv, [FencesNext]_fenceVars PROVE FencesInv'
    OBVIOUS
  <1>1. ASSUME NEW shape \in Shape, CreateFence(shape) PROVE FencesInv'
    <2>1. Whole(shape)
      BY <1>1, ValidIsWhole DEF CreateFence, Shape
    <2> QED  BY <1>1, <2>1 DEF CreateFence, FencesInv
  <1>2. ASSUME NEW e \in Editor, WriteFence(e) PROVE FencesInv'
    <2>1. Whole(fence')
      BY <1>2 DEF WriteFence, FencesInv, Whole
    <2>2. edit' = [edit EXCEPT ![e] = NoEdit] /\ NoEdit.step # "write"
      BY <1>2 DEF WriteFence, NoEdit
    <2> QED  BY <2>1, <2>2 DEF FencesInv, Whole
  <1>3. ASSUME NEW e \in Editor, NEW patch \in Patch, ReadFence(e, patch) PROVE FencesInv'
    <2> DEFINE shape == mergeShape(fence, patch)
               new == [step |-> "write", patch |-> patch, shape |-> shape]
    <2>1. Whole(shape) /\ UNCHANGED fence /\ edit' = [edit EXCEPT ![e] = new]
      BY <1>3, MergedIsWhole DEF ReadFence
    <2>2. new.shape = shape
      OBVIOUS
    <2> HIDE DEF shape, new
    <2> QED  BY <2>1, <2>2 DEF FencesInv
  <1>4. CASE DeleteFence
    BY <1>4 DEF DeleteFence, FencesInv, Whole
  <1>5. CASE UNCHANGED fenceVars
    BY <1>5 DEF fenceVars, FencesInv
  <1> QED  BY <1>1, <1>2, <1>3, <1>4, <1>5 DEF FencesNext

(* The area that points are tested against is that of the circle or the    *)
(* polygon of the row, and valid, whatever partial updates overlap         *)
(* (GeofencesService.update, shapeSql).                                    *)
THEOREM FencesAreWhole == FencesSpec => []FenceIsWhole
  <1>1. FencesInv => FenceIsWhole
    BY DEF FencesInv, FenceIsWhole, Whole
  <1> QED  BY <1>1, FencesInitInv, FencesNextKeepsInv, PTL DEF FencesSpec

-----------------------------------------------------------------------------
(* TripRecords.  A request asks as an account; one that is about to insert *)
(* has found the trip active or completed.                                 *)

TripStatus == {"none", "ACTIVE", "COMPLETED", "CANCELLED"}
AskStep == {"idle", "find", "create", "accept", "insert", "get", "update", "measure", "ok", "refused"}
Asked == [step : AskStep, to : {"none", "start", "record", "COMPLETED", "CANCELLED"},
          by : Owner \cup {Nobody}, batch : SUBSET Fix, seen : TripStatus]
TripsTypeOK ==
  /\ trip \in [owner : Owner \cup {Nobody}, status : TripStatus, measured : SUBSET Fix]
  /\ ask \in [Client -> Asked]
  /\ fixes \subseteq Fix /\ missed \subseteq Fix
AsksAreOfTheTrip ==
  /\ trip.status = "none" => trip.owner = Nobody
  /\ \A c \in Client :
       /\ ~AtStep(c, "idle") => ask[c].by \in Owner
       /\ ask[c].step \in {"get", "update"} => ask[c].to \in {"COMPLETED", "CANCELLED"}
       /\ AtStep(c, "insert") => ask[c].seen \in {"ACTIVE", "COMPLETED"}
TripsInv == TripsTypeOK /\ AsksAreOfTheTrip /\ DistanceCoversTrack

LEMMA TripsInitInv == TripsInit => TripsInv
  BY TripRecordsAssumption
     DEF TripsInit, TripsInv, TripsTypeOK, AsksAreOfTheTrip, DistanceCoversTrack, NoTrip, NoAsk, AtStep, TripStatus,
         Asked, AskStep

(* The requests when one of them goes on. *)
LEMMA Reaching ==
  ASSUME ask \in [Client -> Asked], NEW c \in Client, NEW step \in AskStep, ask' = [ask EXCEPT ![c].step = step]
  PROVE  /\ ask' \in [Client -> Asked]
         /\ ask'[c].step = step /\ ask'[c].by = ask[c].by /\ ask'[c].to = ask[c].to
         /\ ask'[c].seen = ask[c].seen /\ ask'[c].batch = ask[c].batch
         /\ \A d \in Client : d # c => ask'[d] = ask[d]
  <1>1. ask' = [ask EXCEPT ![c] = [ask[c] EXCEPT !.step = step]] /\ ask[c] \in Asked
    OBVIOUS
  <1>2. [ask[c] EXCEPT !.step = step] \in Asked
    BY <1>1 DEF Asked
  <1>3. ask'[c] = [ask[c] EXCEPT !.step = step] /\ \A d \in Client : d # c => ask'[d] = ask[d]
    BY <1>1
  <1>4. ask' \in [Client -> Asked]
    BY <1>1, <1>2
  <1>5. /\ ask'[c].step = step /\ ask'[c].by = ask[c].by /\ ask'[c].to = ask[c].to
        /\ ask'[c].seen = ask[c].seen /\ ask'[c].batch = ask[c].batch
    BY <1>1, <1>3 DEF Asked
  <1> QED  BY <1>3, <1>4, <1>5

(* A request goes on; the rows are as they were. *)
LEMMA ReachKeepsInv ==
  ASSUME TripsInv, NEW c \in Client,
         NEW step \in {"create", "ok", "refused", "update"}, Reach(c, step), UNCHANGED <<trip, fixes, missed>>,
         ~AtStep(c, "idle"), ~AtStep(c, "measure"), step = "update" => AtStep(c, "get")
  PROVE  TripsInv'
  <1>1. /\ ask' \in [Client -> Asked]
        /\ ask'[c].step = step /\ ask'[c].by = ask[c].by /\ ask'[c].to = ask[c].to /\ ask'[c].seen = ask[c].seen
        /\ \A d \in Client : d # c => ask'[d] = ask[d]
    BY Reaching DEF Reach, TripsInv, TripsTypeOK, AskStep
  <1>2. TripsTypeOK'
    BY <1>1 DEF TripsInv, TripsTypeOK
  <1>3. AsksAreOfTheTrip'
    BY <1>1 DEF TripsInv, AsksAreOfTheTrip, AtStep
  <1>4. DistanceCoversTrack'
    BY <1>1 DEF TripsInv, DistanceCoversTrack, AtStep
  <1> QED  BY <1>2, <1>3, <1>4 DEF TripsInv

LEMMA TripsNextKeepsInv == TripsInv /\ [TripsNext]_tripVars => TripsInv'
  <1> SUFFICES ASSUME TripsInv, [TripsNext]_tripVars PROVE TripsInv'
    OBVIOUS
  <1> USE DEF TripsInv
  <1>1. ASSUME NEW c \in Client, NEW a \in Owner, NEW to \in {"start", "COMPLETED", "CANCELLED", "record"},
               NEW batch \in SUBSET Fix, Ask(c, a, to, batch)
        PROVE  TripsInv'
    <2> DEFINE step == CASE to = "start" -> "find" [] to = "record" -> "accept" [] OTHER -> "get"
    <2>1. step \in {"find", "accept", "get"} /\ (step = "get" => to \in {"COMPLETED", "CANCELLED"})
      OBVIOUS
    <2> HIDE DEF step
    <2>2. ask' = [ask EXCEPT ![c] = [step |-> step, to |-> to, by |-> a, batch |-> batch, seen |-> "none"]]
      BY <1>1 DEF Ask, step
    <2>3. AtStep(c, "idle") /\ UNCHANGED <<trip, fixes, missed>>
      BY <1>1 DEF Ask
    <2>4. TripsTypeOK'
      <3>1. [step |-> step, to |-> to, by |-> a, batch |-> batch, seen |-> "none"] \in Asked
        BY <2>1 DEF Asked, AskStep, TripStatus
      <3> QED  BY <2>2, <2>3, <3>1 DEF TripsTypeOK
    <2>5. AsksAreOfTheTrip'
      BY <2>1, <2>2, <2>3 DEF TripsTypeOK, AsksAreOfTheTrip, AtStep
    <2>6. DistanceCoversTrack'
      BY <2>1, <2>2, <2>3 DEF TripsTypeOK, DistanceCoversTrack, AtStep
    <2> QED  BY <2>4, <2>5, <2>6
  <1>2. ASSUME NEW c \in Client, Answered(c) \/ Cut(c) PROVE TripsInv'
    <2>1. ask' = [ask EXCEPT ![c] = NoAsk] /\ UNCHANGED <<trip, fixes>>
          /\ missed' = IF AtStep(c, "measure") THEN missed \cup (fixes \ trip.measured) ELSE missed
      BY <1>2 DEF Answered, Cut, AtStep
    <2>2. TripsTypeOK'
      <3>1. NoAsk \in Asked
        BY DEF NoAsk, Asked, AskStep, TripStatus
      <3>2. trip.measured \in SUBSET Fix
        BY DEF TripsTypeOK
      <3> QED  BY <2>1, <3>1, <3>2 DEF TripsTypeOK
    <2>3. AsksAreOfTheTrip'
      BY <2>1 DEF TripsTypeOK, AsksAreOfTheTrip, AtStep, NoAsk
    <2>4. DistanceCoversTrack'
      BY <2>1 DEF TripsTypeOK, DistanceCoversTrack, AtStep, NoAsk
    <2> QED  BY <2>2, <2>3, <2>4
  <1>3. ASSUME NEW c \in Client, FindTrip(c) \/ GetTrip(c) PROVE TripsInv'
    <2>1. \E step \in {"create", "ok", "refused", "update"} : Reach(c, step) /\ (step = "update" => AtStep(c, "get"))
      BY <1>3 DEF FindTrip, GetTrip
    <2>2. ~AtStep(c, "idle") /\ ~AtStep(c, "measure") /\ UNCHANGED <<trip, fixes, missed>>
      BY <1>3 DEF FindTrip, GetTrip, AtStep
    <2> QED  BY <2>1, <2>2, ReachKeepsInv
  <1>4. ASSUME NEW c \in Client, CreateTrip(c) PROVE TripsInv'
    <2>1. CASE UNCHANGED trip
      <3>1. Reach(c, "ok") \/ Reach(c, "refused")
        BY <1>4 DEF CreateTrip
      <3>2. ~AtStep(c, "idle") /\ ~AtStep(c, "measure") /\ UNCHANGED <<fixes, missed>>
        BY <1>4 DEF CreateTrip, AtStep
      <3> QED  BY <2>1, <3>1, <3>2, ReachKeepsInv
    <2>2. CASE trip' = [owner |-> ask[c].by, status |-> "ACTIVE", measured |-> {}] /\ Reach(c, "ok")
      <3>1. UNCHANGED <<fixes, missed>> /\ ask[c].by \in Owner
        BY <1>4 DEF CreateTrip, AtStep, AsksAreOfTheTrip
      <3>2. ask'[c].step = "ok" /\ ask'[c].by = ask[c].by /\ (\A d \in Client : d # c => ask'[d] = ask[d])
            /\ ask' \in [Client -> Asked]
        BY <2>2, Reaching DEF TripsTypeOK, Reach, AskStep
      <3>3. TripsTypeOK'
        BY <2>2, <3>1, <3>2 DEF TripsTypeOK, TripStatus
      <3>4. AsksAreOfTheTrip'
        BY <2>2, <3>1, <3>2 DEF AsksAreOfTheTrip, AtStep
      <3>5. DistanceCoversTrack'
        BY <2>2 DEF DistanceCoversTrack
      <3> QED  BY <3>3, <3>4, <3>5
    <2> QED  BY <1>4, <2>1, <2>2 DEF CreateTrip
  <1>5. ASSUME NEW c \in Client, UpdateTrip(c) PROVE TripsInv'
    <2> DEFINE step == IF ask[c].to = "COMPLETED" THEN "measure" ELSE "ok"
    <2>1. /\ ask' = [ask EXCEPT ![c].step = step] /\ trip' = [trip EXCEPT !.status = ask[c].to]
          /\ ask[c].to \in {"COMPLETED", "CANCELLED"} /\ AtStep(c, "update") /\ UNCHANGED <<fixes, missed>>
      BY <1>5 DEF UpdateTrip, Reach, AtStep, AsksAreOfTheTrip
    <2>2. step \in {"measure", "ok"} /\ (ask[c].to = "COMPLETED" => step = "measure")
      OBVIOUS
    <2> HIDE DEF step
    <2>3. /\ ask' \in [Client -> Asked]
          /\ ask'[c].step = step /\ ask'[c].by = ask[c].by /\ ask'[c].to = ask[c].to
          /\ \A d \in Client : d # c => ask'[d] = ask[d]
      BY <2>1, <2>2, Reaching DEF TripsTypeOK, AskStep
    <2>4. /\ trip' \in [owner : Owner \cup {Nobody}, status : TripStatus, measured : SUBSET Fix]
          /\ trip'.status = ask[c].to /\ trip'.owner = trip.owner /\ trip'.measured = trip.measured
      BY <2>1 DEF TripsTypeOK, TripStatus
    <2>5. TripsTypeOK'
      BY <2>1, <2>3, <2>4 DEF TripsTypeOK
    <2>6. AsksAreOfTheTrip'
      BY <2>1, <2>2, <2>3, <2>4 DEF AsksAreOfTheTrip, AtStep
    <2>7. DistanceCoversTrack'
      BY <2>1, <2>2, <2>3, <2>4 DEF DistanceCoversTrack, AtStep
    <2> QED  BY <2>5, <2>6, <2>7
  <1>6. ASSUME NEW c \in Client, recomputeDistance(c) PROVE TripsInv'
    <2>1. ask' = [ask EXCEPT ![c].step = "ok"] /\ trip' = [trip EXCEPT !.measured = fixes]
          /\ AtStep(c, "measure") /\ UNCHANGED <<fixes, missed>>
      BY <1>6 DEF recomputeDistance, Reach
    <2>2. /\ ask' \in [Client -> Asked]
          /\ ask'[c].step = "ok" /\ ask'[c].by = ask[c].by
          /\ \A d \in Client : d # c => ask'[d] = ask[d]
      BY <2>1, Reaching DEF TripsTypeOK, AskStep
    <2>3. /\ trip' \in [owner : Owner \cup {Nobody}, status : TripStatus, measured : SUBSET Fix]
          /\ trip'.measured = fixes /\ trip'.status = trip.status /\ trip'.owner = trip.owner
      BY <2>1 DEF TripsTypeOK
    <2>4. TripsTypeOK'
      BY <2>1, <2>2, <2>3 DEF TripsTypeOK
    <2>5. AsksAreOfTheTrip'
      BY <2>1, <2>2, <2>3 DEF AsksAreOfTheTrip, AtStep
    <2>6. DistanceCoversTrack'
      BY <2>1, <2>3 DEF DistanceCoversTrack
    <2> QED  BY <2>4, <2>5, <2>6
  <1>7. ASSUME NEW c \in Client, assertAcceptsPoints(c) PROVE TripsInv'
    <2> DEFINE step == IF ~Owns(c) \/ trip.status = "CANCELLED" THEN "refused" ELSE "insert"
    <2>1. ask' = [ask EXCEPT ![c].step = step, ![c].seen = trip.status]
          /\ AtStep(c, "accept") /\ UNCHANGED <<trip, fixes, missed>>
      BY <1>7 DEF assertAcceptsPoints
    <2>2. step \in {"refused", "insert"} /\ (step = "insert" => trip.status \in {"ACTIVE", "COMPLETED"})
      BY <2>1, TripRecordsAssumption DEF TripsTypeOK, TripStatus, AsksAreOfTheTrip, AtStep, Owns
    <2> HIDE DEF step
    <2>3. /\ ask' \in [Client -> Asked]
          /\ ask'[c].step = step /\ ask'[c].by = ask[c].by /\ ask'[c].to = ask[c].to /\ ask'[c].seen = trip.status
          /\ \A d \in Client : d # c => ask'[d] = ask[d]
      <3> DEFINE new == [ask[c] EXCEPT !.step = step, !.seen = trip.status]
      <3>1. ask[c] \in Asked /\ trip.status \in TripStatus /\ step \in AskStep
        BY <2>2 DEF TripsTypeOK, AskStep
      <3>2. /\ new \in Asked /\ new.step = step /\ new.by = ask[c].by /\ new.to = ask[c].to
            /\ new.seen = trip.status
        BY <3>1 DEF Asked
      <3>3. ask' = [ask EXCEPT ![c] = new]
        BY <2>1
      <3> QED  BY <3>2, <3>3 DEF TripsTypeOK
    <2>4. TripsTypeOK'
      BY <2>1, <2>3 DEF TripsTypeOK
    <2>5. AsksAreOfTheTrip'
      BY <2>1, <2>2, <2>3 DEF AsksAreOfTheTrip, AtStep
    <2>6. DistanceCoversTrack'
      BY <2>1, <2>2, <2>3 DEF DistanceCoversTrack, AtStep
    <2> QED  BY <2>4, <2>5, <2>6
  <1>8. ASSUME NEW c \in Client, InsertFixes(c) PROVE TripsInv'
    <2> DEFINE step == IF ask[c].batch \subseteq fixes \/ ask[c].seen # "COMPLETED" THEN "ok" ELSE "measure"
    <2>1. /\ ask' = [ask EXCEPT ![c].step = step] /\ UNCHANGED trip /\ AtStep(c, "insert")
          /\ fixes' = fixes \cup ask[c].batch
          /\ missed' = IF ask[c].seen = "ACTIVE" /\ trip.status # "ACTIVE"
                       THEN missed \cup (ask[c].batch \ fixes) ELSE missed
      BY <1>8 DEF InsertFixes, Reach
    <2>2. step \in {"ok", "measure"} /\ (step = "ok" => ask[c].batch \subseteq fixes \/ ask[c].seen # "COMPLETED")
      OBVIOUS
    <2> HIDE DEF step
    <2>3. /\ ask' \in [Client -> Asked]
          /\ ask'[c].step = step /\ ask'[c].by = ask[c].by
          /\ \A d \in Client : d # c => ask'[d] = ask[d]
      BY <2>1, <2>2, Reaching DEF TripsTypeOK, AskStep
    <2>4. TripsTypeOK'
      <3>1. ask[c].batch \in SUBSET Fix
        BY DEF TripsTypeOK, Asked
      <3> QED  BY <2>1, <2>3, <3>1 DEF TripsTypeOK
    <2>5. AsksAreOfTheTrip'
      BY <2>1, <2>2, <2>3 DEF AsksAreOfTheTrip, AtStep
    <2>6. DistanceCoversTrack'
      <3>1. SUFFICES ASSUME trip.status = "COMPLETED", \A d \in Client : ~AtStep(d, "measure")'
                     PROVE  fixes' \subseteq trip.measured \cup missed'
        BY <2>1 DEF DistanceCoversTrack
      <3>2. step = "ok" /\ \A d \in Client : ~AtStep(d, "measure")
        BY <2>1, <2>2, <2>3, <3>1 DEF AtStep
      <3>3. fixes \subseteq trip.measured \cup missed
        BY <3>1, <3>2 DEF DistanceCoversTrack
      <3>4. ask[c].seen \in {"ACTIVE", "COMPLETED"}
        BY <2>1 DEF AsksAreOfTheTrip
      <3> QED  BY <2>1, <2>2, <3>1, <3>2, <3>3, <3>4
    <2> QED  BY <2>4, <2>5, <2>6
  <1>9. CASE UNCHANGED tripVars
    BY <1>9 DEF tripVars, TripsTypeOK, AsksAreOfTheTrip, DistanceCoversTrack, AtStep
  <1> QED
    BY <1>1, <1>2, <1>3, <1>4, <1>5, <1>6, <1>7, <1>8, <1>9 DEF TripsNext, TripsStep

(* The distance of a completed trip covers every fix that was stored, but  *)
(* those a request stored after it had found the trip active and another   *)
(* closed it, and those of a request that was cut before it measured, with *)
(* any number of requests (TrackingService.recordBatch,                    *)
(* TripsService.finish).                                                   *)
THEOREM DistanceAlwaysCoversTrack == TripsSpec => []DistanceCoversTrack
  <1>1. TripsInv => DistanceCoversTrack
    BY DEF TripsInv
  <1> QED  BY <1>1, TripsInitInv, TripsNextKeepsInv, PTL DEF TripsSpec

-----------------------------------------------------------------------------
(* TripsService.path.  The division of SQL integers, and the places of a    *)
(* thinned track: each of them opens the next of max - 1 equal stretches.   *)
LEMMA DivIs ==
  ASSUME NEW a \in Nat, NEW n \in Nat \ {0}
  PROVE  a \div n \in Nat /\ (a \div n) * n <= a /\ a < (a \div n) * n + n
  OBVIOUS
LEMMA TimesGrows ==
  ASSUME NEW a \in Int, NEW b \in Int, NEW n \in Nat, a <= b
  PROVE  a * n \in Int /\ b * n \in Int /\ a * n <= b * n
  OBVIOUS
LEMMA TimesNext ==
  ASSUME NEW a \in Int, NEW n \in Int
  PROVE  a * n \in Int /\ (a + 1) * n = a * n + n /\ (a - 1) * n = a * n - n /\ a * n = n * a
  OBVIOUS

(* The stretch of a track of n + 1 fixes that a position belongs to, out of m. *)
Stretch(p, m, n) == (p * m) \div n

LEMMA StretchIs ==
  ASSUME NEW m \in Nat \ {0}, NEW n \in Nat, m < n
  PROVE  /\ \A p \in Nat : Stretch(p, m, n) \in Nat
         /\ Stretch(0, m, n) = 0 /\ Stretch(n, m, n) = m
         /\ \A p, q \in Nat : p <= q => Stretch(p, m, n) <= Stretch(q, m, n)
         /\ \A p \in Nat \ {0} : Stretch(p, m, n) <= Stretch(p - 1, m, n) + 1
         /\ Stretch(n - 1, m, n) < m
  <1> DEFINE g(p) == Stretch(p, m, n)
  <1>1. \A p \in Nat : /\ p * m \in Nat /\ g(p) \in Nat
                       /\ g(p) * n <= p * m /\ p * m < g(p) * n + n
    <2> TAKE p \in Nat
    <2>1. p * m \in Nat /\ n \in Nat \ {0}
      OBVIOUS
    <2> QED  BY <2>1, DivIs DEF Stretch
  <1> HIDE DEF g
  <1>2. \A a \in Nat, p \in Nat : a * n <= p * m => a <= g(p)
    <2> SUFFICES ASSUME NEW a \in Nat, NEW p \in Nat, a * n <= p * m, g(p) + 1 <= a PROVE FALSE
      BY <1>1
    <2>1. g(p) \in Int /\ g(p) + 1 \in Int /\ a \in Int /\ n \in Int /\ g(p) * n \in Int
      BY <1>1, TimesNext
    <2>2. (g(p) + 1) * n <= a * n
      BY <2>1, TimesGrows
    <2>3. (g(p) + 1) * n = g(p) * n + n
      BY <2>1, TimesNext
    <2>4. p * m \in Int /\ a * n \in Int
      BY <1>1, <2>1, TimesNext
    <2> QED  BY <1>1, <2>1, <2>2, <2>3, <2>4
  <1>3. \A a \in Nat, p \in Nat : p * m < a * n => g(p) < a
    <2> SUFFICES ASSUME NEW a \in Nat, NEW p \in Nat, p * m < a * n, a <= g(p) PROVE FALSE
      BY <1>1
    <2>1. g(p) \in Int /\ a \in Int /\ n \in Int
      BY <1>1
    <2>2. a * n <= g(p) * n /\ g(p) * n \in Int /\ a * n \in Int
      BY <2>1, TimesGrows
    <2> QED  BY <1>1, <2>2
  <1>4. g(0) = 0
    BY DEF g, Stretch
  <1>5. g(n) = m
    <2>1. m \in Int /\ n \in Int /\ m + 1 \in Nat
      OBVIOUS
    <2>2. m * n = n * m /\ (m + 1) * n = m * n + n /\ m * n \in Int
      BY <2>1, TimesNext
    <2>3. m <= g(n)
      BY <1>2, <2>2
    <2>4. g(n) < m + 1
      BY <1>3, <2>1, <2>2
    <2>5. g(n) \in Nat
      BY <1>1
    <2> HIDE DEF g
    <2> QED  BY <2>3, <2>4, <2>5
  <1>6. ASSUME NEW p \in Nat, NEW q \in Nat, p <= q PROVE g(p) <= g(q)
    <2>1. p \in Int /\ q \in Int /\ m \in Nat
      OBVIOUS
    <2>2. p * m <= q * m
      BY <1>6, <2>1, TimesGrows
    <2>3. g(p) * n <= p * m /\ p * m \in Nat /\ q * m \in Nat /\ g(p) \in Nat
      BY <1>1
    <2>4. g(p) * n \in Int
      BY <2>3, TimesNext
    <2>5. g(p) * n <= q * m
      BY <2>2, <2>3, <2>4
    <2> QED  BY <1>2, <2>3, <2>5
  <1>7. ASSUME NEW p \in Nat \ {0} PROVE g(p) <= g(p - 1) + 1
    <2>1. (p - 1) * m = p * m - m /\ p - 1 \in Nat
      BY TimesNext
    <2>2. (g(p - 1) + 1) * n = g(p - 1) * n + n /\ (g(p - 1) + 1 + 1) * n = (g(p - 1) + 1) * n + n
          /\ g(p - 1) * n \in Int
      BY <1>1, <2>1, TimesNext
    <2>3. p * m < (g(p - 1) + 2) * n
      BY <1>1, <2>1, <2>2
    <2> QED  BY <1>1, <1>3, <2>1, <2>3
  <1>8. g(n - 1) < m
    <2>1. (n - 1) * m = n * m - m /\ m * n = n * m /\ n - 1 \in Nat
      BY TimesNext
    <2> QED  BY <1>1, <1>3, <2>1
  <1> QED  BY <1>1, <1>4, <1>5, <1>6, <1>7, <1>8 DEF g

(* A set of positions up to n has a least one, if any. *)
LEMMA LeastPosition ==
  ASSUME NEW T \in SUBSET Nat, T # {}
  PROVE  \E x \in T : \A y \in T : x <= y
  <1> DEFINE less == {p \in Nat \X Nat : p[1] < p[2]}
  <1>1. IsWellFoundedOn(less, Nat)
    BY NatLessThanWellFounded, Zenon DEF OpToRel
  <1>2. PICK x \in T : \A y \in T : <<y, x>> \notin less
    BY <1>1, WFMin, Zenon
  <1>3. \A m, n \in Nat : <<m, n>> \in less <=> m < n
    OBVIOUS
  <1> HIDE DEF less
  <1>4. \A y \in T : ~(y < x)
    BY <1>2, <1>3, Zenon
  <1> QED  BY <1>4

(* Each stretch is opened by one of the kept positions. *)
LEMMA KeptOpenStretches ==
  ASSUME NEW m \in Nat \ {0}, NEW n \in Nat, m < n
  PROVE  LET kept == {p \in 0..n : p = 0 \/ Stretch(p, m, n) > Stretch(p - 1, m, n)} IN
         {0, n} \subseteq kept /\ Cardinality(kept) = m + 1
  <1> DEFINE g(p) == Stretch(p, m, n)
             kept == {p \in 0..n : p = 0 \/ g(p) > g(p - 1)}
             f == [p \in kept |-> g(p)]
  <1>1. /\ \A p \in Nat : g(p) \in Nat
        /\ g(0) = 0 /\ g(n) = m
        /\ \A p, q \in Nat : p <= q => g(p) <= g(q)
        /\ \A p \in Nat \ {0} : g(p) <= g(p - 1) + 1
        /\ g(n - 1) < m
    BY StretchIs
  <1> HIDE DEF g
  <1>2. kept \subseteq 0..n /\ {0, n} \subseteq kept
    BY <1>1
  <1>3. f \in [kept -> 0..m]
    BY <1>1, <1>2
  <1>4. \A p, q \in kept : f[p] = f[q] => p = q
    <2>1. ASSUME NEW p \in kept, NEW q \in kept, p < q PROVE g(p) < g(q)
      <3>1. p \in Nat /\ q \in Nat \ {0} /\ q - 1 \in Nat /\ p <= q - 1 /\ g(q) > g(q - 1)
        BY <2>1
      <3> QED  BY <1>1, <3>1
    <2>2. \A p \in kept : f[p] = g(p) /\ p \in Nat /\ g(p) \in Nat
      BY <1>1
    <2> HIDE DEF f, kept
    <2> QED  BY <2>1, <2>2
  <1>5. ASSUME NEW j \in 0..m PROVE \E p \in kept : f[p] = j
    <2> DEFINE reach == {p \in 0..n : j <= g(p)}
    <2>1. n \in reach /\ reach \subseteq Nat
      BY <1>1
    <2>2. PICK p \in reach : \A q \in reach : p <= q
      BY <2>1, LeastPosition
    <2>3. CASE p = 0
      BY <1>1, <1>2, <2>2, <2>3
    <2>4. CASE p # 0
      <3>1. p - 1 \in 0..n /\ p - 1 \notin reach /\ p \in Nat \ {0} /\ p - 1 \in Nat
        BY <2>1, <2>2, <2>4
      <3>2. g(p - 1) < j /\ j <= g(p) /\ g(p) <= g(p - 1) + 1
        BY <1>1, <2>2, <3>1
      <3>3. g(p) = j /\ p \in kept
        BY <1>1, <2>2, <3>1, <3>2
      <3> QED  BY <3>3
    <2> QED  BY <2>3, <2>4
  <1> HIDE DEF kept
  <1>6. f \in Surjection(kept, 0..m) /\ f \in Injection(kept, 0..m)
    BY <1>3, <1>4, <1>5 DEF Surjection, Injection, IsInjective
  <1>7. IsFiniteSet(kept) /\ Cardinality(0..m) = m + 1
    <2>1. IsFiniteSet(0..n) /\ 0 \in Int /\ n \in Int /\ m \in Int
      BY FS_Interval
    <2>2. IsFiniteSet(kept)
      BY <1>2, <2>1, FS_Subset
    <2>3. Cardinality(0..m) = IF 0 > m THEN 0 ELSE m - 0 + 1
      BY <2>1, FS_Interval
    <2> QED  BY <2>1, <2>2, <2>3
  <1> HIDE DEF f
  <1>8. Cardinality(kept) = m + 1
    BY <1>6, <1>7, FS_Surjection
  <1> QED  BY <1>2, <1>8 DEF kept, g

(* A track of any length is shown with its two ends and, when it is too    *)
(* long, with as many fixes as were asked for (TripsService.path).         *)
THEOREM PathAlwaysKeepsEnds ==
  ASSUME NEW total \in Nat, NEW max \in Nat \ {0, 1}
  PROVE  ThinnedKeepsEnds(total, max)
  <1> SUFFICES ASSUME total >= 1
               PROVE  {0, total - 1} \subseteq Thinned(total, max)
                      /\ Cardinality(Thinned(total, max)) = IF total < max THEN total ELSE max
    BY DEF ThinnedKeepsEnds
  <1>1. CASE total <= max
    <2>1. Thinned(total, max) = 0..total - 1
      BY <1>1 DEF Thinned
    <2>2. Cardinality(0..total - 1) = total
      BY FS_Interval
    <2> QED  BY <1>1, <2>1, <2>2
  <1>2. CASE total > max
    <2> DEFINE m == max - 1
               n == total - 1
    <2>1. m \in Nat \ {0} /\ n \in Nat /\ m < n
      BY <1>2
    <2>2. Thinned(total, max) = {p \in 0..n : p = 0 \/ Stretch(p, m, n) > Stretch(p - 1, m, n)}
      BY <1>2 DEF Thinned, Stretch
    <2> HIDE DEF m, n
    <2>3. {0, n} \subseteq Thinned(total, max) /\ Cardinality(Thinned(total, max)) = m + 1
      BY <2>1, <2>2, KeptOpenStretches
    <2> QED  BY <1>2, <2>3 DEF m, n
  <1> QED  BY <1>1, <1>2

(* What a trip says of its fixes is about all of them, with any number of  *)
(* requests and fixes: its distance, and the track that is shown.          *)
THEOREM TracksAlwaysWhole == TripsSpec => []TracksAreWhole
  <1>1. PathKeepsEnds
    BY PathAlwaysKeepsEnds DEF PathKeepsEnds
  <1>2. DistanceCoversTrack => TracksAreWhole
    BY <1>1 DEF TracksAreWhole
  <1> QED  BY <1>2, DistanceAlwaysCoversTrack, PTL

-----------------------------------------------------------------------------
(* RouteFeed.  A transaction that changed a row of a route has it for      *)
(* itself until it commits, and whether it clears the tombstone is decided *)
(* then.                                                                   *)

Saving == {<<"insert", "clear", "commit">>, <<"clear", "commit">>, <<"commit">>}
Deleting == {<<"delete", "bury", "commit">>, <<"bury", "commit">>, <<"commit">>}
Transaction == [todo : Saving \cup Deleting \cup {<<>>}, route : Nat, at : Int, v : Nat,
                holds : BOOLEAN, clears : BOOLEAN]
Orderly(t) ==
  /\ t.todo # <<>> => t.route \in Route /\ t.todo \in IF t.v = NoId THEN Deleting ELSE Saving
  /\ t.holds <=> t.todo # <<>> /\ Head(t.todo) \notin {"insert", "delete"}
TxAreOrderly ==
  /\ writes \in Nat /\ clock \in Int
  /\ routes = [r \in Route |-> routes[r]] /\ tombstone = [r \in Route |-> tombstone[r]]
  /\ tx \in [Party -> Transaction] /\ \A s \in Party : Orderly(tx[s])
ChangesAreExclusive ==
  \A s, o \in Party : tx[s].holds /\ tx[o].holds /\ tx[s].route = tx[o].route => s = o
ClearsAreKnown ==
  \A s \in Party : tx[s].todo = <<"commit">> /\ tx[s].v # NoId =>
    (tx[s].clears <=> tombstone[tx[s].route] # Never)
FeedInv == TxAreOrderly /\ ChangesAreExclusive /\ ClearsAreKnown /\ NeverInBothTables

LEMMA Lists ==
  /\ Tail(<<"insert", "clear", "commit">>) = <<"clear", "commit">> /\ Tail(<<"clear", "commit">>) = <<"commit">>
  /\ Tail(<<"delete", "bury", "commit">>) = <<"bury", "commit">> /\ Tail(<<"bury", "commit">>) = <<"commit">>
  OBVIOUS
LEMMA Heads ==
  /\ Head(<<"insert", "clear", "commit">>) = "insert" /\ Head(<<"clear", "commit">>) = "clear"
  /\ Head(<<"delete", "bury", "commit">>) = "delete" /\ Head(<<"bury", "commit">>) = "bury"
  /\ Head(<<"commit">>) = "commit"
  OBVIOUS
LEMMA Different ==
  /\ <<"insert", "clear", "commit">> # <<"delete", "bury", "commit">>
  /\ \A l \in Saving \cup Deleting : l # <<>> /\ (Head(l) = "commit" <=> l = <<"commit">>)
  BY Heads DEF Saving, Deleting

LEMMA FeedInitInv == RouteFeedInit => FeedInv
  BY DEF RouteFeedInit, FeedInv, TxAreOrderly, Transaction, Orderly, ChangesAreExclusive, ClearsAreKnown, NeverInBothTables,
         NoTx, NoRow, IsOpen, NoId, Never

(* A transaction goes on: it may come to hold a row that no other holds. *)
LEMMA GoesOnKeepsInv ==
  ASSUME FeedInv, NEW s \in Party, NEW new \in Transaction, tx' = [tx EXCEPT ![s] = new], Orderly(new),
         UNCHANGED <<routes, tombstone>>, writes' \in Nat, clock' \in Int,
         new.holds /\ tx[s].holds => new.route = tx[s].route,
         new.holds /\ ~tx[s].holds => \A o \in Party \ {s} : ~(tx[o].holds /\ tx[o].route = new.route),
         new.todo = <<"commit">> /\ new.v # NoId => (new.clears <=> tombstone[new.route] # Never)
  PROVE  FeedInv'
  <1> USE DEF FeedInv
  <1>1. tx'[s] = new /\ (\A o \in Party : o # s => tx'[o] = tx[o]) /\ tx' \in [Party -> Transaction]
    BY DEF TxAreOrderly
  <1>2. TxAreOrderly'
    BY <1>1 DEF TxAreOrderly
  <1>3. ChangesAreExclusive'
    BY <1>1 DEF ChangesAreExclusive
  <1>4. ClearsAreKnown'
    BY <1>1 DEF ClearsAreKnown
  <1>5. NeverInBothTables'
    BY DEF NeverInBothTables
  <1> QED  BY <1>2, <1>3, <1>4, <1>5

LEMMA BegunKeepsInv ==
  ASSUME FeedInv, NEW s \in Party, NEW r \in Route, NEW todo \in {SaveRoute, DeleteRoute}, BeginTx(s, r, todo)
  PROVE  FeedInv'
  <1> DEFINE v == IF todo = SaveRoute THEN writes + 1 ELSE NoId
             new == [todo |-> todo, route |-> r, at |-> clock, v |-> v, holds |-> FALSE, clears |-> FALSE]
  <1>1. /\ tx' = [tx EXCEPT ![s] = new] /\ UNCHANGED <<routes, tombstone, clock>> /\ writes' \in Nat
        /\ writes \in Nat /\ clock \in Int /\ r \in Nat
    BY RouteFeedAssumption DEF BeginTx, FeedInv, TxAreOrderly, Route
  <1>2. v \in Nat /\ todo \in Saving \cup Deleting /\ todo \in IF v = NoId THEN Deleting ELSE Saving
    BY <1>1, Different DEF SaveRoute, DeleteRoute, NoId, Saving, Deleting
  <1>3. Head(todo) \in {"insert", "delete"} /\ todo # <<"commit">>
    BY Heads DEF SaveRoute, DeleteRoute
  <1> HIDE DEF v
  <1>4. new \in Transaction /\ Orderly(new)
    BY <1>1, <1>2, <1>3 DEF Transaction, Orderly
  <1> QED  BY <1>1, <1>3, <1>4, GoesOnKeepsInv DEF FeedInv, TxAreOrderly

LEMMA StatementsKeepInv ==
  ASSUME FeedInv, NEW s \in Party, Statements(s)
  PROVE  FeedInv'
  <1> DEFINE t == tx[s]
             Now(holds, clears) == [t EXCEPT !.todo = Tail(t.todo), !.holds = holds, !.clears = clears]
  <1>1. /\ t \in Transaction /\ Orderly(t) /\ t.todo # <<>> /\ clock \in Int /\ writes \in Nat
        /\ UNCHANGED <<clock, routes, tombstone, writes>>
    BY DEF Statements, IsOpen, FeedInv, TxAreOrderly
  <1>2. t.todo \in Saving \cup Deleting /\ t.route \in Route /\ t.todo \in IF t.v = NoId THEN Deleting ELSE Saving
    BY <1>1 DEF Orderly
  <1>3. ASSUME NEW holds \in BOOLEAN, NEW clears \in BOOLEAN, Advance(s, holds, clears)
        PROVE  tx' = [tx EXCEPT ![s] = Now(holds, clears)]
    BY <1>1, <1>3 DEF Advance, FeedInv, TxAreOrderly, Transaction
  <1>4. CASE Head(t.todo) = "insert" \/ Head(t.todo) = "delete"
    <2>1. /\ t.todo = <<"insert", "clear", "commit">> \/ t.todo = <<"delete", "bury", "commit">>
          /\ Tail(t.todo) \in {<<"clear", "commit">>, <<"bury", "commit">>}
      BY <1>2, <1>4, Heads, Lists DEF Saving, Deleting
    <2>2. /\ Tail(t.todo) \in Saving \cup Deleting
          /\ Tail(t.todo) \in IF t.v = NoId THEN Deleting ELSE Saving
          /\ Tail(t.todo) # <<>> /\ Head(Tail(t.todo)) \notin {"insert", "delete", "commit"}
          /\ Tail(t.todo) # <<"commit">>
      BY <1>2, <1>4, Heads, Lists, Different DEF Saving, Deleting
    <2>3. ~t.holds /\ \E clears \in BOOLEAN : Advance(s, TRUE, clears)
      BY <1>1, <1>4, Heads DEF Statements, Orderly, Transaction
    <2>4. PICK clears \in BOOLEAN : tx' = [tx EXCEPT ![s] = Now(TRUE, clears)]
      BY <1>3, <2>3
    <2>5. /\ Now(TRUE, clears) \in Transaction /\ Now(TRUE, clears).todo = Tail(t.todo)
          /\ Now(TRUE, clears).holds = TRUE /\ Now(TRUE, clears).route = t.route /\ Now(TRUE, clears).v = t.v
      BY <1>1, <2>2 DEF Transaction
    <2>6. \A o \in Party \ {s} : ~(tx[o].holds /\ tx[o].route = t.route)
      BY <1>4, Heads DEF Statements, LockedRoute
    <2> HIDE DEF Now, t
    <2>7. Orderly(Now(TRUE, clears))
      BY <1>2, <2>2, <2>5 DEF Orderly
    <2> QED  BY <1>1, <2>2, <2>3, <2>4, <2>5, <2>6, <2>7, GoesOnKeepsInv DEF t
  <1>5. CASE Head(t.todo) = "clear" \/ Head(t.todo) = "bury"
    <2>1. /\ Tail(t.todo) = <<"commit">> /\ t.holds
          /\ Head(t.todo) = "bury" => t.v = NoId
      BY <1>1, <1>2, <1>5, Heads, Lists DEF Saving, Deleting, Orderly
    <2>2. PICK clears \in BOOLEAN : /\ tx' = [tx EXCEPT ![s] = Now(TRUE, clears)]
                                    /\ t.v # NoId => (clears <=> tombstone[t.route] # Never)
      <3>1. \E clears \in BOOLEAN : /\ Advance(s, TRUE, clears)
                                    /\ t.v # NoId => (clears <=> tombstone[t.route] # Never)
        <4>1. CASE Head(t.todo) = "clear"
          <5>1. Advance(s, t.holds, tombstone[t.route] # Never) /\ (tombstone[t.route] # Never) \in BOOLEAN
            BY <4>1 DEF Statements
          <5>2. t.holds = TRUE
            BY <1>1, <2>1 DEF Transaction
          <5> QED  BY <5>1, <5>2
        <4>2. CASE Head(t.todo) = "bury"
          <5>1. Advance(s, t.holds, FALSE)
            BY <4>2 DEF Statements
          <5>2. t.holds = TRUE
            BY <1>1, <2>1 DEF Transaction
          <5> QED  BY <2>1, <4>2, <5>1, <5>2
        <4> QED  BY <1>5, <4>1, <4>2
      <3> QED  BY <1>3, <3>1
    <2>3. /\ Now(TRUE, clears) \in Transaction /\ Now(TRUE, clears).todo = <<"commit">>
          /\ Now(TRUE, clears).holds = TRUE /\ Now(TRUE, clears).route = t.route /\ Now(TRUE, clears).v = t.v
          /\ Now(TRUE, clears).clears = clears
      BY <1>1, <2>1 DEF Transaction, Saving
    <2>4. Head(<<"commit">>) = "commit" /\ <<"commit">> # <<>> /\ <<"commit">> \in Saving \cap Deleting
      BY Heads DEF Saving, Deleting
    <2> HIDE DEF Now, t
    <2>5. Orderly(Now(TRUE, clears))
      BY <1>2, <2>3, <2>4 DEF Orderly
    <2> QED  BY <1>1, <2>1, <2>2, <2>3, <2>5, GoesOnKeepsInv DEF t
  <1> QED  BY <1>4, <1>5 DEF Statements

(* The commit decides the two rows of the route, and nobody else has changed them. *)
LEMMA CommitKeepsInv ==
  ASSUME FeedInv, NEW s \in Party, CommitTx(s)
  PROVE  FeedInv'
  <1> USE DEF FeedInv
  <1> DEFINE t == tx[s]
  <1>1. /\ t \in Transaction /\ Orderly(t) /\ t.todo = <<"commit">> /\ t.route \in Route /\ t.holds
        /\ t.v # NoId => (t.clears <=> tombstone[t.route] # Never)
    BY Different, Heads DEF CommitTx, IsOpen, TxAreOrderly, Orderly, ClearsAreKnown, Transaction
  <1>2. NoTx \in Transaction /\ Orderly(NoTx) /\ ~NoTx.holds /\ NoTx.todo = <<>> /\ <<>> # <<"commit">>
    BY DEF NoTx, Transaction, Orderly, Never, NoId
  <1>3. /\ routes' = [routes EXCEPT ![t.route] = IF t.v = NoId THEN NoRow ELSE [at |-> t.at, v |-> t.v]]
        /\ tombstone' = [tombstone EXCEPT ![t.route] =
                           IF t.v = NoId THEN t.at ELSE IF t.clears THEN Never ELSE tombstone[t.route]]
        /\ tx' = [tx EXCEPT ![s] = NoTx] /\ UNCHANGED <<clock, writes>>
    BY DEF CommitTx
  <1>4. tx'[s] = NoTx /\ (\A o \in Party : o # s => tx'[o] = tx[o]) /\ tx' \in [Party -> Transaction]
    BY <1>2, <1>3 DEF TxAreOrderly
  <1>5. TxAreOrderly'
    BY <1>2, <1>3, <1>4 DEF TxAreOrderly
  <1>6. ChangesAreExclusive'
    BY <1>2, <1>4 DEF ChangesAreExclusive
  <1>7. \A o \in Party : o # s /\ tx[o].todo = <<"commit">> => tx[o].route # t.route
    BY <1>1, Heads, Different DEF TxAreOrderly, Orderly, ChangesAreExclusive
  <1>8. \A r \in Route : r # t.route => routes'[r] = routes[r] /\ tombstone'[r] = tombstone[r]
    BY <1>1, <1>3 DEF TxAreOrderly
  <1>9. ClearsAreKnown'
    <2> SUFFICES ASSUME NEW o \in Party, tx'[o].todo = <<"commit">>, tx'[o].v # NoId
                 PROVE  tx'[o].clears <=> tombstone'[tx'[o].route] # Never
      BY DEF ClearsAreKnown
    <2>1. o # s /\ tx'[o] = tx[o]
      BY <1>2, <1>4
    <2>2. tx[o].route \in Route /\ tx[o].route # t.route
      BY <1>7, <2>1, Different DEF TxAreOrderly, Orderly
    <2> QED  BY <1>8, <2>1, <2>2 DEF ClearsAreKnown
  <1>10. NeverInBothTables'
    <2> SUFFICES ASSUME NEW r \in Route PROVE ~(routes'[r] # NoRow /\ tombstone'[r] # Never)
      BY DEF NeverInBothTables
    <2>1. CASE r # t.route
      BY <1>8, <2>1 DEF NeverInBothTables
    <2>2. CASE r = t.route
      <3>1. routes'[r] = IF t.v = NoId THEN NoRow ELSE [at |-> t.at, v |-> t.v]
        BY <1>1, <1>3, <2>2 DEF TxAreOrderly
      <3>2. t.v # NoId => tombstone'[r] = Never
        BY <1>1, <1>3, <2>2 DEF TxAreOrderly
      <3> QED  BY <3>1, <3>2
    <2> QED  BY <2>1, <2>2
  <1> QED  BY <1>5, <1>6, <1>9, <1>10

LEMMA FeedNextKeepsInv == FeedInv /\ [RouteFeedNext]_feedVars => FeedInv'
  <1> SUFFICES ASSUME FeedInv, [RouteFeedNext]_feedVars PROVE FeedInv'
    OBVIOUS
  <1>1. ASSUME NEW s \in Writer, NEW r \in Route, BeginTx(s, r, SaveRoute) \/ BeginTx(s, r, DeleteRoute)
        PROVE  FeedInv'
    BY <1>1, BegunKeepsInv DEF Party
  <1>2. ASSUME NEW s \in Party, Statements(s) \/ CommitTx(s) PROVE FeedInv'
    BY <1>2, StatementsKeepInv, CommitKeepsInv
  <1>3. ASSUME NEW s \in Party, NotFound(s) PROVE FeedInv'
    <2>1. NoTx \in Transaction /\ Orderly(NoTx) /\ ~NoTx.holds /\ NoTx.v = NoId
      BY DEF NoTx, Transaction, Orderly, Never, NoId
    <2>2. tx' = [tx EXCEPT ![s] = NoTx] /\ UNCHANGED <<clock, routes, tombstone, writes>>
      BY <1>3 DEF NotFound
    <2> QED  BY <2>1, <2>2, GoesOnKeepsInv DEF FeedInv, TxAreOrderly
  <1>4. ASSUME NEW r \in Route, Push(r) PROVE FeedInv'
    BY <1>4, BegunKeepsInv DEF Push, Party
  <1>5. CASE UNCHANGED serverVars /\ clock' \in Int
    BY <1>5 DEF serverVars, FeedInv, TxAreOrderly, ChangesAreExclusive, ClearsAreKnown, NeverInBothTables
  <1>6. ASSUME NEW r \in Route, DeleteLocally(r) PROVE FeedInv'
    BY <1>5, <1>6 DEF DeleteLocally, FeedInv, TxAreOrderly
  <1>7. CASE Tick \/ StartPull \/ Answer \/ Apply \/ PullFails \/ UNCHANGED feedVars
    BY <1>5, <1>7 DEF Tick, StartPull, Answer, Apply, PullFails, feedVars, FeedInv, TxAreOrderly
  <1> QED  BY <1>1, <1>2, <1>3, <1>4, <1>6, <1>7 DEF RouteFeedNext

(* A route is never in both tables, whatever saves and deletions of it     *)
(* overlap, with any number of writers (PrismaRouteRepository).            *)
THEOREM RoutesAreInOneTable == RouteFeedSpec => []NeverInBothTables
  <1>1. FeedInv => NeverInBothTables
    BY DEF FeedInv
  <1> QED  BY <1>1, FeedInitInv, FeedNextKeepsInv, PTL DEF RouteFeedSpec

-----------------------------------------------------------------------------
(* A page of the feed.  The rows after a cursor are those of the routes    *)
(* changed after it, and the page is the first of them.                    *)

FeedRow == [at : Int, id : Route, v : Nat]
Cursor == [since : Int, after : Nat]
Page == [page : SUBSET FeedRow, hasMore : BOOLEAN]

Changed(r) == routes[r] # NoRow \/ tombstone[r] # Never
ChangeAt(r) == IF routes[r] # NoRow THEN routes[r].at ELSE tombstone[r]
RowOf(r) == [at |-> ChangeAt(r), id |-> r, v |-> routes[r].v]
Awaited(r, from) == After(ChangeAt(r), r, from)
NextOf(page) == [since |-> LastOf(page).at, after |-> LastOf(page).id]
TablesTypeOK == routes \in [Route -> [at : Int, v : Nat]] /\ tombstone \in [Route -> Int]

(* A finite set has an element before which, in any order, there is none. *)
LEMMA First ==
  ASSUME NEW S, IsFiniteSet(S), S # {}, NEW less,
         \A c \in S : <<c, c>> \notin less,
         \A c, d, e \in S : <<c, d>> \in less /\ <<d, e>> \in less => <<c, e>> \in less
  PROVE  \E c \in S : \A d \in S : <<d, c>> \notin less
  <1> DEFINE below(c) == {d \in S : <<d, c>> \in less}
             T == {below(c) : c \in S}
             in == StrictSubsetOrdering(S)
  <1>1. IsWellFoundedOn(in, FiniteSubsetsOf(S))
    BY FS_StrictSubsetOrderingWellFounded
  <1>2. T \subseteq FiniteSubsetsOf(S) /\ T # {}
    <2>1. \A c \in S : below(c) \in SUBSET S
      OBVIOUS
    <2> HIDE DEF below
    <2>2. T \subseteq SUBSET S /\ T # {}
      BY <2>1
    <2> QED  BY <2>2, FS_FiniteSubsetsOfFinite
  <1>3. PICK t \in T : \A u \in T : ~(<<u, t>> \in in)
    <2> HIDE DEF T, in
    <2> QED  BY <1>1, <1>2, WFMin
  <1>4. PICK c \in S : t = below(c)
    BY <1>3
  <1>5. ASSUME NEW d \in S, <<d, c>> \in less PROVE FALSE
    <2>1. below(d) \subseteq below(c) /\ d \in below(c) /\ d \notin below(d)
      BY <1>5
    <2>2. below(d) \in T /\ below(d) \in SUBSET S /\ below(c) \in SUBSET S
      OBVIOUS
    <2> HIDE DEF below, T
    <2>3. <<below(d), below(c)>> \in in
      BY <2>1, <2>2 DEF StrictSubsetOrdering
    <2> QED  BY <1>3, <1>4, <2>2, <2>3
  <1> QED  BY <1>5

LEMMA RowsAre ==
  ASSUME TablesTypeOK, NeverInBothTables, NEW from \in Cursor
  PROVE  Changes(from) = {RowOf(r) : r \in {q \in Route : Changed(q) /\ Awaited(q, from)}}
  <1>1. \A r \in Route : tombstone[r] # Never => routes[r] = NoRow /\ RowOf(r) = [at |-> tombstone[r], id |-> r, v |-> NoId]
    BY DEF NeverInBothTables, RowOf, ChangeAt, NoRow
  <1>2. \A r \in Route : routes[r] # NoRow => RowOf(r) = [at |-> routes[r].at, id |-> r, v |-> routes[r].v]
    BY DEF RowOf, ChangeAt
  <1>3. \A r \in Route : RowOf(r).at = ChangeAt(r) /\ RowOf(r).id = r
    BY DEF RowOf
  <1>4. ASSUME NEW c \in Changes(from)
        PROVE  c \in {RowOf(r) : r \in {q \in Route : Changed(q) /\ Awaited(q, from)}}
    <2>1. PICK r \in Route : Changed(r) /\ c = RowOf(r)
      BY <1>1, <1>2 DEF Changes, Changed
    <2> QED  BY <1>3, <2>1 DEF Changes, Awaited
  <1>5. ASSUME NEW r \in Route, Changed(r), Awaited(r, from) PROVE RowOf(r) \in Changes(from)
    BY <1>1, <1>2, <1>3, <1>5 DEF Changes, Changed, Awaited
  <1> QED  BY <1>4, <1>5

LEMMA RowsAreFinite ==
  ASSUME TablesTypeOK, NeverInBothTables, NEW from \in Cursor
  PROVE  /\ Changes(from) \in SUBSET FeedRow /\ IsFiniteSet(Changes(from))
         /\ \A c, d \in Changes(from) : c.id = d.id => c = d
  <1> DEFINE C == Changes(from)
             f == [c \in C |-> c.id]
  <1>1. \A c \in C : \E r \in Route : c = RowOf(r) /\ c.id = r
    BY RowsAre DEF RowOf
  <1>2. \A r \in Route : RowOf(r) \in FeedRow
    <2> SUFFICES ASSUME NEW r \in Route PROVE RowOf(r) \in FeedRow
      OBVIOUS
    <2>1. routes[r] \in [at : Int, v : Nat] /\ tombstone[r] \in Int
      BY DEF TablesTypeOK
    <2> QED  BY <2>1 DEF RowOf, FeedRow, ChangeAt
  <1>3. C \in SUBSET FeedRow /\ \A c, d \in C : c.id = d.id => c = d
    BY <1>1, <1>2
  <1> HIDE DEF C
  <1>4. f \in Injection(C, Route)
    BY <1>3 DEF Injection, IsInjective, FeedRow
  <1>5. IsFiniteSet(Route)
    BY FS_Interval, RouteFeedAssumption DEF Route
  <1> HIDE DEF f
  <1>6. IsFiniteSet(C)
    BY <1>4, <1>5, FS_Injection
  <1> QED  BY <1>3, <1>6 DEF C

(* The order of the feed, either way, on rows of different routes. *)
LEMMA FeedOrder ==
  /\ \A c \in FeedRow : ~InFeedOrder(c, c)
  /\ \A c, d, e \in FeedRow : InFeedOrder(c, d) /\ InFeedOrder(d, e) => InFeedOrder(c, e)
  /\ \A c, d \in FeedRow : c.id # d.id => InFeedOrder(c, d) \/ InFeedOrder(d, c)
  /\ \A c, d \in FeedRow : After(c.at, c.id, [since |-> d.at, after |-> d.id]) <=> InFeedOrder(d, c)
  <1>1. \A c \in FeedRow : c.at \in Int /\ c.id \in Int
    BY DEF Route, FeedRow
  <1>2. \A d \in FeedRow : LET from == [since |-> d.at, after |-> d.id] IN from.since = d.at /\ from.after = d.id
    OBVIOUS
  <1> QED  BY <1>1, <1>2 DEF InFeedOrder, After

LEMMA LastIsInPage ==
  ASSUME NEW page \in SUBSET FeedRow, IsFiniteSet(page), page # {}, \A c, d \in page : c.id = d.id => c = d
  PROVE  LastOf(page) \in page
  <1> DEFINE less == {p \in page \X page : InFeedOrder(p[2], p[1])}
  <1>1. \A c, d \in page : <<c, d>> \in less <=> InFeedOrder(d, c)
    OBVIOUS
  <1> HIDE DEF less
  <1>2. /\ \A c \in page : <<c, c>> \notin less
        /\ \A c, d, e \in page : <<c, d>> \in less /\ <<d, e>> \in less => <<c, e>> \in less
    BY <1>1, FeedOrder
  <1>3. \E c \in page : \A d \in page : <<d, c>> \notin less
    BY <1>2, First
  <1>4. \E c \in page : \A d \in page \ {c} : InFeedOrder(d, c)
    BY <1>1, <1>3, FeedOrder
  <1> QED  BY <1>4 DEF LastOf

(* A page is empty only when there is nothing, and has every row before one of its own. *)
LEMMA PageIsFirst ==
  ASSUME TablesTypeOK, NeverInBothTables, NEW from \in Cursor
  PROVE  LET all == Changes(from)
             got == changes(from) IN
         /\ got \in Page /\ got.page \subseteq all /\ (got.hasMore <=> got.page # all)
         /\ \A c \in got.page, d \in all : InFeedOrder(d, c) => d \in got.page
         /\ got.hasMore => LastOf(got.page) \in got.page
  <1> DEFINE all == Changes(from)
             before(c) == {d \in all : InFeedOrder(d, c)}
             page == {c \in all : Cardinality(before(c)) < PageLimit}
             less == {p \in all \X all : InFeedOrder(p[1], p[2])}
  <1>1. changes(from) = [page |-> page, hasMore |-> page # all]
    BY DEF changes
  <1>2. all \in SUBSET FeedRow /\ IsFiniteSet(all) /\ \A c, d \in all : c.id = d.id => c = d
    BY RowsAreFinite
  <1>3. PageLimit \in Nat \ {0}
    BY RouteFeedAssumption
  <1> HIDE DEF all
  <1>4. page \in SUBSET all /\ page \in SUBSET FeedRow /\ IsFiniteSet(page)
    BY <1>2, FS_Subset
  <1>5. ASSUME NEW c \in page, NEW d \in all, InFeedOrder(d, c) PROVE d \in page
    <2>1. before(d) \subseteq before(c) /\ before(c) \in SUBSET all
      BY <1>2, <1>5, FeedOrder
    <2>2. IsFiniteSet(before(c))
      BY <1>2, <2>1, FS_Subset
    <2>3. Cardinality(before(d)) <= Cardinality(before(c)) /\ Cardinality(before(d)) \in Nat /\ Cardinality(before(c)) \in Nat
      <3>1. before(d) \in SUBSET before(c)
        BY <2>1
      <3> HIDE DEF before
      <3> QED  BY <2>2, <3>1, FS_Subset, FS_CardinalityType
    <2> QED  BY <1>3, <1>5, <2>3
  <1>6. ASSUME all # {} PROVE page # {}
    <2>1. \A c, d \in all : <<c, d>> \in less <=> InFeedOrder(c, d)
      OBVIOUS
    <2> HIDE DEF less
    <2>2. /\ \A c \in all : <<c, c>> \notin less
          /\ \A c, d, e \in all : <<c, d>> \in less /\ <<d, e>> \in less => <<c, e>> \in less
      BY <1>2, <2>1, FeedOrder
    <2>3. PICK c \in all : \A d \in all : <<d, c>> \notin less
      BY <1>2, <1>6, <2>2, First
    <2>4. before(c) = {}
      BY <2>1, <2>3
    <2>5. Cardinality(before(c)) < PageLimit
      BY <1>3, <2>4, FS_EmptySet
    <2> QED  BY <2>5
  <1>7. page # all => LastOf(page) \in page
    <2>1. page # all => page # {}
      BY <1>6
    <2> HIDE DEF page
    <2> QED  BY <1>2, <1>4, <2>1, LastIsInPage
  <1>8. changes(from).page = page /\ (changes(from).hasMore <=> page # all) /\ changes(from) \in Page
    <2> HIDE DEF page
    <2>1. changes(from).page = page
      BY <1>1
    <2>2. changes(from).hasMore = (page # all)
      BY <1>1
    <2>3. \A p \in SUBSET FeedRow, h \in BOOLEAN : [page |-> p, hasMore |-> h] \in Page
      BY DEF Page
    <2>4. changes(from) \in Page
      BY <1>1, <1>4, <2>3, Zenon
    <2> QED  BY <2>1, <2>2, <2>4
  <1> HIDE DEF page
  <1> QED  BY <1>4, <1>5, <1>7, <1>8 DEF all

(* What a page says: the changes it has are those of the tables, and it    *)
(* has every change between the two cursors.                               *)
LEMMA PageIsTheFeed ==
  ASSUME TablesTypeOK, NeverInBothTables, NEW from \in Cursor
  PROVE  LET got == changes(from) IN
         /\ got \in Page
         /\ \A c \in got.page : Changed(c.id) /\ Awaited(c.id, from) /\ c = RowOf(c.id)
         /\ got.hasMore => LastOf(got.page) \in got.page
         /\ \A r \in Route : Changed(r) /\ Awaited(r, from) /\ (got.hasMore => ~Awaited(r, NextOf(got.page)))
                               => RowOf(r) \in got.page
  <1> DEFINE all == Changes(from)
             got == changes(from)
  <1>1. /\ got \in Page /\ got.page \subseteq all /\ (got.hasMore <=> got.page # all)
        /\ \A c \in got.page, d \in all : InFeedOrder(d, c) => d \in got.page
        /\ got.hasMore => LastOf(got.page) \in got.page
    BY PageIsFirst
  <1>2. /\ all = {RowOf(r) : r \in {q \in Route : Changed(q) /\ Awaited(q, from)}}
        /\ all \subseteq FeedRow /\ \A c, d \in all : c.id = d.id => c = d
    BY RowsAre, RowsAreFinite
  <1> HIDE DEF all, got
  <1>3. \A r \in Route : RowOf(r).id = r /\ RowOf(r).at = ChangeAt(r)
    BY DEF RowOf
  <1>4. \A c \in got.page : Changed(c.id) /\ Awaited(c.id, from) /\ c = RowOf(c.id)
    BY <1>1, <1>2, <1>3
  <1>5. ASSUME NEW r \in Route, Changed(r), Awaited(r, from), got.hasMore => ~Awaited(r, NextOf(got.page))
        PROVE  RowOf(r) \in got.page
    <2>1. RowOf(r) \in all
      BY <1>2, <1>5
    <2>2. CASE ~got.hasMore
      BY <1>1, <2>1, <2>2
    <2>3. CASE got.hasMore
      <3> DEFINE last == LastOf(got.page)
      <3>1. last \in got.page /\ last \in all /\ last \in FeedRow /\ RowOf(r) \in FeedRow
        BY <1>1, <1>2, <2>1, <2>3
      <3>2. ~After(RowOf(r).at, RowOf(r).id, [since |-> last.at, after |-> last.id])
        BY <1>3, <1>5, <2>3 DEF Awaited, NextOf
      <3> HIDE DEF last
      <3>3. ~InFeedOrder(last, RowOf(r))
        BY <3>1, <3>2, FeedOrder
      <3>4. RowOf(r).id = last.id \/ InFeedOrder(RowOf(r), last)
        BY <3>1, <3>3, FeedOrder
      <3> QED  BY <1>1, <1>2, <2>1, <3>1, <3>4
    <2> QED  BY <2>2, <2>3
  <1> QED  BY <1>1, <1>4, <1>5 DEF got

-----------------------------------------------------------------------------
(* The phone behind the feed.  A change that its cursor has passed is known *)
(* on the phone; so is one that the cursor of the pull under way, or the    *)
(* answer it has, has passed, unless it was committed since the pull began, *)
(* and then its time is no earlier than the next pull will start from.      *)

Pull == [on : BOOLEAN, from : Cursor, started : Int, pages : Nat, answer : {<<>>} \cup {<<a>> : a \in Page}]
Known(r) == r \in unsent \/ local[r] = routes[r].v
AppliedKnown(page, r) == r \in unsent \/ Applied(page)[r] = routes[r].v
Late(r) == ~calm /\ ChangeAt(r) >= pull.started - Overlap

FollowTypeOK ==
  /\ clock \in Nat /\ TablesTypeOK
  /\ local \in [Route -> Nat] /\ unsent \subseteq Route
  /\ cursor \in Cursor /\ pull \in Pull
  /\ calm \in BOOLEAN /\ followed \in BOOLEAN
TimesAreTrue ==
  /\ \A s \in Party : IsOpen(s) => tx[s].at \in Nat /\ tx[s].at <= clock /\ clock <= tx[s].at + Longest
  /\ \A r \in Route : Changed(r) => ChangeAt(r) \in Nat
PhoneWaits ==
  /\ IsOpen(ThisPhone) => ~pull.on /\ tx[ThisPhone].route \in unsent /\ tx[ThisPhone].v = NoId
  /\ \A r \in Route : r \in unsent \/ ~Changed(r) => local[r] = NoId
CursorIsBehind ==
  /\ cursor.after = NoId
  /\ cursor.since # Never => cursor.since <= clock - Overlap
  /\ \A r \in Route : Changed(r) /\ ~Awaited(r, cursor) => Known(r)
PullIsBehind ==
  /\ ~pull.on => pull = NoPull
  /\ pull.started <= clock
  /\ pull.on =>
       /\ pull.started = Never => pull.from = cursor /\ pull.answer = <<>>
       /\ \A at \in Int, r \in Route : After(at, r, pull.from) => After(at, r, cursor)
       /\ pull.started # Never =>
            \A r \in Route : Changed(r) /\ ~Awaited(r, pull.from) /\ ~Late(r) => Known(r)
AnswerIsBehind ==
  \A got \in Page : pull.answer = <<got>> =>
    /\ \A c \in got.page : /\ After(c.at, c.id, pull.from)
                           /\ Changed(c.id) /\ Awaited(c.id, cursor)
                           /\ calm => c.v = routes[c.id].v
    /\ got.hasMore => LastOf(got.page) \in got.page
    /\ \A r \in Route : Changed(r) /\ ~Late(r) /\ (got.hasMore => ~Awaited(r, NextOf(got.page)))
                          => AppliedKnown(got.page, r)
FollowedIsCalm == followed => calm /\ \A r \in Route : Known(r)
FollowInv ==
  FollowTypeOK /\ TimesAreTrue /\ PhoneWaits /\ CursorIsBehind /\ PullIsBehind /\ AnswerIsBehind /\ FollowedIsCalm

(* What applying a page does to a route. *)
LEMMA AppliedIs ==
  ASSUME FollowTypeOK, NEW page \in SUBSET FeedRow
  PROVE  /\ Applied(page) \in [Route -> Nat]
         /\ \A r \in Route : (\A c \in page : c.id # r) => Applied(page)[r] = local[r]
         /\ \A r \in Route : r \in unsent /\ local[r] = NoId => Applied(page)[r] = NoId
         /\ \A r \in Route, w \in Nat :
              (\E c \in page : c.id = r) /\ (\A c \in page : c.id = r => c.v = w)
                => r \in unsent \/ Applied(page)[r] = w
  <1> DEFINE of(r) == {c \in page : c.id = r}
             now(r) == IF \E c \in of(r) : c.v = NoId THEN NoId
                       ELSE IF of(r) = {} \/ r \in unsent THEN local[r]
                       ELSE (CHOOSE c \in of(r) : TRUE).v
  <1>1. Applied(page) = [r \in Route |-> now(r)]
    BY DEF Applied
  <1>2. \A r \in Route : Applied(page)[r] = now(r)
    BY <1>1
  <1>3. \A r \in Route : of(r) # {} => (CHOOSE c \in of(r) : TRUE) \in of(r)
    OBVIOUS
  <1>4. \A r \in Route : local[r] \in Nat /\ \A c \in of(r) : c.v \in Nat
    BY DEF FollowTypeOK, FeedRow
  <1>5. \A r \in Route : now(r) \in Nat
    BY <1>3, <1>4 DEF NoId
  <1>6. Applied(page) \in [Route -> Nat]
    <2> HIDE DEF now
    <2> QED  BY <1>1, <1>5
  <1>7. ASSUME NEW r \in Route, \A c \in page : c.id # r PROVE Applied(page)[r] = local[r]
    BY <1>2, <1>7
  <1>8. ASSUME NEW r \in Route, r \in unsent, local[r] = NoId PROVE Applied(page)[r] = NoId
    BY <1>2, <1>8
  <1>9. ASSUME NEW r \in Route, NEW w \in Nat, \E c \in page : c.id = r, \A c \in page : c.id = r => c.v = w, r \notin unsent
        PROVE  Applied(page)[r] = w
    BY <1>2, <1>3, <1>9
  <1> QED  BY <1>6, <1>7, <1>8, <1>9

LEMMA FollowInitInv == RouteFeedInit => FollowInv
  <1> SUFFICES ASSUME RouteFeedInit PROVE FollowInv
    OBVIOUS
  <1> USE DEF RouteFeedInit, NoId, Never
  <1>1. /\ \A r \in Route : routes[r] = NoRow /\ tombstone[r] = Never /\ local[r] = NoId /\ ~Changed(r)
        /\ NoRow \in [at : Int, v : Nat]
    BY DEF Changed, NoRow
  <1>2. NoPull \in Pull /\ cursor \in Cursor /\ ~NoPull.on /\ NoPull.started = -1 /\ NoPull.answer = <<>>
    BY DEF NoPull, Pull, Cursor
  <1>3. FollowTypeOK
    <2>1. routes \in [Route -> [at : Int, v : Nat]]
      BY <1>1
    <2>2. tombstone \in [Route -> Int] /\ local \in [Route -> Nat]
      OBVIOUS
    <2>3. clock \in Nat /\ unsent \subseteq Route /\ pull \in Pull /\ calm \in BOOLEAN /\ followed \in BOOLEAN
      BY <1>2
    <2> QED  BY <1>2, <2>1, <2>2, <2>3 DEF FollowTypeOK, TablesTypeOK
  <1>4. TimesAreTrue /\ PhoneWaits
    BY <1>1 DEF TimesAreTrue, PhoneWaits, IsOpen, NoTx, Party
  <1>5. CursorIsBehind /\ PullIsBehind /\ FollowedIsCalm
    BY <1>1, <1>2 DEF CursorIsBehind, PullIsBehind, FollowedIsCalm
  <1>6. AnswerIsBehind
    <2>1. pull.answer = <<>> /\ \A got \in Page : <<got>> # <<>>
      BY <1>2
    <2> QED  BY <2>1 DEF AnswerIsBehind
  <1> QED  BY <1>3, <1>4, <1>5, <1>6 DEF FollowInv

(* A step of the transactions that commits nothing. *)
LEMMA TxStepKeepsFollow ==
  ASSUME FollowInv, UNCHANGED <<clock, routes, tombstone, local, unsent, cursor, pull, calm, followed>>,
         TimesAreTrue', PhoneWaits'
  PROVE  FollowInv'
  <1> USE DEF FollowInv
  <1>1. FollowTypeOK'
    BY DEF FollowTypeOK, TablesTypeOK
  <1>2. \A r \in Route, from \in Cursor : /\ Changed(r)' = Changed(r) /\ Awaited(r, from)' = Awaited(r, from)
                                          /\ Known(r)' = Known(r) /\ Late(r)' = Late(r)
    BY DEF Changed, Awaited, ChangeAt, Known, Late, After
  <1>3. CursorIsBehind' /\ PullIsBehind' /\ FollowedIsCalm'
    BY <1>2 DEF CursorIsBehind, PullIsBehind, FollowedIsCalm, Awaited, ChangeAt, Changed, Known, Late, After
  <1>4. AnswerIsBehind'
    BY DEF AnswerIsBehind, Changed, Awaited, ChangeAt, Known, Late, After, AppliedKnown, Applied
  <1> QED  BY <1>1, <1>3, <1>4

LEMMA BegunKeepsFollow ==
  ASSUME FeedInv, FollowInv, NEW s \in Party, NEW r \in Route, NEW todo \in {SaveRoute, DeleteRoute}, BeginTx(s, r, todo),
         s = ThisPhone => ~pull.on /\ r \in unsent /\ todo = DeleteRoute
  PROVE  FollowInv'
  <1> DEFINE new == [todo |-> todo, route |-> r, at |-> clock, v |-> IF todo = SaveRoute THEN writes + 1 ELSE NoId,
                     holds |-> FALSE, clears |-> FALSE]
  <1> USE DEF FollowInv
  <1>1. /\ tx' = [tx EXCEPT ![s] = new] /\ UNCHANGED <<clock, routes, tombstone, local, unsent, cursor, pull, calm, followed>>
        /\ ThisPhone \in Party
    BY DEF BeginTx, phoneVars, Party
  <1>2. tx'[s] = new /\ \A o \in Party : o # s => tx'[o] = tx[o]
    BY <1>1 DEF FeedInv, TxAreOrderly
  <1>3. new.at = clock /\ new.route = r /\ (todo = DeleteRoute => new.v = NoId)
    BY DEF SaveRoute, DeleteRoute
  <1> HIDE DEF new
  <1>4. clock \in Nat /\ Longest \in Nat
    BY RouteFeedAssumption DEF FollowTypeOK
  <1>5. TimesAreTrue'
    BY <1>1, <1>2, <1>3, <1>4 DEF TimesAreTrue, IsOpen, Changed, ChangeAt
  <1>6. PhoneWaits'
    BY <1>1, <1>2, <1>3 DEF PhoneWaits, IsOpen, Changed
  <1> QED  BY <1>1, <1>5, <1>6, TxStepKeepsFollow

LEMMA StatementsKeepFollow ==
  ASSUME FeedInv, FollowInv, NEW s \in Party, Statements(s)
  PROVE  FollowInv'
  <1> DEFINE t == tx[s]
  <1> USE DEF FollowInv
  <1>1. /\ UNCHANGED <<clock, routes, tombstone, local, unsent, cursor, pull, calm, followed>>
        /\ IsOpen(s) /\ ThisPhone \in Party
    BY DEF Statements, phoneVars, Party
  <1>2. PICK holds, clears : Advance(s, holds, clears)
    BY DEF Statements
  <1>3. tx' = [tx EXCEPT ![s] = [t EXCEPT !.todo = Tail(t.todo), !.holds = holds, !.clears = clears]]
    BY <1>2 DEF Advance
  <1>4. /\ tx'[s].at = t.at /\ tx'[s].route = t.route /\ tx'[s].v = t.v
        /\ \A o \in Party : o # s => tx'[o] = tx[o]
    BY <1>3 DEF FeedInv, TxAreOrderly, Transaction
  <1>5. TimesAreTrue'
    BY <1>1, <1>4 DEF TimesAreTrue, IsOpen, Changed, ChangeAt
  <1>6. PhoneWaits'
    BY <1>1, <1>4 DEF PhoneWaits, IsOpen, Changed
  <1> QED  BY <1>1, <1>5, <1>6, TxStepKeepsFollow

(* With no pull under way, what was sent is known. *)
LEMMA SentKeepsFollow ==
  ASSUME FollowInv, NEW q \in Route, routes[q].v = NoId, local[q] = NoId, unsent' = unsent \ {q}, ~pull.on,
         UNCHANGED <<clock, routes, tombstone, local, cursor, pull, calm, followed>>, TimesAreTrue', PhoneWaits'
  PROVE  FollowInv'
  <1> USE DEF FollowInv
  <1>1. FollowTypeOK'
    BY DEF FollowTypeOK, TablesTypeOK
  <1>2. \A r \in Route : Known(r) => Known(r)'
    BY DEF Known
  <1>3. CursorIsBehind' /\ FollowedIsCalm'
    BY <1>2 DEF CursorIsBehind, FollowedIsCalm, Awaited, ChangeAt, Changed, After
  <1>4. PullIsBehind'
    BY DEF PullIsBehind
  <1>5. AnswerIsBehind'
    <2>1. pull.answer = <<>> /\ \A got \in Page : <<got>> # <<>>
      BY DEF PullIsBehind, NoPull
    <2> QED  BY <2>1 DEF AnswerIsBehind
  <1> QED  BY <1>1, <1>3, <1>4, <1>5

LEMMA NotFoundKeepsFollow ==
  ASSUME FeedInv, FollowInv, NEW s \in Party, NotFound(s)
  PROVE  FollowInv'
  <1> USE DEF FollowInv
  <1> DEFINE q == tx[s].route
  <1>1. /\ UNCHANGED <<clock, routes, tombstone, local, cursor, pull, calm, followed>>
        /\ IsOpen(s) /\ ThisPhone \in Party /\ tx' = [tx EXCEPT ![s] = NoTx]
        /\ unsent' = IF s = ThisPhone THEN unsent \ {q} ELSE unsent
        /\ routes[q] = NoRow
    BY DEF NotFound, Party
  <1>2. ~IsOpen(s)' /\ \A o \in Party : o # s => tx'[o] = tx[o]
    BY <1>1 DEF FeedInv, TxAreOrderly, NoTx, IsOpen
  <1>3. TimesAreTrue'
    BY <1>1, <1>2 DEF TimesAreTrue, IsOpen, Changed, ChangeAt
  <1>4. PhoneWaits'
    BY <1>1, <1>2 DEF PhoneWaits, IsOpen, Changed
  <1>5. CASE s = ThisPhone
    <2>1. q \in unsent /\ q \in Route /\ ~pull.on /\ local[q] = NoId
      BY <1>1, <1>5 DEF PhoneWaits, FollowTypeOK
    <2>2. routes[q].v = NoId
      BY <1>1 DEF NoRow
    <2> HIDE DEF q
    <2> QED  BY <1>1, <1>3, <1>4, <1>5, <2>1, <2>2, SentKeepsFollow
  <1>6. CASE s # ThisPhone
    BY <1>1, <1>3, <1>4, <1>6, TxStepKeepsFollow
  <1> QED  BY <1>5, <1>6

(* A commit changes one route, as of a time no older than the longest      *)
(* transaction: after every cursor, and late for a pull under way.         *)
LEMMA CommitKeepsFollow ==
  ASSUME FeedInv, FollowInv, NEW s \in Party, CommitTx(s)
  PROVE  FollowInv'
  <1> USE DEF FollowInv
  <1>0. PICK t, q : t = tx[s] /\ q = t.route
    OBVIOUS
  <1>1. /\ UNCHANGED <<clock, local, cursor, pull>> /\ calm' = FALSE /\ followed' = FALSE
        /\ IsOpen(s) /\ ThisPhone \in Party /\ tx' = [tx EXCEPT ![s] = NoTx]
        /\ unsent' = IF s = ThisPhone THEN unsent \ {q} ELSE unsent
        /\ routes' = [routes EXCEPT ![q] = IF t.v = NoId THEN NoRow ELSE [at |-> t.at, v |-> t.v]]
        /\ tombstone' = [tombstone EXCEPT ![q] = IF t.v = NoId THEN t.at ELSE IF t.clears THEN Never ELSE tombstone[q]]
    BY <1>0 DEF CommitTx, Party
  <1>2. /\ t.at \in Nat /\ t.v \in Nat /\ q \in Route /\ t.at <= clock /\ clock <= t.at + Longest
        /\ Longest \in Nat /\ Overlap \in Nat /\ Longest <= Overlap /\ clock \in Nat
    BY <1>0, <1>1, RouteFeedAssumption
       DEF TimesAreTrue, FollowTypeOK, FeedInv, TxAreOrderly, Orderly, Transaction, IsOpen
  <1>3. ~IsOpen(s)' /\ \A o \in Party : o # s => tx'[o] = tx[o]
    BY <1>1 DEF FeedInv, TxAreOrderly, NoTx, IsOpen
  <1>4. /\ \A r \in Route : r # q => routes'[r] = routes[r] /\ tombstone'[r] = tombstone[r]
        /\ routes'[q] = IF t.v = NoId THEN NoRow ELSE [at |-> t.at, v |-> t.v]
        /\ t.v = NoId => tombstone'[q] = t.at
    BY <1>1, <1>2 DEF FollowTypeOK, TablesTypeOK
  <1>5. Changed(q)' /\ ChangeAt(q)' = t.at
    <2>1. CASE t.v = NoId
      BY <1>2, <1>4, <2>1 DEF Changed, ChangeAt, Never
    <2>2. CASE t.v # NoId
      <3>1. routes'[q] # NoRow /\ routes'[q].at = t.at
        BY <1>4, <2>2 DEF NoRow
      <3> QED  BY <3>1 DEF Changed, ChangeAt
    <2> QED  BY <2>1, <2>2
  <1>6. \A r \in Route : r # q => /\ Changed(r)' = Changed(r) /\ ChangeAt(r)' = ChangeAt(r)
                                  /\ Known(r)' = Known(r) /\ routes'[r].v = routes[r].v
    BY <1>1, <1>4 DEF Changed, ChangeAt, Known
  <1>7. FollowTypeOK'
    <2>1. (IF t.v = NoId THEN NoRow ELSE [at |-> t.at, v |-> t.v]) \in [at : Int, v : Nat]
      BY <1>2 DEF NoRow, Never, NoId
    <2>2. (IF t.v = NoId THEN t.at ELSE IF t.clears THEN Never ELSE tombstone[q]) \in Int
      BY <1>2 DEF FollowTypeOK, TablesTypeOK, Never
    <2>3. TablesTypeOK'
      BY <1>1, <2>1, <2>2 DEF FollowTypeOK, TablesTypeOK
    <2> QED  BY <1>1, <2>3 DEF FollowTypeOK
  <1>8. TimesAreTrue'
    BY <1>1, <1>2, <1>3, <1>5, <1>6 DEF TimesAreTrue, IsOpen
  <1>9. PhoneWaits'
    BY <1>1, <1>3, <1>5, <1>6 DEF PhoneWaits, IsOpen
  <1>10. Awaited(q, cursor)'
    <2>1. cursor.since \in Int /\ cursor.after = 0 /\ (cursor.since # -1 => cursor.since <= clock - Overlap) /\ q > 0
      BY <1>2 DEF CursorIsBehind, FollowTypeOK, Cursor, NoId, Never, Route
    <2>2. t.at > cursor.since \/ t.at = cursor.since
      BY <1>2, <2>1
    <2>3. After(t.at, q, cursor)
      BY <2>1, <2>2 DEF After
    <2> QED  BY <1>1, <1>5, <2>3 DEF Awaited
  <1>11. CursorIsBehind'
    BY <1>1, <1>6, <1>10 DEF CursorIsBehind, Awaited
  <1>12. pull.on => s # ThisPhone /\ unsent' = unsent
    BY <1>0, <1>1, <1>2 DEF PhoneWaits
  <1>13. pull.started <= clock => Late(q)'
    <2>1. pull.started \in Int
      BY DEF FollowTypeOK, Pull
    <2> QED  BY <1>1, <1>2, <1>5, <2>1 DEF Late
  <1>14. \A r \in Route : r # q /\ ~Late(r)' => ~Late(r)
    BY <1>1, <1>6 DEF Late
  <1>15. PullIsBehind'
    BY <1>1, <1>6, <1>13, <1>14 DEF PullIsBehind, Awaited, After
  <1>16. AnswerIsBehind'
    <2> SUFFICES ASSUME NEW got \in Page, pull.answer = <<got>>
                 PROVE  /\ \A c \in got.page : /\ After(c.at, c.id, pull.from)
                                               /\ Changed(c.id)' /\ Awaited(c.id, cursor)'
                        /\ got.hasMore => LastOf(got.page) \in got.page
                        /\ \A r \in Route :
                             Changed(r)' /\ ~Late(r)' /\ (got.hasMore => ~Awaited(r, NextOf(got.page))')
                               => AppliedKnown(got.page, r)'
      BY <1>1 DEF AnswerIsBehind, After
    <2>1. pull.on /\ pull.started <= clock
      <3>1. NoPull.answer = <<>> /\ <<got>> # <<>>
        BY DEF NoPull
      <3> QED  BY <3>1 DEF PullIsBehind
    <2>2. \A c \in got.page : c.id \in Route
      BY DEF Page, FeedRow
    <2>3. /\ \A c \in got.page : /\ After(c.at, c.id, pull.from)
                                 /\ Changed(c.id) /\ Awaited(c.id, cursor)
          /\ got.hasMore => LastOf(got.page) \in got.page
          /\ \A r \in Route : Changed(r) /\ ~Late(r) /\ (got.hasMore => ~Awaited(r, NextOf(got.page)))
                                => AppliedKnown(got.page, r)
      BY DEF AnswerIsBehind
    <2>4. \A r \in Route : r # q => Awaited(r, cursor)' = Awaited(r, cursor)
      BY <1>1, <1>6 DEF Awaited, After
    <2>5. \A r \in Route : r # q => Awaited(r, NextOf(got.page))' = Awaited(r, NextOf(got.page))
      BY <1>1, <1>6 DEF Awaited, After, NextOf, LastOf, InFeedOrder
    <2>6. \A r \in Route : r # q => AppliedKnown(got.page, r)' = AppliedKnown(got.page, r)
      BY <1>1, <1>6, <1>12, <2>1 DEF AppliedKnown, Applied
    <2>7. ASSUME NEW c \in got.page PROVE After(c.at, c.id, pull.from) /\ Changed(c.id)' /\ Awaited(c.id, cursor)'
      BY <1>5, <1>6, <1>10, <2>2, <2>3, <2>4
    <2>8. ASSUME NEW r \in Route, Changed(r)', ~Late(r)', got.hasMore => ~Awaited(r, NextOf(got.page))'
          PROVE  AppliedKnown(got.page, r)'
      <3>1. r # q /\ Changed(r) /\ ~Late(r)
        BY <1>6, <1>13, <1>14, <2>1, <2>8
      <3>2. AppliedKnown(got.page, r)
        BY <2>3, <2>5, <2>8, <3>1
      <3> QED  BY <2>6, <3>1, <3>2
    <2> QED  BY <2>3, <2>7, <2>8
  <1>17. FollowedIsCalm'
    BY <1>1 DEF FollowedIsCalm
  <1> QED  BY <1>7, <1>8, <1>9, <1>11, <1>15, <1>16, <1>17

LEMMA TickKeepsFollow ==
  ASSUME FollowInv, Tick
  PROVE  FollowInv'
  <1> USE DEF FollowInv
  <1>1. /\ UNCHANGED <<routes, tombstone, tx, local, unsent, cursor, pull, calm, followed>> /\ clock' = clock + 1
        /\ \A s \in Party : IsOpen(s) => clock + 1 <= tx[s].at + Longest
        /\ clock \in Nat
    BY DEF Tick, serverVars, phoneVars, FollowTypeOK
  <1>2. FollowTypeOK'
    BY <1>1 DEF FollowTypeOK, TablesTypeOK
  <1>3. TimesAreTrue'
    BY <1>1 DEF TimesAreTrue, IsOpen, Changed, ChangeAt
  <1>4. PhoneWaits'
    BY <1>1 DEF PhoneWaits, IsOpen, Changed
  <1>5. CursorIsBehind' /\ FollowedIsCalm'
    <2>1. cursor.since \in Int /\ Overlap \in Nat
      BY RouteFeedAssumption DEF FollowTypeOK, Cursor
    <2> QED  BY <1>1, <2>1 DEF CursorIsBehind, FollowedIsCalm, Awaited, ChangeAt, Changed, After, Known
  <1>6. PullIsBehind'
    <2>1. pull.started \in Int
      BY DEF FollowTypeOK, Pull
    <2> QED  BY <1>1, <2>1 DEF PullIsBehind, Awaited, ChangeAt, Changed, After, Known, Late
  <1>7. AnswerIsBehind'
    BY <1>1 DEF AnswerIsBehind, Changed, Awaited, ChangeAt, Late, After, AppliedKnown, Applied
  <1> QED  BY <1>2, <1>3, <1>4, <1>5, <1>6, <1>7

(* A route deleted on the phone is known from then on, whatever its row. *)
LEMMA DeleteLocallyKeepsFollow ==
  ASSUME FollowInv, NEW q \in Route, DeleteLocally(q)
  PROVE  FollowInv'
  <1> USE DEF FollowInv
  <1>1. /\ UNCHANGED <<clock, routes, tombstone, tx, cursor, pull>> /\ calm' = FALSE /\ followed' = FALSE
        /\ local' = [local EXCEPT ![q] = NoId] /\ unsent' = unsent \cup {q}
    BY DEF DeleteLocally, serverVars
  <1>2. \A r \in Route : local'[r] = IF r = q THEN NoId ELSE local[r]
    BY <1>1 DEF FollowTypeOK
  <1>3. FollowTypeOK'
    BY <1>1 DEF FollowTypeOK, TablesTypeOK, NoId
  <1>4. TimesAreTrue'
    BY <1>1 DEF TimesAreTrue, IsOpen, Changed, ChangeAt
  <1>5. PhoneWaits'
    BY <1>1, <1>2 DEF PhoneWaits, IsOpen, Changed
  <1>6. \A r \in Route : /\ Known(r) => Known(r)'
                         /\ Changed(r)' = Changed(r) /\ ChangeAt(r)' = ChangeAt(r)
                         /\ ~Late(r)' => ~Late(r)
    BY <1>1, <1>2 DEF Known, Changed, ChangeAt, Late
  <1>7. CursorIsBehind' /\ PullIsBehind' /\ FollowedIsCalm'
    BY <1>1, <1>6 DEF CursorIsBehind, PullIsBehind, FollowedIsCalm, Awaited, After
  <1>8. ASSUME NEW got \in Page, NEW r \in Route, AppliedKnown(got.page, r) PROVE AppliedKnown(got.page, r)'
    <2>1. CASE r = q \/ r \in unsent
      BY <1>1, <2>1 DEF AppliedKnown
    <2>2. CASE r # q /\ r \notin unsent
      <3>1. Applied(got.page)'[r] = Applied(got.page)[r]
        BY <1>1, <1>2, <2>2 DEF Applied
      <3> QED  BY <1>1, <1>8, <2>2, <3>1 DEF AppliedKnown
    <2> QED  BY <2>1, <2>2
  <1>9. AnswerIsBehind'
    <2> SUFFICES ASSUME NEW got \in Page, pull.answer = <<got>>
                 PROVE  /\ \A c \in got.page : After(c.at, c.id, pull.from) /\ Changed(c.id)' /\ Awaited(c.id, cursor)'
                        /\ got.hasMore => LastOf(got.page) \in got.page
                        /\ \A r \in Route :
                             Changed(r)' /\ ~Late(r)' /\ (got.hasMore => ~Awaited(r, NextOf(got.page))')
                               => AppliedKnown(got.page, r)'
      BY <1>1 DEF AnswerIsBehind, After
    <2>1. \A r \in Route : Awaited(r, cursor)' = Awaited(r, cursor)
                           /\ Awaited(r, NextOf(got.page))' = Awaited(r, NextOf(got.page))
      BY <1>1, <1>6 DEF Awaited, After, NextOf, LastOf, InFeedOrder
    <2>2. \A c \in got.page : c.id \in Route
      BY DEF Page, FeedRow
    <2>3. ASSUME NEW c \in got.page PROVE After(c.at, c.id, pull.from) /\ Changed(c.id)' /\ Awaited(c.id, cursor)'
      BY <1>6, <2>1, <2>2 DEF AnswerIsBehind
    <2>4. ASSUME NEW r \in Route, Changed(r)', ~Late(r)', got.hasMore => ~Awaited(r, NextOf(got.page))'
          PROVE  AppliedKnown(got.page, r)'
      <3>1. AppliedKnown(got.page, r)
        BY <1>6, <2>1, <2>4 DEF AnswerIsBehind
      <3> QED  BY <1>8, <3>1
    <2>5. got.hasMore => LastOf(got.page) \in got.page
      BY DEF AnswerIsBehind
    <2> QED  BY <2>3, <2>4, <2>5
  <1> QED  BY <1>3, <1>4, <1>5, <1>7, <1>9

LEMMA NoAnswer == NoPull.answer = <<>> /\ ~NoPull.on /\ NoPull.started = Never /\ \A got \in Page : <<got>> # <<>>
  BY DEF NoPull

LEMMA StartPullKeepsFollow ==
  ASSUME FollowInv, StartPull
  PROVE  FollowInv'
  <1> USE DEF FollowInv
  <1> DEFINE new == [NoPull EXCEPT !.on = TRUE, !.from = cursor]
  <1>1. /\ UNCHANGED <<clock, routes, tombstone, tx, local, unsent, cursor, followed>> /\ calm' = TRUE
        /\ pull' = new /\ ~IsOpen(ThisPhone)
    BY DEF StartPull, serverVars
  <1>2. /\ new.on /\ new.from = cursor /\ new.started = Never /\ new.answer = <<>> /\ new \in Pull
    <2>1. NoPull \in Pull /\ cursor \in Cursor
      BY DEF NoPull, Pull, Cursor, FollowTypeOK, Never, NoId
    <2>2. \A p \in Pull : LET n == [p EXCEPT !.on = TRUE, !.from = cursor] IN
            n \in Pull /\ n.on /\ n.from = cursor /\ n.started = p.started /\ n.answer = p.answer
      BY <2>1 DEF Pull
    <2> QED  BY <2>1, <2>2, NoAnswer
  <1> HIDE DEF new
  <1>3. FollowTypeOK'
    BY <1>1, <1>2 DEF FollowTypeOK, TablesTypeOK
  <1>4. TimesAreTrue'
    BY <1>1 DEF TimesAreTrue, IsOpen, Changed, ChangeAt
  <1>5. PhoneWaits'
    BY <1>1 DEF PhoneWaits, IsOpen, Changed
  <1>6. CursorIsBehind' /\ FollowedIsCalm'
    BY <1>1 DEF CursorIsBehind, FollowedIsCalm, Awaited, ChangeAt, Changed, After, Known
  <1>7. PullIsBehind'
    BY <1>1, <1>2 DEF PullIsBehind, Never, FollowTypeOK, After
  <1>8. AnswerIsBehind'
    BY <1>1, <1>2, NoAnswer DEF AnswerIsBehind
  <1> QED  BY <1>3, <1>4, <1>5, <1>6, <1>7, <1>8

LEMMA PullFailsKeepsFollow ==
  ASSUME FollowInv, PullFails
  PROVE  FollowInv'
  <1> USE DEF FollowInv
  <1>1. UNCHANGED <<clock, routes, tombstone, tx, local, unsent, cursor, calm, followed>> /\ pull' = NoPull
    BY DEF PullFails, serverVars
  <1>2. FollowTypeOK'
    BY <1>1 DEF FollowTypeOK, TablesTypeOK, NoPull, Pull, Cursor, Never, NoId
  <1>3. TimesAreTrue'
    BY <1>1 DEF TimesAreTrue, IsOpen, Changed, ChangeAt
  <1>4. PhoneWaits'
    BY <1>1, NoAnswer DEF PhoneWaits, IsOpen, Changed
  <1>5. CursorIsBehind' /\ FollowedIsCalm'
    BY <1>1 DEF CursorIsBehind, FollowedIsCalm, Awaited, ChangeAt, Changed, After, Known
  <1>6. PullIsBehind' /\ AnswerIsBehind'
    BY <1>1, NoAnswer DEF PullIsBehind, AnswerIsBehind, Never, FollowTypeOK
  <1> QED  BY <1>2, <1>3, <1>4, <1>5, <1>6

LEMMA AnswerKeepsFollow ==
  ASSUME FeedInv, FollowInv, Answer
  PROVE  FollowInv'
  <1> USE DEF FollowInv
  <1>0. PICK got : got = changes(pull.from)
    OBVIOUS
  <1>1. /\ UNCHANGED <<clock, routes, tombstone, tx, local, unsent, cursor, calm, followed>> /\ pull.on
        /\ pull' = [pull EXCEPT !.answer = <<got>>, !.started = IF pull.started = Never THEN clock ELSE pull.started,
                                !.pages = pull.pages + 1]
    BY <1>0 DEF Answer, serverVars
  <1>2. /\ pull \in Pull /\ pull.from \in Cursor /\ pull.started \in Int /\ clock \in Nat /\ TablesTypeOK
        /\ NeverInBothTables
    BY DEF FollowTypeOK, Pull, FeedInv
  <1>3. /\ got \in Page
        /\ \A c \in got.page : Changed(c.id) /\ Awaited(c.id, pull.from) /\ c = RowOf(c.id)
        /\ got.hasMore => LastOf(got.page) \in got.page
        /\ \A r \in Route : Changed(r) /\ Awaited(r, pull.from) /\ (got.hasMore => ~Awaited(r, NextOf(got.page)))
                               => RowOf(r) \in got.page
    BY <1>0, <1>2, PageIsTheFeed
  <1>4. /\ pull' \in Pull /\ pull'.on /\ pull'.from = pull.from /\ pull'.answer = <<got>>
        /\ pull'.started = IF pull.started = Never THEN clock ELSE pull.started
    <2> DEFINE started == IF pull.started = Never THEN clock ELSE pull.started
    <2>1. started \in Int /\ <<got>> \in {<<a>> : a \in Page} /\ pull.pages + 1 \in Nat
      BY <1>2, <1>3 DEF Pull
    <2> HIDE DEF started
    <2>2. pull' = [pull EXCEPT !.answer = <<got>>, !.started = started, !.pages = pull.pages + 1]
      BY <1>1 DEF started
    <2>3. pull' \in Pull /\ pull'.on /\ pull'.from = pull.from /\ pull'.answer = <<got>> /\ pull'.started = started
      BY <1>1, <1>2, <2>1, <2>2 DEF Pull
    <2> QED  BY <2>3 DEF started
  <1>5. pull'.started # Never /\ pull'.started <= clock
    BY <1>2, <1>4 DEF PullIsBehind, Never
  <1>6. FollowTypeOK'
    BY <1>1, <1>4 DEF FollowTypeOK, TablesTypeOK
  <1>7. TimesAreTrue'
    BY <1>1 DEF TimesAreTrue, IsOpen, Changed, ChangeAt
  <1>8. PhoneWaits'
    BY <1>1, <1>4 DEF PhoneWaits, IsOpen, Changed
  <1>9. CursorIsBehind' /\ FollowedIsCalm'
    BY <1>1 DEF CursorIsBehind, FollowedIsCalm, Awaited, ChangeAt, Changed, After, Known
  <1>10. \A r \in Route : Changed(r) /\ ~Awaited(r, pull.from) /\ ~Late(r)' => Known(r)
    <2>1. CASE pull.started = Never
      BY <1>1, <2>1 DEF PullIsBehind, CursorIsBehind
    <2>2. CASE pull.started # Never
      BY <1>1, <1>4, <2>2 DEF PullIsBehind, Late, ChangeAt
    <2> QED  BY <2>1, <2>2
  <1>11. PullIsBehind'
    <2>1. \A at \in Int, r \in Route : After(at, r, pull.from) => After(at, r, cursor)
      BY <1>1 DEF PullIsBehind
    <2> QED  BY <1>1, <1>4, <1>5, <1>10, <2>1 DEF PullIsBehind, Awaited, ChangeAt, Changed, After, Known
  <1>12. \A c \in got.page : /\ c \in FeedRow /\ c.id \in Route /\ c.at \in Int
                             /\ c.at = ChangeAt(c.id) /\ c.v = routes[c.id].v
    BY <1>3 DEF Page, FeedRow, RowOf
  <1>13. ASSUME NEW c \in got.page
         PROVE  After(c.at, c.id, pull.from) /\ Changed(c.id) /\ Awaited(c.id, cursor) /\ c.v = routes[c.id].v
    <2>1. After(c.at, c.id, pull.from)
      BY <1>3, <1>12 DEF Awaited
    <2>2. After(c.at, c.id, cursor)
      BY <1>1, <1>12, <2>1 DEF PullIsBehind
    <2> QED  BY <1>3, <1>12, <2>1, <2>2 DEF Awaited
  <1>14. ASSUME NEW r \in Route, Changed(r), ~Late(r)', got.hasMore => ~Awaited(r, NextOf(got.page))
         PROVE  AppliedKnown(got.page, r)
    <2>1. got.page \in SUBSET FeedRow /\ routes[r].v \in Nat
      BY <1>2, <1>3 DEF Page, TablesTypeOK
    <2>2. CASE Awaited(r, pull.from)
      <3>1. RowOf(r) \in got.page /\ RowOf(r).id = r
        BY <1>3, <1>14, <2>2 DEF RowOf
      <3>2. \A c \in got.page : c.id = r => c.v = routes[r].v
        BY <1>12
      <3> QED  BY <2>1, <3>1, <3>2, AppliedIs DEF AppliedKnown
    <2>3. CASE ~Awaited(r, pull.from)
      <3>1. Applied(got.page)[r] = local[r]
        BY <1>3, <2>1, <2>3, AppliedIs
      <3>2. Known(r)
        BY <1>10, <1>14, <2>3
      <3> QED  BY <3>1, <3>2 DEF AppliedKnown, Known
    <2> QED  BY <2>2, <2>3
  <1>15. AnswerIsBehind'
    <2> SUFFICES ASSUME NEW other \in Page, pull'.answer = <<other>>
                 PROVE  /\ \A c \in other.page : /\ After(c.at, c.id, pull.from)
                                                 /\ Changed(c.id) /\ Awaited(c.id, cursor)
                                                 /\ c.v = routes[c.id].v
                        /\ other.hasMore => LastOf(other.page) \in other.page
                        /\ \A r \in Route :
                             Changed(r) /\ ~Late(r)' /\ (other.hasMore => ~Awaited(r, NextOf(other.page)))
                               => AppliedKnown(other.page, r)
      BY <1>1, <1>4 DEF AnswerIsBehind, After, Awaited, ChangeAt, Changed, AppliedKnown, Applied
    <2>1. other = got
      BY <1>4
    <2> QED  BY <1>3, <1>13, <1>14, <2>1
  <1> QED  BY <1>6, <1>7, <1>8, <1>9, <1>11, <1>15

(* A pull comes to its last page before it has asked for _maxPullPages. *)
PullsFit == pull.answer # <<>> /\ pull.answer[1].hasMore => pull.pages < MaxPages

LEMMA ApplyKeepsFollow ==
  ASSUME FollowInv, PullsFit, Apply
  PROVE  FollowInv'
  <1> USE DEF FollowInv
  <1>0. PICK got \in Page : pull.answer = <<got>>
    BY DEF Apply, FollowTypeOK, Pull
  <1> DEFINE next == NextOf(got.page)
  <1>1. /\ UNCHANGED <<clock, routes, tombstone, tx, unsent, calm>> /\ local' = Applied(got.page)
        /\ pull.answer[1] = got
    BY <1>0 DEF Apply, serverVars
  <1>2. \/ /\ ~got.hasMore /\ cursor' = NextPull(pull.started) /\ pull' = NoPull /\ followed' = calm
        \/ /\ got.hasMore /\ pull' = [pull EXCEPT !.from = next, !.answer = <<>>] /\ UNCHANGED <<cursor, followed>>
    <2>1. pull.pages \in Nat /\ MaxPages \in Nat
      BY RouteFeedAssumption DEF FollowTypeOK, Pull
    <2>2. got.hasMore => pull.pages < MaxPages
      BY <1>0, <1>1, NoAnswer DEF PullsFit
    <2> QED  BY <1>1, <2>1, <2>2 DEF Apply, NextOf
  <1>3. /\ pull \in Pull /\ pull.started \in Int /\ clock \in Nat /\ cursor \in Cursor /\ pull.from \in Cursor
        /\ got.page \in SUBSET FeedRow /\ got.hasMore \in BOOLEAN /\ Overlap \in Nat
    BY RouteFeedAssumption DEF FollowTypeOK, Pull, Page
  <1>4. pull.on /\ pull.started # Never /\ pull.started <= clock
    BY <1>0, NoAnswer DEF PullIsBehind
  <1>5. /\ \A c \in got.page : /\ c \in FeedRow /\ After(c.at, c.id, pull.from)
                               /\ Changed(c.id) /\ Awaited(c.id, cursor)
                               /\ calm => c.v = routes[c.id].v
        /\ got.hasMore => LastOf(got.page) \in got.page
        /\ \A r \in Route : Changed(r) /\ ~Late(r) /\ (got.hasMore => ~Awaited(r, next))
                              => AppliedKnown(got.page, r)
    BY <1>0, <1>3 DEF AnswerIsBehind
  <1> HIDE DEF next
  <1>6. /\ local' \in [Route -> Nat]
        /\ \A r \in Route : ~Changed(r) => local'[r] = NoId
        /\ \A r \in Route : r \in unsent => local'[r] = NoId
        /\ \A r \in Route : ~Awaited(r, cursor) => local'[r] = local[r]
    BY <1>1, <1>3, <1>5, AppliedIs DEF PhoneWaits
  <1>7. \A r \in Route : Known(r)' <=> AppliedKnown(got.page, r)
    BY <1>1 DEF Known, AppliedKnown
  <1>8. \A r \in Route : Changed(r)' = Changed(r) /\ ChangeAt(r)' = ChangeAt(r)
    BY <1>1 DEF Changed, ChangeAt
  <1>9. \A r \in Route : ~Changed(r) => Known(r)'
    BY <1>1, <1>6 DEF Known, Changed, NoRow
  <1>10. TimesAreTrue'
    BY <1>1, <1>8 DEF TimesAreTrue, IsOpen
  <1>11. CASE ~got.hasMore
    <2>1. /\ cursor' = [since |-> pull.started - Overlap, after |-> NoId] /\ pull' = NoPull /\ followed' = calm
      BY <1>2, <1>11 DEF NextPull
    <2>2. FollowTypeOK'
      <3>1. cursor' \in Cursor /\ NoPull \in Pull
        BY <1>3, <2>1 DEF Cursor, NoId, NoPull, Pull, Never
      <3> QED  BY <1>1, <1>6, <2>1, <3>1 DEF FollowTypeOK, TablesTypeOK
    <2>3. PhoneWaits'
      BY <1>1, <1>4, <1>6, <1>8 DEF PhoneWaits, IsOpen
    <2>4. \A r \in Route : Changed(r) /\ (calm \/ ~Awaited(r, cursor)') => Known(r)'
      <3> SUFFICES ASSUME NEW r \in Route, Changed(r), ~calm => ~Awaited(r, cursor)' PROVE Known(r)'
        OBVIOUS
      <3>1. ChangeAt(r) \in Int /\ r > 0 /\ r \in Nat
        BY DEF TimesAreTrue, Route
      <3>2. ~calm => ChangeAt(r) < pull.started - Overlap
        BY <1>3, <1>8, <2>1, <3>1 DEF Awaited, After, NoId
      <3>3. ~Late(r)
        BY <1>3, <3>1, <3>2 DEF Late
      <3> QED  BY <1>5, <1>7, <1>11, <3>3
    <2>5. CursorIsBehind'
      BY <1>1, <1>3, <1>4, <1>8, <2>1, <2>4 DEF CursorIsBehind
    <2>6. FollowedIsCalm'
      BY <1>1, <1>9, <2>1, <2>4 DEF FollowedIsCalm
    <2>7. PullIsBehind' /\ AnswerIsBehind'
      BY <1>1, <1>3, <2>1, NoAnswer DEF PullIsBehind, AnswerIsBehind, Never
    <2> QED  BY <1>10, <2>2, <2>3, <2>5, <2>6, <2>7
  <1>12. CASE got.hasMore
    <2>1. pull' = [pull EXCEPT !.from = next, !.answer = <<>>] /\ UNCHANGED <<cursor, followed>>
      BY <1>2, <1>12
    <2>2. LastOf(got.page) \in FeedRow /\ next = [since |-> LastOf(got.page).at, after |-> LastOf(got.page).id]
          /\ next \in Cursor /\ After(next.since, next.after, pull.from)
      <3>1. LastOf(got.page) \in got.page
        BY <1>5, <1>12
      <3>2. next = [since |-> LastOf(got.page).at, after |-> LastOf(got.page).id]
        BY DEF next, NextOf
      <3> QED  BY <1>5, <3>1, <3>2 DEF FeedRow, Cursor, Route
    <2>3. pull' \in Pull /\ pull'.on /\ pull'.from = next /\ pull'.answer = <<>> /\ pull'.started = pull.started
      BY <1>3, <1>4, <2>1, <2>2 DEF Pull
    <2>4. FollowTypeOK'
      BY <1>1, <1>6, <2>1, <2>3 DEF FollowTypeOK, TablesTypeOK
    <2>5. PhoneWaits'
      BY <1>1, <1>4, <1>6, <1>8 DEF PhoneWaits, IsOpen
    <2>6. CursorIsBehind'
      BY <1>1, <1>6, <1>8, <2>1 DEF CursorIsBehind, Awaited, After, Known
    <2>7. \A at \in Int, r \in Route : After(at, r, next) => After(at, r, cursor)
      <3> SUFFICES ASSUME NEW at \in Int, NEW r \in Route, After(at, r, next) PROVE After(at, r, cursor)
        OBVIOUS
      <3>1. After(at, r, pull.from)
        BY <1>3, <2>2 DEF After, Cursor, Route
      <3> QED  BY <1>4, <3>1 DEF PullIsBehind
    <2>8. \A r \in Route : Changed(r) /\ ~Awaited(r, next) /\ ~Late(r) => Known(r)'
      BY <1>5, <1>7
    <2>9. PullIsBehind'
      BY <1>1, <1>4, <1>8, <2>1, <2>3, <2>7, <2>8 DEF PullIsBehind, Awaited, After, Late
    <2>10. AnswerIsBehind'
      BY <2>3, NoAnswer DEF AnswerIsBehind
    <2>11. FollowedIsCalm'
      <3> SUFFICES ASSUME followed, NEW r \in Route PROVE calm /\ AppliedKnown(got.page, r)
        BY <1>1, <1>7, <2>1 DEF FollowedIsCalm
      <3>1. calm /\ Known(r) /\ routes[r].v \in Nat
        BY DEF FollowedIsCalm, FollowTypeOK, TablesTypeOK
      <3>2. CASE \A c \in got.page : c.id # r
        BY <1>3, <3>1, <3>2, AppliedIs DEF Known, AppliedKnown
      <3>3. CASE \E c \in got.page : c.id = r
        BY <1>3, <1>5, <3>1, <3>3, AppliedIs DEF AppliedKnown
      <3> QED  BY <3>1, <3>2, <3>3
    <2> QED  BY <1>10, <2>4, <2>5, <2>6, <2>9, <2>10, <2>11
  <1> QED  BY <1>3, <1>11, <1>12

LEMMA FollowNextKeepsInv == FeedInv /\ FollowInv /\ PullsFit /\ [RouteFeedNext]_feedVars => FollowInv'
  <1> SUFFICES ASSUME FeedInv, FollowInv, PullsFit, [RouteFeedNext]_feedVars PROVE FollowInv'
    OBVIOUS
  <1>1. ASSUME NEW s \in Writer, NEW r \in Route, BeginTx(s, r, SaveRoute) \/ BeginTx(s, r, DeleteRoute)
        PROVE  FollowInv'
    BY <1>1, BegunKeepsFollow, RouteFeedAssumption DEF Party
  <1>2. ASSUME NEW s \in Party, Statements(s) \/ NotFound(s) \/ CommitTx(s) PROVE FollowInv'
    BY <1>2, StatementsKeepFollow, NotFoundKeepsFollow, CommitKeepsFollow
  <1>3. ASSUME NEW r \in Route, Push(r) PROVE FollowInv'
    BY <1>3, BegunKeepsFollow DEF Push, Party
  <1>4. ASSUME NEW r \in Route, DeleteLocally(r) PROVE FollowInv'
    BY <1>4, DeleteLocallyKeepsFollow
  <1>5. CASE Tick \/ StartPull \/ Answer \/ Apply \/ PullFails
    BY <1>5, TickKeepsFollow, StartPullKeepsFollow, AnswerKeepsFollow, ApplyKeepsFollow, PullFailsKeepsFollow
  <1>6. CASE UNCHANGED feedVars
    <2>1. UNCHANGED <<clock, routes, tombstone, tx, local, unsent, cursor, pull, calm, followed>>
      BY <1>6 DEF feedVars, serverVars, phoneVars
    <2>2. TimesAreTrue' /\ PhoneWaits'
      BY <2>1 DEF FollowInv, TimesAreTrue, PhoneWaits, IsOpen, Changed, ChangeAt
    <2> QED  BY <2>1, <2>2, TxStepKeepsFollow
  <1> QED  BY <1>1, <1>2, <1>3, <1>4, <1>5, <1>6 DEF RouteFeedNext

(* As long as no pull is cut off before its last page, the phone has the   *)
(* routes of the server whenever nothing changed since a pull that came to *)
(* its end began, with any number of writers, routes and pages: the        *)
(* overlap of the pulls covers every transaction that commits late         *)
(* (SyncService._pull, PrismaRouteRepository.changes).  No page brings     *)
(* back a route whose deletion waits to be sent (applyRemote).             *)
THEOREM FeedAlwaysFollowed == RouteFeedSpec /\ []PullsFit => []FeedIsFollowed
  <1>1. FollowInv => FeedIsFollowed
    <2> SUFFICES ASSUME FollowInv PROVE FeedIsFollowed
      OBVIOUS
    <2>1. DeletionsStay
      BY DEF FollowInv, FollowTypeOK, PhoneWaits, DeletionsStay
    <2> QED  BY <2>1 DEF FollowInv, FollowedIsCalm, Known, FeedIsFollowed
  <1> QED  BY <1>1, FeedInitInv, FeedNextKeepsInv, FollowInitInv, FollowNextKeepsInv, PTL DEF RouteFeedSpec
===============================================================================
