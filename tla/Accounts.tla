------------------------------- MODULE Accounts -------------------------------
(***************************************************************************)
(* Accounts and sessions: AuthService over the refresh_tokens table, and   *)
(* the session of the phone (AuthRepositoryImpl, AuthInterceptor).  Every  *)
(* await is a step.  The database runs one statement at a time against the *)
(* rows committed when it began; an UPDATE waits for a row that another    *)
(* transaction has changed and then sees it as committed (READ COMMITTED). *)
(***************************************************************************)
EXTENDS Integers, FiniteSets

CONSTANTS
  Account,      \* accounts, each with its e-mail
  NoAccount,
  MaxToken      \* bound: refresh tokens that are ever issued

Token == 1..MaxToken
None == 0

(* One request of each kind at a time: the screens of the phone ("enter"), *)
(* its interceptor ("renew"), and a repetition of an earlier refresh that  *)
(* was still on its way ("copy").                                          *)
Slot == {"enter", "renew", "copy"}

ASSUME AccountsAssumption == MaxToken \in Nat /\ NoAccount \notin Account

VARIABLES
  user,       \* accounts registered
  token,      \* refresh_tokens
  req,        \* requests the server is handling, by slot
  session,    \* SessionStore.current of the phone
  disturbed   \* history: accounts whose tokens were presented out of turn

accountVars == <<user, token, req, session, disturbed>>

(* `login' is the token its chain of rotations began with. *)
Row == [owner : Account \cup {NoAccount}, login : Token \cup {None},
        state : {"unused", "live", "revoked"}]
Unused == [owner |-> NoAccount, login |-> None, state |-> "unused"]
Step == {"free", "register", "password", "create", "issue", "find", "claim", "commit", "reuse",
         "revoking", "revoke", "granted", "refused", "revoked"}
Request == [step : Step, owner : Account \cup {NoAccount}, token : Token \cup {None},
            next : Token \cup {None}, seen : SUBSET Token]
Free == [step |-> "free", owner |-> NoAccount, token |-> None, next |-> None, seen |-> {}]
NoSession == [owner |-> NoAccount, token |-> None]

AccountsInit ==
  /\ user = {}
  /\ token = [t \in Token |-> Unused]
  /\ req = [s \in Slot |-> Free]
  /\ session = NoSession
  /\ disturbed = {}

At(s, step) == req[s].step = step
Go(s, step) == req' = [req EXCEPT ![s].step = step]
Live(a) == {t \in Token : token[t].owner = a /\ token[t].state = "live"}
(* A row that a transaction in progress has changed. *)
Locked(t) == \E s \in Slot : At(s, "commit") /\ req[s].token = t
UnusedTokens == {t \in Token : token[t].state = "unused"}
NextToken == CHOOSE t \in UnusedTokens : TRUE
Server == <<user, token>>
Phone == <<session, disturbed>>

-----------------------------------------------------------------------------
(* AuthService.  register: the e-mail is looked up, and unique.            *)

FindEmail(s) ==
  /\ At(s, "register")
  /\ Go(s, IF req[s].owner \in user THEN "refused" ELSE "create")
  /\ UNCHANGED <<Server, Phone>>

CreateUser(s) ==
  /\ At(s, "create")
  /\ user' = user \cup {req[s].owner}
  /\ Go(s, IF req[s].owner \in user THEN "refused" ELSE "issue")
  /\ UNCHANGED <<token, Phone>>

(* login: a wrong password and an unknown e-mail are refused alike. *)
Password(s) ==
  /\ At(s, "password")
  /\ \/ req[s].owner \in user /\ Go(s, "issue")
     \/ Go(s, "refused")
  /\ UNCHANGED <<Server, Phone>>

(* issueTokens *)
Issue(s) ==
  /\ At(s, "issue")
  /\ UnusedTokens # {}
  /\ token' = [token EXCEPT ![NextToken] =
                 [owner |-> req[s].owner, login |-> NextToken, state |-> "live"]]
  /\ req' = [req EXCEPT ![s].step = "granted", ![s].next = NextToken]
  /\ UNCHANGED <<user, Phone>>

(* refresh: a token may also be found expired. *)
FindToken(s) ==
  /\ At(s, "find")
  /\ \/ Go(s, CASE token[req[s].token].state = "live" -> "claim"
                [] token[req[s].token].state = "revoked" -> "reuse"
                [] OTHER -> "refused")
     \/ token[req[s].token].state = "live" /\ Go(s, "refused")
  /\ UNCHANGED <<Server, Phone>>

(* Mutant of Claim: the update has no condition. *)
UnconditionalMutant(s) ==
  /\ At(s, "claim")
  /\ ~Locked(req[s].token)
  /\ Go(s, "commit")
  /\ UNCHANGED <<Server, Phone>>

(* rotate: the conditional update, then the successor and the commit. *)
Claim(s) ==
  /\ At(s, "claim")
  /\ ~Locked(req[s].token)
  /\ Go(s, IF token[req[s].token].state = "live" THEN "commit" ELSE "reuse")
  /\ UNCHANGED <<Server, Phone>>

(* Mutant of Successor: it is stored as it was found by the claim. *)
StaleSuccessorMutant(t) == [owner |-> token[t].owner, login |-> token[t].login, state |-> "revoked"]

Successor(t) == [owner |-> token[t].owner, login |-> token[t].login, state |-> "live"]
Commit(s) ==
  /\ At(s, "commit")
  /\ UnusedTokens # {}
  /\ token' = [token EXCEPT ![req[s].token].state = "revoked",
                            ![NextToken] = Successor(req[s].token)]
  /\ req' = [req EXCEPT ![s].step = "granted", ![s].next = NextToken]
  /\ UNCHANGED <<user, Phone>>

(* reuseDetected: revokeAllForUser, one statement. *)
Reuse(s) ==
  /\ At(s, "reuse")
  /\ req' = [req EXCEPT ![s].step = "revoking", ![s].seen = Live(token[req[s].token].owner)]
  /\ UNCHANGED <<Server, Phone>>

RevokeAll(s) ==
  /\ At(s, "revoking")
  /\ ~\E t \in req[s].seen : Locked(t)
  /\ token' = [t \in Token |-> IF t \in req[s].seen THEN [token[t] EXCEPT !.state = "revoked"]
                               ELSE token[t]]
  /\ req' = [req EXCEPT ![s].step = "revoked", ![s].seen = {}]
  /\ UNCHANGED <<user, Phone>>

(* logout *)
Revoke(s) ==
  /\ At(s, "revoke")
  /\ ~Locked(req[s].token)
  /\ token' = [token EXCEPT ![req[s].token].state = IF @ = "live" THEN "revoked" ELSE @]
  /\ Go(s, "granted")
  /\ UNCHANGED <<user, Phone>>

ServerStep(s) ==
  \/ FindEmail(s) \/ CreateUser(s) \/ Password(s) \/ Issue(s) \/ FindToken(s) \/ Claim(s)
  \/ Commit(s) \/ Reuse(s) \/ RevokeAll(s) \/ Revoke(s)

(* A transaction in progress is rolled back; the phone sees errors. *)
Crash ==
  /\ \E s \in Slot : ~At(s, "free")
  /\ req' = [s \in Slot |-> Free]
  /\ disturbed' = disturbed \cup {req[s].owner : s \in Slot}
  /\ UNCHANGED <<Server, session>>

-----------------------------------------------------------------------------
(* The phone.  `owner' and `token' of a request are those of the session   *)
(* it was made for.                                                        *)

Post(s, step, a, t) ==
  req' = [req EXCEPT ![s] = [step |-> step, owner |-> a, token |-> t, next |-> None, seen |-> {}]]
End(s) == req' = [req EXCEPT ![s] = Free]

Register(a) ==
  /\ At("enter", "free") /\ session = NoSession
  /\ Post("enter", "register", a, None)
  /\ UNCHANGED <<Server, Phone>>
Login(a) ==
  /\ At("enter", "free") /\ session = NoSession
  /\ Post("enter", "password", a, None)
  /\ UNCHANGED <<Server, Phone>>

(* _authenticate: adoptGuestData, then the session is saved. *)
Entered ==
  /\ At("enter", "granted") /\ req["enter"].next # None
  /\ session' = [owner |-> req["enter"].owner, token |-> req["enter"].next]
  /\ End("enter")
  /\ UNCHANGED <<Server, disturbed>>
NotEntered ==
  /\ At("enter", "refused")
  /\ End("enter")
  /\ UNCHANGED <<Server, Phone>>

Logout ==
  /\ At("enter", "free") /\ session # NoSession
  /\ Post("enter", "revoke", session.owner, session.token)
  /\ disturbed' = IF At("renew", "free") THEN disturbed ELSE disturbed \cup {session.owner}
  /\ UNCHANGED <<Server, session>>
(* Also without an answer: see Lose. *)
LoggedOut ==
  /\ At("enter", "granted") /\ req["enter"].next = None
  /\ session' = NoSession
  /\ End("enter")
  /\ UNCHANGED <<Server, disturbed>>

(* onError: a request of the session was answered 401.  Requests wait for  *)
(* each other: one refresh at a time.                                      *)
Refresh ==
  /\ At("renew", "free") /\ session # NoSession
  /\ Post("renew", "find", session.owner, session.token)
  /\ disturbed' = IF At("enter", "free") THEN disturbed ELSE disturbed \cup {session.owner}
  /\ UNCHANGED <<Server, session>>
(* The new tokens are saved, whatever became of the session meanwhile. *)
Refreshed ==
  /\ At("renew", "granted")
  /\ session' = [owner |-> req["renew"].owner, token |-> req["renew"].next]
  /\ End("renew")
  /\ UNCHANGED <<Server, disturbed>>
(* 401: the session is over. *)
Rejected ==
  /\ req["renew"].step \in {"refused", "revoked"}
  /\ session' = NoSession
  /\ End("renew")
  /\ UNCHANGED <<Server, disturbed>>

(* A refresh is delivered again, later. *)
Repeat(t) ==
  /\ At("copy", "free")
  /\ token[t].state # "unused"
  /\ Post("copy", "find", token[t].owner, t)
  /\ disturbed' = disturbed \cup {token[t].owner}
  /\ UNCHANGED <<Server, session>>
Repeated ==
  /\ req["copy"].step \in {"granted", "refused", "revoked"}
  /\ End("copy")
  /\ UNCHANGED <<Server, Phone>>

(* An answer is lost.  logout clears the session all the same. *)
Lose(s) ==
  /\ s # "copy"
  /\ req[s].step \in {"granted", "refused", "revoked"}
  /\ session' = IF At(s, "granted") /\ req[s].next = None THEN NoSession ELSE session
  /\ disturbed' = disturbed \cup {req[s].owner}
  /\ End(s)
  /\ UNCHANGED Server

PhoneStep ==
  \/ \E a \in Account : Register(a) \/ Login(a)
  \/ Entered \/ NotEntered \/ Logout \/ LoggedOut \/ Refresh \/ Refreshed \/ Rejected

AccountsNext ==
  \/ \E s \in Slot : ServerStep(s)
  \/ PhoneStep
  \/ \E t \in Token : Repeat(t)
  \/ Repeated
  \/ \E s \in Slot : Lose(s)
  \/ Crash

AccountsSpec == AccountsInit /\ [][AccountsNext]_accountVars

-----------------------------------------------------------------------------
(* Properties. *)

AccountsTypeOK ==
  /\ user \subseteq Account
  /\ token \in [Token -> Row]
  /\ req \in [Slot -> Request]
  /\ session = NoSession \/ session \in [owner : Account, token : Token]
  /\ disturbed \subseteq Account \cup {NoAccount}

(* A login has at most one refresh token that works: "only the request     *)
(* that claims it gets a successor", also when a token is presented twice  *)
(* at once (AuthService.refresh, RefreshTokenRepository.rotate).           *)
OneLivePerLogin ==
  \A t, u \in Token :
    token[t].state = "live" /\ token[u].state = "live" /\ token[t].login = token[u].login => t = u

(* The phone is sent back to the login screen by the server only when its  *)
(* tokens were disturbed: an answer lost, a request repeated, a crash, or  *)
(* a logout overlapping a refresh.  A token found expired is not counted.  *)
SessionLasts ==
  [][Rejected /\ At("renew", "revoked") => req["renew"].owner \in disturbed]_accountVars
=============================================================================
