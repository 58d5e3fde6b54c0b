---------------------------- MODULE LoginProofs ----------------------------
(***************************************************************************)
(* Theorems about one app that stays signed in beside others, for any      *)
(* e-mails, tokens and requests, whether or not requests about one token   *)
(* overlap.                                                                *)
(***************************************************************************)
EXTENDS Login, SessionsProofs

LEMMA AppSteps == [LoginNext]_loginVars => [Next]_authVars
<1> SUFFICES ASSUME [LoginNext]_loginVars
             PROVE  [Next]_authVars
  OBVIOUS
<1>1. ASSUME NEW r \in Requests, Start(r)
      PROVE  Next
  BY <1>1 DEF Start, Next
<1>2. ASSUME NEW r \in Requests, NEW e \in Emails, Press(r, e)
      PROVE  Next
  BY <1>2 DEF Press, Next
<1>3. ASSUME NEW r \in Requests, OthersAsk(r)
      PROVE  Next
  BY <1>3 DEF OthersAsk, Next
<1>4. ASSUME NEW r \in Requests, ServerGoesOn(r)
      PROVE  Next
  BY <1>4 DEF ServerGoesOn, Next
<1>5. ASSUME NEW t \in Tokens, Lapse(t)
      PROVE  Next
  BY <1>5 DEF Lapse, Next
<1>6. ASSUME NEW r \in Requests, Answer(r) \/ Miss(r)
      PROVE  UNCHANGED authVars
  BY <1>6 DEF Answer, Miss, authVars
<1>7. CASE StartSignedOut \/ Logout \/ Back \/ Stop
  BY <1>7 DEF StartSignedOut, Logout, Back, Stop, authVars
<1>8. CASE ExpireReset
  BY <1>8 DEF Next
<1>9. CASE UNCHANGED loginVars
  BY <1>9 DEF loginVars, authVars
<1> QED
  BY <1>1, <1>2, <1>3, <1>4, <1>5, <1>6, <1>7, <1>8, <1>9 DEF LoginNext

\* The app and the others use the server as module Sessions allows it, so what
\* is proved of that holds with the app, too.
THEOREM LoginUsesSessions == LoginSpec => Spec
<1>1. LoginInit => Init
  BY DEF LoginInit
<1> QED
  BY <1>1, AppSteps, PTL DEF LoginSpec, Spec

\* Beside the app, too, one sign-up with an e-mail succeeds, a request for a
\* reset sets one password, and a token works for the user who signed in ...
THEOREM LoginKeepsAccounts ==
    LoginSpec => []OneSignUp /\ []OneResetPerRequest /\ []WorksForItsUser
BY LoginUsesSessions, OnlyOneSignsUp, OneResetEach, TokensWorkForTheirUsers

\* ... and a session has one live token, which is exchanged once, and stays over
\* when it is revoked, as long as no one sends two requests about one token at a time.
THEOREM LoginKeepsSessions ==
    ASSUME ~Overlaps
    PROVE  LoginSpec => []OneLivePerSession /\ []ExchangedOnce /\ OverIsOver
BY LoginUsesSessions, SessionsStaySingle, TokensExchangedOnce, RevokedIsOver

-----------------------------------------------------------------------------
LEMMA LoginInitType == LoginInit => LoginTypeOK
<1> SUFFICES ASSUME LoginInit
             PROVE  LoginTypeOK
  OBVIOUS
<1>1. TypeOK
  BY InitType DEF LoginInit
<1> QED
  BY <1>1 DEF LoginInit, LoginTypeOK

\* A request that is begun was idle; one that goes on was at a statement.
LEMMA Begun ==
    ASSUME TypeOK, NEW r \in Requests, NEW kind, NEW x, NEW owner, NEW pc,
           Goes(r, kind, x, owner, pc)
    PROVE  /\ request[r].pc = "idle"
           /\ \A s \in Requests \ {r} : request'[s] = request[s]
           /\ request'[r].kind = kind /\ request'[r].on = x
           /\ request'[r].pc = pc /\ request'[r].given = None
BY DEF Goes, TypeOK

LEMMA OthersBegin ==
    ASSUME TypeOK, NEW r \in Requests, OthersAsk(r)
    PROVE  /\ \A s \in Requests \ {r} : request'[s] = request[s]
           /\ request'[r].given = None
           /\ request'[r].kind = "refresh" => request'[r].on \in Issued \ Own
           /\ session' = session
           /\ \A t \in Own : live'[t] = live[t]
<1>1. ASSUME NEW e \in Emails,
             \/ SignUp(r, e) \/ GoogleSignIn(r, e) \/ SignIn(r, e)
             \/ RequestPasswordReset(r, e)
      PROVE  /\ \E kind \in {"signup", "google", "signin", "ask"} : \E pc :
                   Goes(r, kind, e, e, pc)
             /\ UNCHANGED <<live, session>>
  BY <1>1 DEF SignUp, GoogleSignIn, SignIn, RequestPasswordReset
<1>2. ASSUME NEW t \in Tokens \ Own, RefreshToken(r, t)
      PROVE  /\ \E pc : Goes(r, "refresh", t, live[t], pc)
             /\ t \in Issued
             /\ UNCHANGED <<live, session>>
  BY <1>2 DEF RefreshToken
<1>3. ASSUME NEW t \in Tokens \ Own, RevokeToken(r, t)
      PROVE  /\ Goes(r, "revoke", t, None, "ok")
             /\ session' = session
             /\ \A n \in Own : live'[n] = live[n]
  <2>1. live' = [live EXCEPT ![t] = None]
    BY <1>3 DEF RevokeToken, DeleteRefreshToken
  <2>2. \A n \in Own : n # t
    OBVIOUS
  <2>3. Own \subseteq Tokens
    BY DEF Own, TypeOK, Request
  <2> QED
    BY <1>3, <2>1, <2>2, <2>3 DEF RevokeToken, DeleteRefreshToken, TypeOK
<1>4. ASSUME ResetPassword(r)
      PROVE  /\ \E x, owner, pc : Goes(r, "reset", x, owner, pc)
             /\ UNCHANGED <<live, session>>
  BY <1>4 DEF ResetPassword
<1>5. CASE \E e \in Emails : \/ SignUp(r, e) \/ GoogleSignIn(r, e) \/ SignIn(r, e)
                             \/ RequestPasswordReset(r, e)
  <2>1. PICK e \in Emails, kind \in {"signup", "google", "signin", "ask"} :
                \E pc : Goes(r, kind, e, e, pc)
    BY <1>1, <1>5
  <2>2. PICK pc : Goes(r, kind, e, e, pc)
    BY <2>1
  <2> QED
    BY <1>1, <1>5, <2>1, <2>2, Begun
<1>6. CASE \E t \in Tokens \ Own : RefreshToken(r, t)
  <2>1. PICK t \in Tokens \ Own : RefreshToken(r, t)
    BY <1>6
  <2>2. PICK pc : Goes(r, "refresh", t, live[t], pc)
    BY <1>2, <2>1
  <2> QED
    BY <1>2, <2>1, <2>2, Begun
<1>7. CASE \E t \in Tokens \ Own : RevokeToken(r, t)
  <2>1. PICK t \in Tokens \ Own : RevokeToken(r, t)
    BY <1>7
  <2>2. request'[r].kind = "revoke"
    BY <1>3, <2>1, Begun
  <2> QED
    BY <1>3, <2>1, <2>2, Begun
<1>8. CASE ResetPassword(r)
  <2>1. PICK x, owner, pc : Goes(r, "reset", x, owner, pc)
    BY <1>4, <1>8
  <2> QED
    BY <1>4, <1>8, <2>1, Begun
<1> QED
  BY <1>5, <1>6, <1>7, <1>8 DEF OthersAsk

-----------------------------------------------------------------------------
\* Of a token that the app was given: who was given it, and that there is one.
GivenOnce ==
    /\ \A r, s \in Requests :
          request[r].given # None /\ request[r].given = request[s].given => r = s
    /\ \A r \in Requests : request[r].given # None => request[r].given \in Issued

\* The app stores and exchanges what it has heard, and others do not use it.
OwnTokens ==
    /\ stored \in Tokens
         => \E q \in Requests : asked[q] = "heard" /\ request[q].given = stored
    /\ \A s \in Requests :
          Exchange(s) => \E q \in Requests : /\ asked[q] = "heard"
                                             /\ request[q].given = request[s].on
    /\ \A s \in Requests :
          request[s].kind = "refresh" => request[s].on \in Issued
    /\ \A s \in Requests :
          asked[s] = "other" /\ request[s].kind = "refresh" => request[s].on \notin Own

\* An exchange that was heard of has put another token in the place of its own.
Replaced ==
    \A s \in Requests :
        Exchange(s) /\ asked[s] = "heard" /\ request[s].pc = "ok"
          => stored # request[s].on

\* A token of the app that is gone has lapsed or the app has exchanged it.
Accounted ==
    \A t \in Own :
        \/ live[t] # None
        \/ t \in lapsed
        \/ \E s \in Requests : /\ Exchange(s)
                               /\ request[s].on = t
                               /\ request[s].pc \in {"issue", "ok", "internal"}

CauseInv ==
    LoginTypeOK /\ GivenOnce /\ OwnTokens /\ Replaced /\ Accounted /\ RefusedForCause

LEMMA CauseInit == LoginInit => CauseInv
<1> SUFFICES ASSUME LoginInit
             PROVE  CauseInv
  OBVIOUS
<1>1. LoginTypeOK
  BY LoginInitType
<1>2. \A r \in Requests : /\ request[r].given = None /\ request[r].kind = "none"
                          /\ asked[r] = "other"
  BY DEF LoginInit, Init
<1>3. Own = {}
  BY <1>2 DEF Own
<1>4. stored = None /\ None \notin Tokens
  BY SessionsAssumption DEF LoginInit
<1> QED
  BY <1>1, <1>2, <1>3, <1>4
     DEF CauseInv, GivenOnce, OwnTokens, Replaced, Accounted, RefusedForCause, Exchange

-----------------------------------------------------------------------------
LEMMA OwnIs ==
    ASSUME NEW t
    PROVE  t \in Own <=> /\ t # None
                         /\ \E r \in Requests : asked[r] # "other" /\ request[r].given = t
BY DEF Own

LEMMA OwnIsNext ==
    ASSUME NEW t
    PROVE  t \in Own' <=> /\ t # None
                          /\ \E r \in Requests :
                                asked'[r] # "other" /\ request'[r].given = t
BY DEF Own

\* What a statement of r does: it issues a token, deletes one, or neither.
Issues(r) ==
    \E t \in Tokens \ Issued :
        /\ request[r].pc = "issue" /\ request'[r].pc = "ok"
        /\ request'[r].given = t
        /\ live'[t] # None /\ \A n \in Tokens \ {t} : live'[n] = live[n]
        /\ Issued \subseteq Issued'
        /\ (request[r].kind = "refresh" => request[r].on \in Issued) => t \in Issued'

Deletes(r) ==
    /\ request[r].kind = "refresh"
    /\ request'[r].pc = "issue" /\ request'[r].given = request[r].given
    /\ \A n \in Tokens \ {request[r].on} : live'[n] = live[n]
    /\ session' = session

Changes(r) ==
    /\ request'[r].given = request[r].given
    /\ request[r].kind = "refresh" /\ request[r].pc = "issue"
         => request'[r].pc = "internal"
    /\ UNCHANGED <<live, session>>

LEMMA ServerIssues ==
    ASSUME TypeOK, NEW r \in Requests, NEW t \in Tokens, Issue(r, t)
    PROVE  Issues(r)
<1>1. /\ request' = [request EXCEPT ![r].pc = "ok", ![r].given = t]
      /\ live' = [live EXCEPT ![t] = request[r].owner]
      /\ t \in Tokens \ Issued
      /\ request[r].pc = "issue"
  BY DEF Issue, CreateRefreshToken
<1>2. request'[r].pc = "ok" /\ request'[r].given = t
  BY <1>1 DEF TypeOK, Request
<1>3. request[r].owner # None
  BY <1>1 DEF TypeOK, Pending
<1>4. live'[t] # None /\ \A n \in Tokens \ {t} : live'[n] = live[n]
  BY <1>1, <1>3 DEF TypeOK
<1>5. session'[t] = IF request[r].kind = "refresh" THEN session[request[r].on] ELSE t
  BY DEF Issue, CreateRefreshToken, TypeOK
<1>6. \A n \in Tokens \ {t} : session'[n] = session[n]
  BY DEF Issue, CreateRefreshToken, TypeOK
<1>7. t # None
  BY SessionsAssumption
<1> QED
  BY <1>1, <1>2, <1>4, <1>5, <1>6, <1>7 DEF Issues, Issued

LEMMA ServerMoves ==
    ASSUME TypeOK, NEW r \in Requests, ServerGoesOn(r)
    PROVE  /\ Running(r)
           /\ \A s \in Requests \ {r} : request'[s] = request[s]
           /\ request'[r].kind = request[r].kind /\ request'[r].on = request[r].on
           /\ request'[r].pc # "unauthenticated"
           /\ Issues(r) \/ Deletes(r) \/ Changes(r)
           /\ UNCHANGED appVars
<1> USE DEF TypeOK, Request
<1>1. CASE \E t \in Tokens : Issue(r, t)
  <2>1. PICK t \in Tokens : Issue(r, t)
    BY <1>1
  <2>2. request' = [request EXCEPT ![r].pc = "ok", ![r].given = t]
    BY <2>1 DEF Issue, CreateRefreshToken
  <2> QED
    BY <2>1, <2>2, ServerIssues DEF Issue, CreateRefreshToken, Running, Pending,
       ServerGoesOn
<1>2. CASE Delete(r)
  <2>1. request' = [request EXCEPT ![r].pc = "issue"]
    BY <1>2 DEF Delete, DeleteRefreshToken
  <2>2. /\ request'[r].pc = "issue" /\ request'[r].given = request[r].given
        /\ request'[r].kind = request[r].kind /\ request'[r].on = request[r].on
        /\ \A s \in Requests \ {r} : request'[s] = request[s]
    BY <2>1
  <2>3. request[r].kind = "refresh" /\ request[r].pc = "delete"
    BY <1>2 DEF Delete, DeleteRefreshToken
  <2>4. \A n \in Tokens \ {request[r].on} : live'[n] = live[n]
    BY <1>2 DEF Delete, DeleteRefreshToken
  <2> QED
    BY <1>2, <2>2, <2>3, <2>4 DEF Delete, DeleteRefreshToken, Deletes, Running, Pending,
       ServerGoesOn
<1>3. CASE \/ Insert(r) \/ CreateResetToken(r) \/ ConsumeResetToken(r)
           \/ SetUserPasswordHash(r) \/ Fail(r)
  <2>1. PICK pc : request' = [request EXCEPT ![r].pc = pc] /\ pc # "unauthenticated"
    BY <1>3 DEF Insert, CreateUser, Providers, CreateResetToken, ConsumeResetToken,
       SetUserPasswordHash, Fail
  <2>2. /\ request'[r].pc = pc /\ request'[r].given = request[r].given
        /\ request'[r].kind = request[r].kind /\ request'[r].on = request[r].on
        /\ \A s \in Requests \ {r} : request'[s] = request[s]
    BY <2>1
  <2>3. Running(r) /\ UNCHANGED <<live, session>>
    BY <1>3 DEF Insert, CreateUser, Providers, CreateResetToken, ConsumeResetToken,
       SetUserPasswordHash, Fail,
                Running, Pending
  <2>4. request[r].pc = "issue" => request'[r].pc = "internal"
    <3>1. CASE Fail(r)
      BY <3>1 DEF Fail
    <3>2. CASE request[r].pc # "issue"
      BY <3>2
    <3> QED
      BY <1>3, <3>1, <3>2 DEF Insert, CreateUser, Providers, CreateResetToken,
         ConsumeResetToken,
                              SetUserPasswordHash
  <2> QED
    BY <2>1, <2>2, <2>3, <2>4 DEF Changes, ServerGoesOn
<1> QED
  BY <1>1, <1>2, <1>3 DEF ServerGoesOn

LEMMA LoginNextType == LoginTypeOK /\ [LoginNext]_loginVars => LoginTypeOK'
<1> SUFFICES ASSUME LoginTypeOK, [LoginNext]_loginVars
             PROVE  LoginTypeOK'
  OBVIOUS
<1>0. TypeOK /\ TypeOK'
  BY AppSteps, NextType DEF LoginTypeOK
<1>1. ASSUME NEW r \in Requests, OthersAsk(r)
      PROVE  LoginTypeOK'
  <2>1. asked[r] = "other" /\ UNCHANGED appVars
    BY <1>1 DEF OthersAsk
  <2>2. \A s \in Requests \ {r} : request'[s] = request[s]
    BY <1>0, <1>1, OthersBegin
  <2> QED
    BY <1>0, <2>1, <2>2 DEF LoginTypeOK, appVars, Running
<1>2. ASSUME NEW r \in Requests, ServerGoesOn(r)
      PROVE  LoginTypeOK'
  <2>1. Running(r) /\ UNCHANGED appVars
    BY <1>0, <1>2, ServerMoves
  <2>2. \A s \in Requests \ {r} : request'[s] = request[s]
    BY <1>0, <1>2, ServerMoves
  <2> QED
    BY <1>0, <2>1, <2>2 DEF LoginTypeOK, appVars, Running
<1>3. ASSUME NEW r \in Requests, Start(r) \/ \E e \in Emails : Press(r, e)
      PROVE  LoginTypeOK'
  <2>1. PICK kind, x, owner, pc : Goes(r, kind, x, owner, pc)
    BY <1>3 DEF Start, Press, RefreshToken, SignUp, SignIn, GoogleSignIn
  <2>2. \A s \in Requests \ {r} : request'[s] = request[s]
    BY <1>0, <2>1, Begun
  <2>3. /\ asked' = [asked EXCEPT ![r] = "awaited"]
        /\ running' /\ UNCHANGED <<pages, stored, lapsed>>
    BY <1>3 DEF Start, Press, Sends
  <2>4. running' \in BOOLEAN
    BY <1>3 DEF Start, Press, LoginTypeOK
  <2> QED
    BY <1>0, <2>2, <2>3, <2>4 DEF LoginTypeOK, Running
<1>4. ASSUME NEW r \in Requests, Answer(r)
      PROVE  LoginTypeOK'
  <2>1. stored' \in Tokens \cup {None, Blank} /\ pages' \in Nat
    BY <1>0, <1>4 DEF Answer, LoginTypeOK, TypeOK, Request
  <2> QED
    BY <1>0, <1>4, <2>1 DEF Answer, LoginTypeOK, Running
<1>5. ASSUME NEW r \in Requests, Miss(r)
      PROVE  LoginTypeOK'
  BY <1>0, <1>5 DEF Miss, LoginTypeOK, Running
<1>6. CASE Logout \/ Back
  <2>1. pages' \in Nat
    BY <1>6 DEF Logout, Back, LoginTypeOK
  <2>2. running
    BY <1>6 DEF Logout, Back, LoginTypeOK
  <2> QED
    BY <1>0, <1>6, <2>1, <2>2 DEF Logout, Back, LoginTypeOK, Running
<1>7. CASE Stop
  BY <1>0, <1>7 DEF Stop, LoginTypeOK, Running
<1>8. CASE StartSignedOut
  BY <1>0, <1>8 DEF StartSignedOut, LoginTypeOK, Running
<1>9. ASSUME NEW t \in Tokens, Lapse(t)
      PROVE  LoginTypeOK'
  <2>1. lapsed' \subseteq Tokens
    BY <1>9 DEF Lapse, LoginTypeOK
  <2> QED
    BY <1>0, <1>9, <2>1 DEF Lapse, Expire, LoginTypeOK, Running
<1>10. CASE ExpireReset /\ UNCHANGED appVars
  BY <1>0, <1>10 DEF ExpireReset, appVars, LoginTypeOK, Running
<1>11. CASE UNCHANGED loginVars
  BY <1>0, <1>11 DEF loginVars, LoginTypeOK, Running
<1> QED
  BY <1>1, <1>2, <1>3, <1>4, <1>5, <1>6, <1>7, <1>8, <1>9, <1>10, <1>11 DEF LoginNext

\* The app, the others and the server keep their types.
THEOREM LoginTypes == LoginSpec => []LoginTypeOK
BY LoginInitType, LoginNextType, PTL DEF LoginSpec

-----------------------------------------------------------------------------
\* Steps that leave requests and tokens alone and take none up.
LEMMA CauseQuiet ==
    ASSUME CauseInv, LoginTypeOK',
           UNCHANGED <<request, live, session, lapsed>>,
           \/ /\ stored' \in {stored, None, Blank}
              /\ \A r \in Requests :
                    asked'[r] = asked[r] \/ (asked[r] = "awaited" /\ asked'[r] = "missed")
           \/ \E r \in Requests : Answer(r)
    PROVE  CauseInv'
<1>0. None \notin Tokens /\ Blank \notin Tokens
  BY SessionsAssumption, LoginAssumption
<1>1. \A r \in Requests : asked'[r] = "other" <=> asked[r] = "other"
  BY DEF Answer, CauseInv, LoginTypeOK
<1>2. \A r \in Requests : /\ asked[r] = "heard" => asked'[r] = "heard"
                          /\ asked[r] = "missed" => asked'[r] = "missed"
  BY DEF Answer, CauseInv, LoginTypeOK
<1>2a. request' = request
  OBVIOUS
<1>2b. ASSUME NEW x, \E q \in Requests : asked[q] = "heard" /\ request[q].given = x
       PROVE  \E q \in Requests : asked'[q] = "heard" /\ request'[q].given = x
  <2>1. PICK q \in Requests : asked[q] = "heard" /\ request[q].given = x
    BY <1>2b
  <2> QED
    BY <1>2, <1>2a, <2>1
<1>3. \A t : t \in Own' <=> t \in Own
  BY <1>1, OwnIs, OwnIsNext
<1>4. \A r \in Requests : Exchange(r)' <=> Exchange(r)
  BY <1>1 DEF Exchange
<1>5. GivenOnce'
  BY DEF CauseInv, GivenOnce, Issued
<1>6. stored' \in Tokens
        => \E q \in Requests : asked'[q] = "heard" /\ request'[q].given = stored'
  <2>1. ASSUME stored' \in {stored, None, Blank}, stored' \in Tokens
        PROVE  \E q \in Requests : asked'[q] = "heard" /\ request'[q].given = stored'
    <3>1. stored' = stored
      BY <1>0, <2>1
    <3>2. \E q \in Requests : asked[q] = "heard" /\ request[q].given = stored
      BY <2>1, <3>1 DEF CauseInv, OwnTokens
    <3> QED
      BY <1>2b, <3>1, <3>2
  <2>2. ASSUME NEW r \in Requests, Answer(r), request[r].given # None
        PROVE  asked'[r] = "heard" /\ request'[r].given = stored'
    BY <2>2 DEF Answer, CauseInv, LoginTypeOK
  <2>3. ASSUME NEW r \in Requests, Answer(r), request[r].given = None
        PROVE  stored' \in {stored, Blank}
    BY <2>3 DEF Answer
  <2> QED
    BY <2>1, <2>2, <2>3
<1>7. OwnTokens'
  <2>1. Issued' = Issued
    BY DEF Issued
  <2>2. ASSUME NEW s \in Requests, Exchange(s)
        PROVE  \E q \in Requests : asked'[q] = "heard" /\ request'[q].given = request[s].on
    <3>1. \E q \in Requests : asked[q] = "heard" /\ request[q].given = request[s].on
      BY <2>2 DEF CauseInv, OwnTokens
    <3> QED
      BY <1>2b, <3>1
  <2>3. \A s \in Requests :
            asked[s] = "other" /\ request[s].kind = "refresh" => request[s].on \notin Own
    BY DEF CauseInv, OwnTokens
  <2>4. \A s \in Requests : request[s].kind = "refresh" => request[s].on \in Issued
    BY DEF CauseInv, OwnTokens
  <2> QED
    BY <1>1, <1>2a, <1>3, <1>4, <1>6, <2>1, <2>2, <2>3, <2>4 DEF OwnTokens
<1>8. Replaced'
  <2> SUFFICES ASSUME NEW s \in Requests, Exchange(s), asked'[s] = "heard",
                      request[s].pc = "ok"
               PROVE  stored' # request[s].on
    BY <1>4 DEF Replaced
  <2>1. PICK q \in Requests : asked[q] = "heard" /\ request[q].given = request[s].on
    BY DEF CauseInv, OwnTokens
  <2>2. request[s].on \in Tokens
    BY DEF CauseInv, LoginTypeOK, TypeOK, Exchange
  <2>3. ASSUME NEW r \in Requests, Answer(r)
        PROVE  stored' # request[s].on
    <3>1. q # r
      BY <2>1, <2>3 DEF Answer
    <3>2. request[r].given # request[s].on
      BY <1>0, <2>1, <2>2, <3>1 DEF CauseInv, GivenOnce
    <3>3. CASE request[r].given # None
      BY <2>3, <3>2, <3>3 DEF Answer
    <3>4. CASE request[r].given = None /\ request[r].pc = "ok"
      BY <1>0, <2>2, <2>3, <3>4 DEF Answer
    <3>5. CASE request[r].given = None /\ request[r].pc # "ok"
      <4>1. stored' = stored /\ asked[s] = "heard"
        BY <2>3, <3>5 DEF Answer, CauseInv, LoginTypeOK
      <4> QED
        BY <4>1 DEF CauseInv, Replaced
    <3> QED
      BY <3>3, <3>4, <3>5
  <2>4. CASE /\ stored' \in {stored, None, Blank}
             /\ \A r \in Requests :
                   asked'[r] = asked[r] \/ (asked[r] = "awaited" /\ asked'[r] = "missed")
    <3>1. asked[s] = "heard"
      BY <2>4
    <3> QED
      BY <1>0, <2>2, <2>4, <3>1 DEF CauseInv, Replaced
  <2> QED
    BY <2>3, <2>4
<1>9. Accounted'
  BY <1>3, <1>4 DEF CauseInv, Accounted
<1>10. RefusedForCause'
  BY <1>2, <1>4 DEF CauseInv, RefusedForCause
<1> QED
  BY <1>5, <1>7, <1>8, <1>9, <1>10 DEF CauseInv

\* A token lapses, which is put down if it is one of the app's.
LEMMA CauseLapse ==
    ASSUME CauseInv, LoginTypeOK', NEW t \in Tokens, Lapse(t)
    PROVE  CauseInv'
<1>1. /\ UNCHANGED <<request, session, asked, stored>>
      /\ live' = [live EXCEPT ![t] = None]
      /\ lapsed' = lapsed \cup ({t} \cap Own)
  BY DEF Lapse, Expire
<1>2. Own' = Own /\ Issued' = Issued
  BY <1>1 DEF Own, Issued
<1>3. \A r \in Requests : Exchange(r)' <=> Exchange(r)
  BY <1>1 DEF Exchange
<1>4. Own \subseteq Tokens
  BY DEF CauseInv, LoginTypeOK, TypeOK, Request, Own
<1>5. \A n \in Tokens \ {t} : live'[n] = live[n]
  BY <1>1 DEF CauseInv, LoginTypeOK, TypeOK
<1>6. Accounted'
  BY <1>1, <1>2, <1>3, <1>4, <1>5 DEF CauseInv, Accounted
<1>7. RefusedForCause'
  BY <1>1, <1>3 DEF CauseInv, RefusedForCause
<1> QED
  BY <1>1, <1>2, <1>3, <1>6, <1>7 DEF CauseInv, GivenOnce, OwnTokens, Replaced

\* The server goes on with a request, whosever it is.
LEMMA CauseServer ==
    ASSUME CauseInv, LoginTypeOK', NEW r \in Requests, ServerGoesOn(r)
    PROVE  CauseInv'
<1>0. TypeOK /\ None \notin Tokens
  BY SessionsAssumption DEF CauseInv, LoginTypeOK
<1>1. /\ Running(r)
      /\ \A s \in Requests \ {r} : request'[s] = request[s]
      /\ request'[r].kind = request[r].kind /\ request'[r].on = request[r].on
      /\ request'[r].pc # "unauthenticated"
      /\ Issues(r) \/ Deletes(r) \/ Changes(r)
      /\ UNCHANGED <<asked, stored, lapsed>>
  BY <1>0, ServerMoves DEF appVars
<1>2. asked[r] # "heard" /\ request[r].pc \notin {"ok", "internal", "unauthenticated"}
  BY <1>1 DEF CauseInv, LoginTypeOK, Running, Pending
<1>3. \A s \in Requests : Exchange(s)' <=> Exchange(s)
  BY <1>1 DEF Exchange
<1>4. Own \subseteq Tokens
  BY <1>0 DEF TypeOK, Request, Own
<1>5. \A s \in Requests : /\ request'[s].kind = request[s].kind
                          /\ request'[s].on = request[s].on
                          /\ asked[s] = "heard" => request'[s] = request[s]
  BY <1>1, <1>2
<1>6. Issued \subseteq Issued'
  BY <1>1 DEF Issues, Deletes, Changes, Issued
<1>7. Replaced'
  BY <1>1, <1>3, <1>5 DEF CauseInv, Replaced
<1>8. RefusedForCause'
  <2> SUFFICES ASSUME NEW x \in Requests, Exchange(x), request'[x].pc = "unauthenticated"
               PROVE  \/ request[x].on \in lapsed
                      \/ \E s \in Requests \ {x} :
                            /\ Exchange(s)
                            /\ request[s].on = request[x].on
                            /\ asked[s] = "missed" \/ request'[s].pc = "internal"
    BY <1>1, <1>3, <1>5 DEF RefusedForCause
  <2>1. x # r /\ request[x].pc = "unauthenticated"
    BY <1>1
  <2>2. \A s \in Requests : request[s].pc = "internal" => request'[s].pc = "internal"
    BY <1>1, <1>2
  <2> QED
    BY <2>1, <2>2 DEF CauseInv, RefusedForCause
<1>9. CASE Issues(r)
  <2>1. PICK t \in Tokens \ Issued :
            /\ request[r].pc = "issue" /\ request'[r].pc = "ok"
            /\ request'[r].given = t
            /\ live'[t] # None /\ \A n \in Tokens \ {t} : live'[n] = live[n]
            /\ Issued \subseteq Issued'
            /\ (request[r].kind = "refresh" => request[r].on \in Issued) => t \in Issued'
    BY <1>9 DEF Issues
  <2>2. t \in Issued'
    BY <2>1 DEF CauseInv, OwnTokens
  <2>3. \A s \in Requests : request[s].given # t
    BY <1>0, <2>1 DEF CauseInv, GivenOnce
  <2>4. GivenOnce'
    BY <1>1, <2>1, <2>2, <2>3 DEF CauseInv, GivenOnce
  <2>5. \A n : n \in Own' => n \in Own \cup {t}
    BY <1>1, <2>1, OwnIs, OwnIsNext
  <2>6. \A s \in Requests : request[s].kind = "refresh" => request[s].on # t
    BY <2>1 DEF CauseInv, OwnTokens
  <2>7. OwnTokens'
    BY <1>1, <1>3, <1>5, <1>6, <2>5, <2>6 DEF CauseInv, OwnTokens
  <2>8. Accounted'
    <3> SUFFICES ASSUME NEW n \in Own', n # t
                 PROVE  \/ live'[n] # None
                        \/ n \in lapsed
                        \/ \E s \in Requests : /\ Exchange(s)
                                               /\ request[s].on = n
                                               /\ request'[s].pc \in {"issue", "ok", "internal"}
      BY <1>1, <1>3, <1>5, <2>1 DEF Accounted
    <3>1. n \in Own /\ live'[n] = live[n]
      BY <1>4, <2>1, <2>5
    <3>2. \A s \in Requests : request[s].pc \in {"issue", "ok", "internal"}
                                => request'[s].pc \in {"issue", "ok", "internal"}
      BY <1>1, <2>1
    <3> QED
      BY <3>1, <3>2 DEF CauseInv, Accounted
  <2> QED
    BY <1>7, <1>8, <2>4, <2>7, <2>8 DEF CauseInv
<1>10. CASE Deletes(r) \/ Changes(r)
  <2>1. \A s \in Requests : request'[s].given = request[s].given
    BY <1>1, <1>10 DEF Deletes, Changes
  <2>2. \A n : n \in Own' <=> n \in Own
    BY <1>1, <2>1, OwnIs, OwnIsNext
  <2>3. GivenOnce'
    BY <1>6, <2>1 DEF CauseInv, GivenOnce
  <2>4. OwnTokens'
    BY <1>1, <1>3, <1>5, <1>6, <2>1, <2>2 DEF CauseInv, OwnTokens
  <2>5. Accounted'
    <3> SUFFICES ASSUME NEW n \in Own
                 PROVE  \/ live'[n] # None
                        \/ n \in lapsed
                        \/ \E s \in Requests : /\ Exchange(s)
                                               /\ request[s].on = n
                                               /\ request'[s].pc \in {"issue", "ok", "internal"}
      BY <1>1, <1>3, <1>5, <2>2 DEF Accounted
    <3>1. CASE live'[n] = live[n]
      <4>1. \A s \in Requests :
                request[s].kind = "refresh" /\ request[s].pc \in {"issue", "ok", "internal"}
                  => request'[s].pc \in {"issue", "ok", "internal"}
        BY <1>1, <1>2, <1>10 DEF Deletes, Changes
      <4> QED
        BY <3>1, <4>1 DEF CauseInv, Accounted, Exchange
    <3>2. CASE live'[n] # live[n]
      <4>1. Deletes(r) /\ n = request[r].on
        BY <1>4, <1>10, <3>2 DEF Deletes, Changes
      <4>2. asked[r] # "other"
        BY <4>1 DEF CauseInv, OwnTokens, Deletes
      <4> QED
        BY <4>1, <4>2 DEF Deletes, Exchange
    <3> QED
      BY <3>1, <3>2
  <2> QED
    BY <1>7, <1>8, <2>3, <2>4, <2>5 DEF CauseInv
<1> QED
  BY <1>1, <1>9, <1>10

\* Why a refusal of the exchange x is no surprise.
HasCause(x) ==
    \/ request[x].on \in lapsed
    \/ \E s \in Requests \ {x} :
          /\ Exchange(s)
          /\ request[s].on = request[x].on
          /\ asked[s] = "missed" \/ request[s].pc = "internal"

\* A request r is begun, by others or by the app, which exchanges what it stores.
LEMMA CauseBegins ==
    ASSUME CauseInv, LoginTypeOK', NEW r \in Requests,
           asked[r] = "other",
           \A s \in Requests \ {r} : request'[s] = request[s] /\ asked'[s] = asked[s],
           request'[r].given = None,
           session' = session, stored' = stored, lapsed' = lapsed,
           \A t \in Own : live'[t] = live[t],
           request'[r].kind = "refresh" => request'[r].on \in Issued,
           \/ /\ asked'[r] = "other"
              /\ request'[r].kind = "refresh" => request'[r].on \notin Own
           \/ /\ asked'[r] = "awaited"
              /\ request'[r].kind = "refresh"
                    => /\ request'[r].on = stored /\ stored \in Tokens
                       /\ request'[r].pc = "unauthenticated" => HasCause(r)'
    PROVE  CauseInv'
<1>0. None \notin Tokens
  BY SessionsAssumption
<1>1. \A t : t \in Own' <=> t \in Own
  BY OwnIs, OwnIsNext
<1>2. \A s \in Requests : Exchange(s) => s # r
  BY DEF Exchange
<1>3. \A s \in Requests \ {r} : Exchange(s)' <=> Exchange(s)
  BY DEF Exchange
<1>4. \A q \in Requests : asked[q] = "heard" => q # r
  OBVIOUS
<1>5. Issued' = Issued
  BY DEF Issued
<1>6. GivenOnce'
  BY <1>5 DEF CauseInv, GivenOnce
<1>7. stored' \in Tokens
        => \E q \in Requests : asked'[q] = "heard" /\ request'[q].given = stored'
  BY <1>4 DEF CauseInv, OwnTokens
<1>8. ASSUME NEW s \in Requests, Exchange(s)'
      PROVE  \E q \in Requests : asked'[q] = "heard" /\ request'[q].given = request'[s].on
  <2>1. CASE s = r
    BY <1>7, <1>8, <2>1 DEF Exchange
  <2>2. CASE s # r
    <3>1. PICK q \in Requests : asked[q] = "heard" /\ request[q].given = request[s].on
      BY <1>3, <1>8, <2>2 DEF CauseInv, OwnTokens
    <3> QED
      BY <1>4, <2>2, <3>1
  <2> QED
    BY <2>1, <2>2
<1>9. \A s \in Requests : request'[s].kind = "refresh" => request'[s].on \in Issued
  BY DEF CauseInv, OwnTokens
<1>10. \A s \in Requests : asked'[s] = "other" /\ request'[s].kind = "refresh"
                             => request'[s].on \notin Own
  BY DEF CauseInv, OwnTokens
<1>11. OwnTokens'
  BY <1>1, <1>5, <1>7, <1>8, <1>9, <1>10 DEF OwnTokens
<1>12. Replaced'
  <2> SUFFICES ASSUME NEW s \in Requests, Exchange(s)', asked'[s] = "heard",
                      request'[s].pc = "ok"
               PROVE  stored' # request'[s].on
    BY DEF Replaced
  <2>1. s # r
    OBVIOUS
  <2> QED
    BY <1>3, <2>1 DEF CauseInv, Replaced
<1>13. Accounted'
  <2> SUFFICES ASSUME NEW t \in Own, live'[t] = None, t \notin lapsed
               PROVE  \E s \in Requests : /\ Exchange(s)'
                                          /\ request'[s].on = t
                                          /\ request'[s].pc \in {"issue", "ok", "internal"}
    BY <1>1 DEF Accounted
  <2>1. PICK s \in Requests : /\ Exchange(s)
                              /\ request[s].on = t
                              /\ request[s].pc \in {"issue", "ok", "internal"}
    BY DEF CauseInv, Accounted
  <2> QED
    BY <1>2, <1>3, <2>1
<1>14. RefusedForCause'
  <2> SUFFICES ASSUME NEW x \in Requests, Exchange(x)', request'[x].pc = "unauthenticated"
               PROVE  HasCause(x)'
    BY DEF RefusedForCause, HasCause
  <2>1. CASE x = r
    BY <2>1 DEF Exchange
  <2>2. CASE x # r
    <3>1. HasCause(x)
      BY <1>3, <2>2 DEF CauseInv, RefusedForCause, HasCause
    <3>2. ASSUME NEW s \in Requests \ {x}, Exchange(s), request[s].on = request[x].on,
                 asked[s] = "missed" \/ request[s].pc = "internal"
          PROVE  /\ Exchange(s)' /\ request'[s].on = request'[x].on
                 /\ asked'[s] = "missed" \/ request'[s].pc = "internal"
      BY <1>2, <1>3, <2>2, <3>2
    <3>3. request'[x].on = request[x].on
      BY <2>2
    <3> QED
      BY <3>1, <3>2, <3>3 DEF HasCause
  <2> QED
    BY <2>1, <2>2
<1> QED
  BY <1>6, <1>11, <1>12, <1>13, <1>14 DEF CauseInv

\* The app starts: if the token it has stored is gone, there is a cause.
LEMMA CauseStart ==
    ASSUME CauseInv, LoginTypeOK', NEW r \in Requests, Start(r)
    PROVE  CauseInv'
<1>0. TypeOK
  BY DEF CauseInv, LoginTypeOK
<1>1. PICK pc : /\ Goes(r, "refresh", stored, live[stored], pc)
                /\ pc = "unauthenticated" => live[stored] = None
  BY DEF Start, RefreshToken
<1>2. /\ \A s \in Requests \ {r} : request'[s] = request[s]
      /\ request'[r].kind = "refresh" /\ request'[r].on = stored
      /\ request'[r].pc = pc /\ request'[r].given = None
  BY <1>0, <1>1, Begun
<1>3. /\ asked[r] = "other" /\ asked' = [asked EXCEPT ![r] = "awaited"]
      /\ ~running /\ stored \in Tokens
      /\ UNCHANGED <<live, session, stored, lapsed>>
  BY DEF Start, RefreshToken, Sends
<1>4. asked'[r] = "awaited" /\ \A s \in Requests \ {r} : asked'[s] = asked[s]
  BY <1>3 DEF CauseInv, LoginTypeOK
<1>5. PICK q \in Requests : asked[q] = "heard" /\ request[q].given = stored
  BY <1>3 DEF CauseInv, OwnTokens
<1>6. stored \in Own /\ stored \in Issued
  BY <1>3, <1>5, OwnIs, SessionsAssumption DEF CauseInv, GivenOnce
<1>7. ASSUME pc = "unauthenticated"
      PROVE  HasCause(r)'
  <2>1. live[stored] = None
    BY <1>1, <1>7
  <2>2. CASE stored \in lapsed
    BY <1>2, <1>3, <2>2 DEF HasCause
  <2>3. ASSUME NEW s \in Requests, Exchange(s), request[s].on = stored,
               request[s].pc \in {"issue", "ok", "internal"}
        PROVE  HasCause(r)'
    <3>1. s # r
      BY <1>3, <2>3 DEF Exchange
    <3>2. asked[s] \in {"missed", "heard"}
      BY <1>3, <2>3 DEF CauseInv, LoginTypeOK, Exchange
    <3>3. asked[s] = "heard" => request[s].pc = "internal"
      BY <2>3 DEF CauseInv, LoginTypeOK, Replaced, Running, Pending
    <3>4. Exchange(s)' /\ request'[s] = request[s] /\ asked'[s] = asked[s]
      BY <1>2, <1>4, <2>3, <3>1 DEF Exchange
    <3> QED
      BY <1>2, <2>3, <3>1, <3>2, <3>3, <3>4 DEF HasCause
  <2> QED
    BY <1>6, <2>1, <2>2, <2>3 DEF CauseInv, Accounted
<1> QED
  BY <1>2, <1>3, <1>4, <1>6, <1>7, CauseBegins

LEMMA CausePress ==
    ASSUME CauseInv, LoginTypeOK', NEW r \in Requests, NEW e \in Emails, Press(r, e)
    PROVE  CauseInv'
<1>0. TypeOK
  BY DEF CauseInv, LoginTypeOK
<1>1. PICK kind, pc : kind \in {"signup", "signin", "google"} /\ Goes(r, kind, e, e, pc)
  BY DEF Press, SignUp, SignIn, GoogleSignIn
<1>2. /\ \A s \in Requests \ {r} : request'[s] = request[s]
      /\ request'[r].kind # "refresh" /\ request'[r].given = None
  BY <1>0, <1>1, Begun
<1>3. /\ asked[r] = "other" /\ asked' = [asked EXCEPT ![r] = "awaited"]
      /\ UNCHANGED <<live, session, stored, lapsed>>
  BY DEF Press, SignUp, SignIn, GoogleSignIn, Sends
<1>4. asked'[r] = "awaited" /\ \A s \in Requests \ {r} : asked'[s] = asked[s]
  BY <1>3 DEF CauseInv, LoginTypeOK
<1> QED
  BY <1>2, <1>3, <1>4, CauseBegins

LEMMA CauseOthers ==
    ASSUME CauseInv, LoginTypeOK', NEW r \in Requests, OthersAsk(r)
    PROVE  CauseInv'
<1>0. TypeOK
  BY DEF CauseInv, LoginTypeOK
<1>1. asked[r] = "other" /\ UNCHANGED <<asked, stored, lapsed>>
  BY DEF OthersAsk, appVars
<1> QED
  BY <1>0, <1>1, OthersBegin, CauseBegins

LEMMA CauseNext == CauseInv /\ [LoginNext]_loginVars => CauseInv'
<1> SUFFICES ASSUME CauseInv, [LoginNext]_loginVars
             PROVE  CauseInv'
  OBVIOUS
<1>0. LoginTypeOK'
  BY LoginNextType DEF CauseInv
<1>1. ASSUME NEW r \in Requests,
             Start(r) \/ (\E e \in Emails : Press(r, e)) \/ OthersAsk(r) \/ ServerGoesOn(r)
      PROVE  CauseInv'
  BY <1>0, <1>1, CauseStart, CausePress, CauseOthers, CauseServer
<1>2. ASSUME NEW r \in Requests, Answer(r)
      PROVE  CauseInv'
  <2>1. UNCHANGED <<request, live, session, lapsed>>
    BY <1>2 DEF Answer
  <2> QED
    BY <1>0, <1>2, <2>1, CauseQuiet
<1>3. ASSUME NEW r \in Requests, Miss(r)
      PROVE  CauseInv'
  <2>1. UNCHANGED <<request, live, session, lapsed, stored>>
    BY <1>3 DEF Miss
  <2>2. \A s \in Requests :
            asked'[s] = asked[s] \/ (asked[s] = "awaited" /\ asked'[s] = "missed")
    BY <1>3 DEF Miss, CauseInv, LoginTypeOK
  <2> QED
    BY <1>0, <2>1, <2>2, CauseQuiet
<1>4. CASE Stop
  <2>1. UNCHANGED <<request, live, session, lapsed, stored>>
    BY <1>4 DEF Stop
  <2>2. \A s \in Requests :
            asked'[s] = asked[s] \/ (asked[s] = "awaited" /\ asked'[s] = "missed")
    BY <1>4 DEF Stop, CauseInv, LoginTypeOK
  <2> QED
    BY <1>0, <2>1, <2>2, CauseQuiet
<1>5. CASE \/ StartSignedOut \/ Logout \/ Back \/ UNCHANGED loginVars
           \/ ExpireReset /\ UNCHANGED appVars
  <2>1. UNCHANGED <<request, live, session, lapsed, asked>>
    BY <1>5 DEF StartSignedOut, Logout, Back, ExpireReset, appVars, loginVars
  <2>2. stored' \in {stored, None, Blank}
    BY <1>5 DEF StartSignedOut, Logout, Back, ExpireReset, appVars, loginVars
  <2> QED
    BY <1>0, <2>1, <2>2, CauseQuiet
<1>6. ASSUME NEW t \in Tokens, Lapse(t)
      PROVE  CauseInv'
  BY <1>0, <1>6, CauseLapse
<1> QED
  BY <1>1, <1>2, <1>3, <1>4, <1>5, <1>6 DEF LoginNext

\* The sign-in at the start of the app is refused for a cause only.
THEOREM LoginRefusedForCause == LoginSpec => []RefusedForCause
<1>1. CauseInv => RefusedForCause
  BY DEF CauseInv
<1> QED
  BY <1>1, CauseInit, CauseNext, PTL DEF LoginSpec

-----------------------------------------------------------------------------
(***************************************************************************)
(* Of all methods of both services those for signing in, refreshing and    *)
(* resetting are open to everyone, and no other (main.go 57-64); what      *)
(* publishes wants an admin; and the deprecated upload by a stream, which  *)
(* the interceptor passes by, turns everyone away (authz.go 34-55,         *)
(* shop.go 104-112).                                                       *)
(***************************************************************************)
THEOREM GatewayDecides ==
  /\ \A method \in Methods : Admitted(method, "none") <=> method \in PublicMethods
  /\ \A method \in PublishingMethods, bearer \in Bearers :
        Admitted(method, bearer) <=> bearer = "admin"
  /\ \A bearer \in Bearers : ~Admitted("UploadAudiobook", bearer)
<1> USE DEF Admitted, Intercepted, VerifyJWT, Role, Roles, Bearers, PublicMethods,
        UserMethods, AdminMethods, PublishingMethods, StreamMethods
<1>1. \A method \in Methods : Admitted(method, "none") <=> method \in PublicMethods
  BY DEF Methods, AuthMethods, AccountMethods, TokenMethods, ResetMethods,
         CatalogMethods, StatusMethods, CartMethods, LibraryMethods
<1>2. ASSUME NEW method \in PublishingMethods, NEW bearer \in Bearers
      PROVE  Admitted(method, bearer) <=> bearer = "admin"
  OBVIOUS
<1>3. ASSUME NEW bearer \in Bearers
      PROVE  ~Admitted("UploadAudiobook", bearer)
  OBVIOUS
<1> QED
  BY <1>1, <1>2, <1>3
=============================================================================
