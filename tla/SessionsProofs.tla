--------------------------- MODULE SessionsProofs ---------------------------
(***************************************************************************)
(* Theorems about accounts and refresh tokens, for any e-mails, tokens and *)
(* requests, wherever requests break off.                                  *)
(***************************************************************************)
EXTENDS Sessions, TLAPS

LEMMA InitType == Init => TypeOK
BY DEF Init, TypeOK, Request, Pending, Answers

\* A request that starts has a well-formed record and changes no other.
LEMMA GoesType ==
    ASSUME TypeOK, NEW r \in Requests, NEW kind, NEW x, NEW owner, NEW pc,
           Goes(r, kind, x, owner, pc),
           [kind |-> kind, on |-> x, owner |-> owner, pc |-> pc, given |-> None] \in Request,
           kind \in {"signup", "google", "signin"} => x \in Emails,
           kind = "refresh" => x \in Tokens,
           pc = "insert" => kind \in {"signup", "google"},
           kind # "none",
           pc \in Pending => owner # None,
           pc = "delete" => kind = "refresh",
           pc = "issue" => kind \notin {"ask", "reset"},
           pc = "grant" => kind = "ask",
           pc \in {"consume", "set"} => kind = "reset",
           account' = account, live' \in [Tokens -> Emails \cup {None}], session' = session,
           granted' = granted
    PROVE  TypeOK'
<1>1. /\ request' \in [Requests -> Request]
      /\ request'[r] = [kind |-> kind, on |-> x, owner |-> owner, pc |-> pc, given |-> None]
      /\ \A s \in Requests \ {r} : request'[s] = request[s]
      /\ granted # r
  BY SessionsAssumption DEF Goes, TypeOK
<1>2. /\ request'[r].kind = kind /\ request'[r].on = x
      /\ request'[r].owner = owner /\ request'[r].pc = pc
  BY <1>1
<1>3. granted' # None => /\ request'[granted'].kind = "ask"
                         /\ request'[granted'].pc = "ok"
                         /\ request'[granted'].owner # None
  BY <1>1 DEF TypeOK
<1> QED
  BY <1>1, <1>2, <1>3 DEF TypeOK

LEMMA IssueType ==
    ASSUME TypeOK, NEW r \in Requests, NEW t \in Tokens, Issue(r, t)
    PROVE  TypeOK'
<1> DEFINE done == [request[r] EXCEPT !.pc = "ok", !.given = t]
<1>1. /\ request[r] \in Request
      /\ request[r].pc = "issue"
      /\ request[r].kind \notin {"none", "ask", "reset"}
      /\ request[r].owner \in Emails
      /\ request[r].kind = "refresh" => request[r].on \in Tokens
      /\ request[r].kind \in {"signup", "google", "signin"} => request[r].on \in Emails
  BY DEF Issue, CreateRefreshToken, TypeOK, Request, Pending
<1>2. /\ done \in Request
      /\ done.kind = request[r].kind /\ done.on = request[r].on
      /\ done.owner = request[r].owner /\ done.pc = "ok"
  BY <1>1 DEF Request, Answers
<1>3. live' \in [Tokens -> Emails \cup {None}]
  BY <1>1 DEF Issue, CreateRefreshToken, TypeOK
<1>4. session' \in [Tokens -> Tokens \cup {None}]
  BY <1>1 DEF Issue, CreateRefreshToken, TypeOK
<1>5. request' = [request EXCEPT ![r] = done] /\ account' = account /\ granted' = granted
  BY DEF Issue, CreateRefreshToken
<1> HIDE DEF done
<1>6. request' \in [Requests -> Request]
  BY <1>2, <1>5 DEF TypeOK
<1>7. request'[r] = done /\ \A s \in Requests \ {r} : request'[s] = request[s]
  BY <1>5 DEF TypeOK
<1> QED
  BY <1>1, <1>2, <1>3, <1>4, <1>5, <1>6, <1>7 DEF TypeOK, Pending

\* A step of a reset changes its own request and nothing that tokens rest on.
ResetStep(r) ==
    \/ \E e \in Emails : RequestPasswordReset(r, e)
    \/ CreateResetToken(r)
    \/ ResetPassword(r)
    \/ ConsumeResetToken(r)
    \/ SetUserPasswordHash(r)

LEMMA ResetStays ==
    ASSUME TypeOK, NEW r \in Requests, ResetStep(r)
    PROVE  /\ request'[r].kind \in {"ask", "reset"}
           /\ \A s \in Requests \ {r} : request'[s] = request[s]
           /\ account' = account /\ live' = live /\ session' = session
<1>1. CASE \E e \in Emails : RequestPasswordReset(r, e)
  BY <1>1 DEF RequestPasswordReset, Goes, TypeOK
<1>2. CASE ResetPassword(r)
  BY <1>2 DEF ResetPassword, Goes, TypeOK
<1>3. CASE CreateResetToken(r) \/ ConsumeResetToken(r) \/ SetUserPasswordHash(r)
  <2>1. PICK pc : request' = [request EXCEPT ![r].pc = pc]
    BY <1>3 DEF CreateResetToken, ConsumeResetToken, SetUserPasswordHash
  <2>2. request[r].kind \in {"ask", "reset"}
    BY <1>3 DEF CreateResetToken, ConsumeResetToken, SetUserPasswordHash, TypeOK
  <2> QED
    BY <1>3, <2>1, <2>2
       DEF CreateResetToken, ConsumeResetToken, SetUserPasswordHash, TypeOK, Request
<1> QED
  BY <1>1, <1>2, <1>3 DEF ResetStep

LEMMA NextType == TypeOK /\ [Next]_authVars => TypeOK'
<1> SUFFICES ASSUME TypeOK, [Next]_authVars
             PROVE  TypeOK'
  OBVIOUS
<1>1. ASSUME NEW r \in Requests, NEW e \in Emails,
             SignUp(r, e) \/ GoogleSignIn(r, e) \/ SignIn(r, e)
      PROVE  TypeOK'
  <2>1. PICK kind \in {"signup", "google", "signin"},
             pc \in {"insert", "issue", "exists", "unauthenticated"} :
                /\ Goes(r, kind, e, e, pc)
                /\ pc = "insert" => kind \in {"signup", "google"}
                /\ UNCHANGED <<account, live, session, granted>>
    BY <1>1 DEF SignUp, GoogleSignIn, SignIn
  <2>2. [kind |-> kind, on |-> e, owner |-> e, pc |-> pc, given |-> None] \in Request
    BY DEF Request, Pending, Answers
  <2>3. e # None
    BY SessionsAssumption
  <2> QED
    BY <2>1, <2>2, <2>3, GoesType DEF TypeOK
<1>2. ASSUME NEW r \in Requests, NEW t \in Tokens, RefreshToken(r, t)
      PROVE  TypeOK'
  <2>1. PICK pc \in {"unauthenticated", "delete"} :
                /\ pc = "delete" => live[t] # None
                /\ Goes(r, "refresh", t, live[t], pc)
                /\ UNCHANGED <<account, live, session, granted>>
    BY <1>2 DEF RefreshToken
  <2>2. [kind |-> "refresh", on |-> t, owner |-> live[t], pc |-> pc, given |-> None]
            \in Request
    BY DEF Request, Pending, Answers, TypeOK
  <2>3. pc \in Pending => live[t] # None
    BY <2>1 DEF Pending
  <2> QED
    BY <2>1, <2>2, <2>3, GoesType DEF TypeOK
<1>3. ASSUME NEW r \in Requests, NEW t \in Tokens, RevokeToken(r, t)
      PROVE  TypeOK'
  <2>1. /\ Goes(r, "revoke", t, None, "ok")
        /\ UNCHANGED <<account, session, granted>>
        /\ live' \in [Tokens -> Emails \cup {None}]
    BY <1>3 DEF RevokeToken, DeleteRefreshToken, TypeOK
  <2>2. [kind |-> "revoke", on |-> t, owner |-> None, pc |-> "ok", given |-> None] \in Request
    BY DEF Request, Pending, Answers
  <2> QED
    BY <2>1, <2>2, GoesType DEF Pending
<1>a. ASSUME NEW r \in Requests, NEW e \in Emails, RequestPasswordReset(r, e)
      PROVE  TypeOK'
  <2>1. PICK pc \in {"grant", "ok"} :
                /\ Goes(r, "ask", e, e, pc)
                /\ UNCHANGED <<account, live, session, granted>>
    BY <1>a DEF RequestPasswordReset
  <2>2. [kind |-> "ask", on |-> e, owner |-> e, pc |-> pc, given |-> None] \in Request
    BY DEF Request, Pending, Answers
  <2>3. e # None
    BY SessionsAssumption
  <2> QED
    BY <2>1, <2>2, <2>3, GoesType DEF TypeOK
<1>b. ASSUME NEW r \in Requests, ResetPassword(r)
      PROVE  TypeOK'
  <2>1. CASE Goes(r, "reset", None, None, "denied")
    <3>1. [kind |-> "reset", on |-> None, owner |-> None, pc |-> "denied", given |-> None]
              \in Request
      BY DEF Request, Pending, Answers
    <3> QED
      BY <1>b, <2>1, <3>1, GoesType DEF ResetPassword, TypeOK, Pending
  <2>2. CASE /\ granted # None
             /\ Goes(r, "reset", granted, request[granted].owner, "consume")
    <3>1. /\ granted \in Requests
          /\ request[granted].owner \in Emails
      BY <2>2 DEF TypeOK, Request
    <3>2. [kind |-> "reset", on |-> granted, owner |-> request[granted].owner,
           pc |-> "consume", given |-> None] \in Request
      BY <3>1 DEF Request, Pending, Answers
    <3>3. request[granted].owner # None
      BY <3>1, SessionsAssumption
    <3> QED
      BY <1>b, <2>2, <3>2, <3>3, GoesType DEF ResetPassword, TypeOK
  <2> QED
    BY <1>b, <2>1, <2>2 DEF ResetPassword
<1> USE DEF TypeOK, Request, Pending, Answers
<1>4. ASSUME NEW r \in Requests, Insert(r)
      PROVE  TypeOK'
  BY <1>4 DEF Insert, CreateUser, Providers
<1>5. ASSUME NEW r \in Requests, Delete(r)
      PROVE  TypeOK'
  BY <1>5 DEF Delete, DeleteRefreshToken
<1>6. ASSUME NEW r \in Requests, NEW t \in Tokens, Issue(r, t)
      PROVE  TypeOK'
  BY <1>6, IssueType
<1>7. ASSUME NEW r \in Requests, Fail(r)
      PROVE  TypeOK'
  <2>1. PICK pc \in {"ok", "internal"} :
                /\ request' = [request EXCEPT ![r].pc = pc]
                /\ pc = "ok" => request[r].kind = "ask"
    BY <1>7 DEF Fail
  <2>2. r # granted
    BY <1>7, SessionsAssumption DEF Fail, Running
  <2>3. /\ request'[r].kind = request[r].kind /\ request'[r].on = request[r].on
        /\ request'[r].owner = request[r].owner /\ request'[r].pc = pc
        /\ \A s \in Requests \ {r} : request'[s] = request[s]
        /\ request' \in [Requests -> Request]
        /\ UNCHANGED <<account, live, session, granted>>
    BY <1>7, <2>1 DEF Fail
  <2>4. granted # None => request'[granted] = request[granted]
    BY <2>2, <2>3
  <2> QED
    BY <1>7, <2>1, <2>3, <2>4 DEF Fail, Running
<1>8. ASSUME NEW t \in Tokens, Expire(t)
      PROVE  TypeOK'
  BY <1>8 DEF Expire
<1>c. ASSUME NEW r \in Requests, CreateResetToken(r)
      PROVE  TypeOK'
  BY <1>c DEF CreateResetToken
<1>d. ASSUME NEW r \in Requests, ConsumeResetToken(r)
      PROVE  TypeOK'
  BY <1>d DEF ConsumeResetToken
<1>e. ASSUME NEW r \in Requests, SetUserPasswordHash(r)
      PROVE  TypeOK'
  BY <1>e DEF SetUserPasswordHash
<1>f. CASE ExpireReset
  BY <1>f DEF ExpireReset
<1>9. CASE UNCHANGED authVars
  BY <1>9 DEF authVars
<1> QED
  BY <1>1, <1>2, <1>3, <1>4, <1>5, <1>6, <1>7, <1>8, <1>9,
     <1>a, <1>b, <1>c, <1>d, <1>e, <1>f DEF Next

\* Accounts, tokens and requests keep their types in every step.
THEOREM SessionsTypes == Spec => []TypeOK
BY InitType, NextType, PTL DEF Spec

-----------------------------------------------------------------------------
\* r is the sign-up that has made the account of e.
Made(r, e) ==
    /\ request[r].kind = "signup"
    /\ request[r].on = e
    /\ request[r].pc \in {"issue", "ok"}

SignUpInv ==
    /\ TypeOK
    /\ \A r \in Requests, e \in Emails : Made(r, e) => account[e] # "none"
    /\ \A r, s \in Requests, e \in Emails : Made(r, e) /\ Made(s, e) => r = s

LEMMA SignUpInit == Init => SignUpInv
BY InitType DEF Init, SignUpInv, Made

\* A step after which no more sign-ups have made an account than before.
LEMMA MadeNoMore ==
    ASSUME SignUpInv, TypeOK', UNCHANGED account,
           \A s \in Requests, e \in Emails : Made(s, e)' => Made(s, e)
    PROVE  SignUpInv'
BY DEF SignUpInv

LEMMA SignUpNext == SignUpInv /\ [Next]_authVars => SignUpInv'
<1> SUFFICES ASSUME SignUpInv, [Next]_authVars
             PROVE  SignUpInv'
  OBVIOUS
<1>0. TypeOK /\ TypeOK'
  BY NextType DEF SignUpInv
<1> USE <1>0 DEF TypeOK, Pending
<1>1. ASSUME NEW r \in Requests, NEW x, NEW kind, NEW owner, NEW pc,
             Goes(r, kind, x, owner, pc), UNCHANGED account,
             kind = "signup" => pc \notin {"issue", "ok"}
      PROVE  SignUpInv'
  <2>1. /\ request'[r].kind = kind /\ request'[r].pc = pc
        /\ \A s \in Requests \ {r} : request'[s] = request[s]
    BY <1>1 DEF Goes
  <2> QED
    BY <1>1, <2>1, MadeNoMore DEF Made
<1>2. ASSUME NEW r \in Requests, NEW e \in Emails,
             SignUp(r, e) \/ GoogleSignIn(r, e) \/ SignIn(r, e)
      PROVE  SignUpInv'
  BY <1>1, <1>2 DEF SignUp, GoogleSignIn, SignIn
<1>3. ASSUME NEW r \in Requests, NEW t \in Tokens,
             RefreshToken(r, t) \/ RevokeToken(r, t)
      PROVE  SignUpInv'
  BY <1>1, <1>3 DEF RefreshToken, RevokeToken, DeleteRefreshToken
<1>4. ASSUME NEW r \in Requests, Insert(r)
      PROVE  SignUpInv'
  <2> DEFINE e == request[r].on
  <2>1. /\ request'[r].on = e /\ request'[r].kind = request[r].kind
        /\ \A s \in Requests \ {r} : request'[s] = request[s]
        /\ e \in Emails
    BY <1>4 DEF Insert, CreateUser, Providers, Request
  <2>2. CASE account[e] # "none"
    <3>1. account' = account /\ request'[r].pc = "internal"
      BY <1>4, <2>2 DEF Insert, CreateUser, Providers, Request
    <3> QED
      BY <2>1, <3>1, MadeNoMore DEF Made
  <2>3. CASE account[e] = "none"
    <3>1. account'[e] # "none" /\ \A f \in Emails \ {e} : account'[f] = account[f]
      BY <1>4, <2>1, <2>3 DEF Insert, CreateUser, Providers
    <3>2. \A s \in Requests : ~Made(s, e)
      BY <2>1, <2>3 DEF SignUpInv
    <3>3. \A s \in Requests, f \in Emails : Made(s, f)' => Made(s, f) \/ (s = r /\ f = e)
      BY <2>1 DEF Made
    <3> QED
      BY <2>1, <3>1, <3>2, <3>3 DEF SignUpInv
  <2> QED
    BY <2>2, <2>3
<1>5. ASSUME NEW r \in Requests, NEW t \in Tokens, Issue(r, t)
      PROVE  SignUpInv'
  <2>1. /\ request'[r].on = request[r].on /\ request'[r].kind = request[r].kind
        /\ \A s \in Requests \ {r} : request'[s] = request[s]
        /\ account' = account
        /\ request[r].pc = "issue"
    BY <1>5 DEF Issue, CreateRefreshToken, Request
  <2> QED
    BY <2>1, MadeNoMore DEF Made
<1>6. CASE UNCHANGED <<account, request>>
  BY <1>6, MadeNoMore DEF Made
<1>7. ASSUME NEW r \in Requests, Delete(r) \/ Fail(r)
      PROVE  SignUpInv'
  <2>1. /\ request'[r].kind = request[r].kind
        /\ \A s \in Requests \ {r} : request'[s] = request[s]
        /\ account' = account
        /\ request'[r].pc \in {"issue", "ok"} => request[r].kind \in {"refresh", "ask"}
    <3>1. CASE Delete(r)
      BY <3>1 DEF Delete, DeleteRefreshToken, Request
    <3>2. CASE Fail(r)
      BY <3>2 DEF Fail, Request
    <3> QED
      BY <1>7, <3>1, <3>2
  <2> QED
    BY <2>1, MadeNoMore DEF Made
<1>8. ASSUME NEW r \in Requests, ResetStep(r)
      PROVE  SignUpInv'
  BY <1>0, <1>8, ResetStays, MadeNoMore DEF Made
<1> QED
  BY <1>2, <1>3, <1>4, <1>5, <1>6, <1>7, <1>8
     DEF Next, ResetStep, Expire, ExpireReset, authVars

\* Of the sign-ups with one e-mail one succeeds at most, in any interleaving.
THEOREM OnlyOneSignsUp == Spec => []OneSignUp
<1>1. Init => SignUpInv
  BY SignUpInit
<1>2. SignUpInv /\ [Next]_authVars => SignUpInv'
  BY SignUpNext
<1>3. SignUpInv => OneSignUp
  BY DEF SignUpInv, OneSignUp, Made, TypeOK, Request
<1> QED
  BY <1>1, <1>2, <1>3, PTL DEF Spec

-----------------------------------------------------------------------------
(* What a token stands for, however requests about it overlap: the owner a *)
(* refresh has found signed in at the start of the session it goes on      *)
(* with, whether the token it was found by still works or not.             *)

\* r has found the owner of its token, and no new token is answered yet.
Exchanging(r) ==
    /\ request[r].kind = "refresh"
    /\ request[r].pc \in {"delete", "issue"}

WorkInv ==
    /\ TypeOK
    /\ WorksForItsUser
    /\ \A r \in Requests :
          Exchanging(r) => /\ session[request[r].on] \in Tokens
                           /\ SignedIn(session[request[r].on], request[r].owner)
    /\ \A r \in Requests : request[r].kind = "revoke" => request[r].pc \notin Pending

LEMMA WorkInit == Init => WorkInv
<1> SUFFICES ASSUME Init
             PROVE  WorkInv
  OBVIOUS
<1>1. \A r \in Requests : request[r].kind = "none"
  BY DEF Init
<1>2. \A t \in Tokens : live[t] = None
  BY DEF Init
<1> QED
  BY <1>1, <1>2, InitType DEF WorkInv, WorksForItsUser, Exchanging

\* A step that makes no token and answers none.
LEMMA WorkQuiet ==
    ASSUME WorkInv, TypeOK', session' = session,
           \A t \in Tokens : live'[t] \in {live[t], None},
           \A r \in Requests :
              \/ request'[r] = request[r]
              \/ /\ request[r].pc # "ok"
                 /\ Exchanging(r)' =>
                       /\ session[request'[r].on] \in Tokens
                       /\ SignedIn(session[request'[r].on], request'[r].owner)
                 /\ request'[r].kind = "revoke" => request'[r].pc \notin Pending
    PROVE  WorkInv'
<1>1. \A r \in Requests : request'[r] = request[r] \/ request[r].pc # "ok"
  OBVIOUS
<1>2. ASSUME NEW t \in Tokens
      PROVE  (live[t] # None => session[t] \in Tokens /\ SignedIn(session[t], live[t]))'
  <2> SUFFICES ASSUME live'[t] # None
               PROVE  (session[t] \in Tokens /\ SignedIn(session[t], live[t]))'
    OBVIOUS
  <2>1. live'[t] = live[t] /\ session[t] \in Tokens /\ SignedIn(session[t], live[t])
    BY DEF WorkInv, WorksForItsUser
  <2>2. SignedIn(session[t], live[t]) =>
            \E s \in Requests : /\ request'[s].kind \in {"signup", "google", "signin"}
                                /\ request'[s].pc = "ok"
                                /\ request'[s].given = session[t]
                                /\ request'[s].owner = live[t]
    BY <1>1 DEF SignedIn
  <2> QED
    BY <2>1, <2>2 DEF SignedIn
<1>3. ASSUME NEW r \in Requests
      PROVE  (Exchanging(r) => /\ session[request[r].on] \in Tokens
                               /\ SignedIn(session[request[r].on], request[r].owner))'
  <2> SUFFICES ASSUME Exchanging(r)'
               PROVE  (/\ session[request[r].on] \in Tokens
                       /\ SignedIn(session[request[r].on], request[r].owner))'
    OBVIOUS
  <2> DEFINE s == session[request'[r].on]
             e == request'[r].owner
  <2>1. s \in Tokens /\ SignedIn(s, e)
    BY DEF WorkInv, Exchanging
  <2>2. \E q \in Requests : /\ request'[q].kind \in {"signup", "google", "signin"}
                            /\ request'[q].pc = "ok"
                            /\ request'[q].given = s
                            /\ request'[q].owner = e
    BY <1>1, <2>1 DEF SignedIn
  <2> QED
    BY <2>1, <2>2 DEF SignedIn
<1>4. \A r \in Requests : request'[r].kind = "revoke" => request'[r].pc \notin Pending
  BY DEF WorkInv
<1> QED
  BY <1>2, <1>3, <1>4 DEF WorkInv, WorksForItsUser

LEMMA WorkIssue ==
    ASSUME WorkInv, TypeOK', NEW q \in Requests, NEW n \in Tokens, Issue(q, n)
    PROVE  WorkInv'
<1> DEFINE e == request[q].owner
           first == IF request[q].kind = "refresh" THEN session[request[q].on] ELSE n
<1>1. /\ request[q] \in Request /\ request[q].pc = "issue"
      /\ e \in Emails /\ n \notin Issued
  BY DEF Issue, CreateRefreshToken, WorkInv, TypeOK, Request, Pending
<1>2. /\ request'[q].pc = "ok" /\ request'[q].given = n /\ request'[q].owner = e
      /\ request'[q].kind = request[q].kind
      /\ \A r \in Requests \ {q} : request'[r] = request[r]
  <2>1. request' = [request EXCEPT ![q].pc = "ok", ![q].given = n]
    BY DEF Issue, CreateRefreshToken
  <2> QED
    BY <1>1, <2>1 DEF WorkInv, TypeOK, Request
<1>3. /\ live'[n] = e /\ session'[n] = first
      /\ \A t \in Tokens \ {n} : live'[t] = live[t] /\ session'[t] = session[t]
  BY DEF Issue, CreateRefreshToken, WorkInv, TypeOK
<1>4. ASSUME NEW t, NEW u, SignedIn(t, u)
      PROVE  \E s \in Requests : /\ request'[s].kind \in {"signup", "google", "signin"}
                                 /\ request'[s].pc = "ok"
                                 /\ request'[s].given = t
                                 /\ request'[s].owner = u
  BY <1>1, <1>2, <1>4 DEF SignedIn
<1>5. first \in Tokens /\ \E s \in Requests :
                              /\ request'[s].kind \in {"signup", "google", "signin"}
                              /\ request'[s].pc = "ok"
                              /\ request'[s].given = first
                              /\ request'[s].owner = e
  <2>1. CASE request[q].kind = "refresh"
    BY <1>1, <1>4, <2>1 DEF WorkInv, Exchanging
  <2>2. CASE request[q].kind # "refresh"
    <3>1. request[q].kind \in {"signup", "google", "signin"}
      BY <1>1, <2>2 DEF WorkInv, TypeOK, Request, Pending
    <3> QED
      BY <1>2, <2>2, <3>1
  <2> QED
    BY <2>1, <2>2
<1>6. ASSUME NEW t \in Tokens
      PROVE  (live[t] # None => session[t] \in Tokens /\ SignedIn(session[t], live[t]))'
  <2>1. CASE t = n
    BY <1>3, <1>5, <2>1 DEF SignedIn
  <2>2. CASE t # n
    <3> SUFFICES ASSUME live'[t] # None
                 PROVE  (session[t] \in Tokens /\ SignedIn(session[t], live[t]))'
      OBVIOUS
    <3>1. /\ live'[t] = live[t] /\ session'[t] = session[t]
          /\ session[t] \in Tokens /\ SignedIn(session[t], live[t])
      BY <1>3, <2>2 DEF WorkInv, WorksForItsUser
    <3> QED
      BY <1>4, <3>1 DEF SignedIn
  <2> QED
    BY <2>1, <2>2
<1>7. ASSUME NEW r \in Requests
      PROVE  (Exchanging(r) => /\ session[request[r].on] \in Tokens
                               /\ SignedIn(session[request[r].on], request[r].owner))'
  <2> SUFFICES ASSUME Exchanging(r)'
               PROVE  (/\ session[request[r].on] \in Tokens
                       /\ SignedIn(session[request[r].on], request[r].owner))'
    OBVIOUS
  <2>1. r # q /\ request'[r] = request[r] /\ Exchanging(r)
    BY <1>2 DEF Exchanging
  <2>2. /\ session[request[r].on] \in Tokens /\ request[r].on \in Tokens
        /\ SignedIn(session[request[r].on], request[r].owner)
    BY <2>1 DEF WorkInv, TypeOK, Exchanging
  <2>3. session'[request[r].on] = session[request[r].on]
    BY <1>1, <1>3, <2>2, SessionsAssumption DEF Issued
  <2> QED
    BY <1>4, <2>1, <2>2, <2>3 DEF SignedIn
<1>8. \A r \in Requests : request'[r].kind = "revoke" => request'[r].pc \notin Pending
  BY <1>2 DEF WorkInv, Pending
<1> QED
  BY <1>6, <1>7, <1>8 DEF WorkInv, WorksForItsUser

LEMMA WorkNext == WorkInv /\ [Next]_authVars => WorkInv'
<1> SUFFICES ASSUME WorkInv, [Next]_authVars
             PROVE  WorkInv'
  OBVIOUS
<1>0. TypeOK /\ TypeOK'
  BY NextType DEF WorkInv
<1>1. ASSUME NEW r \in Requests, NEW e \in Emails,
             SignUp(r, e) \/ GoogleSignIn(r, e) \/ SignIn(r, e)
      PROVE  WorkInv'
  <2>1. /\ request[r].pc = "idle" /\ request'[r].kind \in {"signup", "google", "signin"}
        /\ \A s \in Requests \ {r} : request'[s] = request[s]
        /\ live' = live /\ session' = session
    BY <1>0, <1>1 DEF SignUp, GoogleSignIn, SignIn, Goes, TypeOK
  <2> QED
    BY <1>0, <2>1, WorkQuiet DEF Exchanging
<1>2. ASSUME NEW r \in Requests, ResetStep(r)
      PROVE  WorkInv'
  <2>1. request[r].pc # "ok"
    BY <1>2 DEF ResetStep, RequestPasswordReset, ResetPassword, CreateResetToken,
                ConsumeResetToken, SetUserPasswordHash, Goes
  <2> QED
    BY <1>0, <1>2, <2>1, ResetStays, WorkQuiet DEF Exchanging
<1>3. ASSUME NEW r \in Requests, NEW t \in Tokens, RefreshToken(r, t)
      PROVE  WorkInv'
  <2>1. /\ request[r].pc = "idle"
        /\ request'[r].kind = "refresh" /\ request'[r].on = t
        /\ request'[r].owner = live[t]
        /\ request'[r].pc = "delete" => live[t] # None
        /\ request'[r].pc # "issue"
        /\ \A s \in Requests \ {r} : request'[s] = request[s]
        /\ live' = live /\ session' = session
    BY <1>0, <1>3 DEF RefreshToken, Goes, TypeOK
  <2>2. Exchanging(r)' => /\ session[request'[r].on] \in Tokens
                          /\ SignedIn(session[request'[r].on], request'[r].owner)
    BY <2>1 DEF Exchanging, WorkInv, WorksForItsUser
  <2> QED
    BY <1>0, <2>1, <2>2, WorkQuiet
<1>4. ASSUME NEW r \in Requests, NEW t \in Tokens, RevokeToken(r, t)
      PROVE  WorkInv'
  <2>1. /\ request[r].pc = "idle"
        /\ request'[r].kind = "revoke" /\ request'[r].pc = "ok"
        /\ \A s \in Requests \ {r} : request'[s] = request[s]
        /\ \A s \in Tokens : live'[s] \in {live[s], None}
        /\ session' = session
    BY <1>0, <1>4 DEF RevokeToken, DeleteRefreshToken, Goes, TypeOK
  <2> QED
    BY <1>0, <2>1, WorkQuiet DEF Exchanging, Pending
<1>5. ASSUME NEW r \in Requests, Insert(r) \/ Delete(r) \/ Fail(r)
      PROVE  WorkInv'
  <2>1. PICK pc : request' = [request EXCEPT ![r].pc = pc]
    BY <1>5 DEF Insert, Delete, Fail
  <2>2. /\ request'[r].kind = request[r].kind /\ request'[r].on = request[r].on
        /\ request'[r].owner = request[r].owner /\ request'[r].pc = pc
        /\ \A s \in Requests \ {r} : request'[s] = request[s]
    BY <1>0, <2>1 DEF TypeOK, Request
  <2>3. /\ request[r].pc \in Pending
        /\ \A s \in Tokens : live'[s] \in {live[s], None}
        /\ session' = session
    BY <1>0, <1>5 DEF Insert, CreateUser, Delete, DeleteRefreshToken, Fail, Running,
                      Pending, TypeOK
  <2>4. Exchanging(r)' => Exchanging(r)
    <3>1. CASE Insert(r)
      <4>1. request[r].kind # "refresh"
        BY <1>0, <3>1 DEF Insert, TypeOK
      <4> QED
        BY <2>2, <4>1 DEF Exchanging
    <3>2. CASE Delete(r)
      <4>1. request[r].pc = "delete"
        BY <3>2 DEF Delete
      <4> QED
        BY <2>2, <4>1 DEF Exchanging
    <3>3. CASE Fail(r)
      <4>1. request'[r].pc \in {"ok", "internal"}
        BY <1>0, <3>3 DEF Fail, TypeOK, Request
      <4> QED
        BY <4>1 DEF Exchanging
    <3> QED
      BY <1>5, <3>1, <3>2, <3>3
  <2> QED
    BY <1>0, <2>2, <2>3, <2>4, WorkQuiet DEF WorkInv, Pending
<1>6. ASSUME NEW r \in Requests, NEW t \in Tokens, Issue(r, t)
      PROVE  WorkInv'
  BY <1>0, <1>6, WorkIssue
<1>7. ASSUME NEW t \in Tokens, Expire(t)
      PROVE  WorkInv'
  <2>1. /\ request' = request /\ session' = session
        /\ \A s \in Tokens : live'[s] \in {live[s], None}
    BY <1>0, <1>7 DEF Expire, TypeOK
  <2> QED
    BY <1>0, <2>1, WorkQuiet
<1>8. CASE ExpireReset \/ UNCHANGED authVars
  <2>1. request' = request /\ session' = session /\ live' = live
    BY <1>8 DEF ExpireReset, authVars
  <2> QED
    BY <1>0, <2>1, WorkQuiet
<1> QED
  BY <1>1, <1>2, <1>3, <1>4, <1>5, <1>6, <1>7, <1>8 DEF Next, ResetStep

\* A token that works belongs to the user whose sign-in began its session, even
\* when requests about one token overlap.
THEOREM TokensWorkForTheirUsers == Spec => []WorksForItsUser
<1>1. Init => WorkInv
  BY WorkInit
<1>2. WorkInv /\ [Next]_authVars => WorkInv'
  BY WorkNext
<1>3. WorkInv => WorksForItsUser
  BY DEF WorkInv
<1> QED
  BY <1>1, <1>2, <1>3, PTL DEF Spec

-----------------------------------------------------------------------------
(* What holds a session together when requests about one token run one     *)
(* after the other: a session is held by one token, which is live or about *)
(* to be exchanged by the one request that found it.                       *)

Refreshing(r, t) ==
    request[r].kind = "refresh" /\ request[r].on = t /\ Running(r)

Holds(t) == live[t] # None \/ \E r \in Requests : Refreshing(r, t)

OneHolder ==
    \A t, n \in Tokens : Holds(t) /\ Holds(n) /\ session[t] = session[n] => t = n

OneRefresh ==
    \A r, s \in Requests, t \in Tokens : Refreshing(r, t) /\ Refreshing(s, t) => r = s

\* Before the new token is made the old one is gone.
Dropped ==
    \A r \in Requests, t \in Tokens :
        Refreshing(r, t) /\ request[r].pc = "issue" => live[t] = None

\* A token that was exchanged is not live nor about to be exchanged.
Spent ==
    \A r \in Requests, t \in Tokens :
        request[r].kind = "refresh" /\ request[r].on = t /\ request[r].pc = "ok" => ~Holds(t)

\* Tokens in use were issued, and so was the first of their session.
Known ==
    /\ \A t \in Tokens : live[t] # None => t \in Issued
    /\ \A r \in Requests : request[r].kind = "refresh" => request[r].on \in Issued
    /\ \A t \in Issued : session[t] \in Issued

ChainInv ==
    TypeOK /\ OneHolder /\ OneRefresh /\ Dropped /\ Spent /\ Known /\ ExchangedOnce

LEMMA ChainInit == Init => ChainInv
BY InitType DEF Init, ChainInv, OneHolder, OneRefresh, Dropped, Spent, Known, Holds,
                Refreshing, Running, Issued, Pending, ExchangedOnce

\* A step that makes no token live, moves no refresh on and starts none.
LEMMA ChainQuiet ==
    ASSUME ChainInv, TypeOK', session' = session,
           \A t \in Tokens : live'[t] \in {live[t], None},
           \A r \in Requests : \/ request'[r] = request[r]
                               \/ request'[r].kind # "refresh"
                               \/ /\ request'[r].pc \in {"unauthenticated", "internal"}
                                  /\ request'[r].on \in Issued
    PROVE  ChainInv'
<1>1. \A r \in Requests, t \in Tokens : Refreshing(r, t)' => request'[r] = request[r]
  BY DEF Refreshing, Running, Pending
<1>2. \A r \in Requests, t \in Tokens : Refreshing(r, t)' => Refreshing(r, t)
  BY <1>1 DEF Refreshing, Running
<1>3. \A t \in Tokens : Holds(t)' => Holds(t)
  BY <1>2 DEF Holds
<1>4. OneHolder' /\ OneRefresh'
  BY <1>2, <1>3 DEF ChainInv, OneHolder, OneRefresh
<1>5. Dropped'
  BY <1>1, <1>2 DEF ChainInv, Dropped
<1>6. Spent'
  <2> SUFFICES ASSUME NEW r \in Requests, NEW t \in Tokens, request'[r].kind = "refresh",
                      request'[r].on = t, request'[r].pc = "ok"
               PROVE  ~Holds(t)'
    BY DEF Spent
  <2> QED
    BY <1>3 DEF ChainInv, Spent
<1>7. Known'
  BY DEF ChainInv, Known, Issued
<1>8. ExchangedOnce'
  BY DEF ChainInv, ExchangedOnce
<1> QED
  BY <1>4, <1>5, <1>6, <1>7, <1>8 DEF ChainInv

LEMMA ChainRefresh ==
    ASSUME ~Overlaps, ChainInv, TypeOK', NEW r \in Requests, NEW t \in Tokens,
           RefreshToken(r, t), live[t] # None
    PROVE  ChainInv'
<1>1. /\ request'[r].kind = "refresh" /\ request'[r].on = t /\ request'[r].pc = "delete"
      /\ \A s \in Requests \ {r} : request'[s] = request[s]
      /\ live' = live /\ session' = session
      /\ \A s \in Requests : Running(s) => request[s].on # t
      /\ t \in Issued
  BY DEF RefreshToken, MayUse, Goes, ChainInv, TypeOK
<1>2. /\ \A s \in Requests, n \in Tokens :
            Refreshing(s, n)' <=> (s = r /\ n = t) \/ (s # r /\ Refreshing(s, n))
      /\ \A s \in Requests : ~Refreshing(s, t)
  BY <1>1 DEF Refreshing, Running, Pending
<1>3. \A n \in Tokens : Holds(n)' => Holds(n)
  BY <1>1, <1>2 DEF Holds
<1>4. OneHolder' /\ OneRefresh'
  BY <1>1, <1>2, <1>3 DEF ChainInv, OneHolder, OneRefresh
<1>5. Dropped'
  BY <1>1, <1>2 DEF ChainInv, Dropped
<1>6. Spent'
  BY <1>1, <1>3 DEF ChainInv, Spent
<1>7. Known'
  BY <1>1 DEF ChainInv, Known, Issued
<1>8. ExchangedOnce'
  BY <1>1 DEF ChainInv, ExchangedOnce
<1> QED
  BY <1>4, <1>5, <1>6, <1>7, <1>8 DEF ChainInv

LEMMA ChainDelete ==
    ASSUME ChainInv, TypeOK', NEW r \in Requests, Delete(r)
    PROVE  ChainInv'
<1> DEFINE t == request[r].on
<1>1. t \in Tokens /\ Refreshing(r, t)
  BY DEF Delete, DeleteRefreshToken, ChainInv, TypeOK, Refreshing, Running, Pending
<1>2. /\ request'[r].kind = "refresh" /\ request'[r].on = t /\ request'[r].pc = "issue"
      /\ \A s \in Requests \ {r} : request'[s] = request[s]
      /\ live'[t] = None /\ \A n \in Tokens \ {t} : live'[n] = live[n]
      /\ session' = session
  BY <1>1 DEF Delete, DeleteRefreshToken, ChainInv, TypeOK, Request, Refreshing
<1>3. \A s \in Requests, n \in Tokens : Refreshing(s, n)' <=> Refreshing(s, n)
  BY <1>1, <1>2 DEF Refreshing, Running, Pending
<1>4. \A n \in Tokens : Holds(n)' => Holds(n)
  BY <1>1, <1>2, <1>3 DEF Holds
<1>5. OneHolder' /\ OneRefresh'
  BY <1>2, <1>3, <1>4 DEF ChainInv, OneHolder, OneRefresh
<1>6. Dropped'
  BY <1>1, <1>2, <1>3 DEF ChainInv, Dropped, Refreshing
<1>7. Spent'
  BY <1>2, <1>4 DEF ChainInv, Spent
<1>8. Known'
  BY <1>1, <1>2 DEF ChainInv, Known, Issued, Refreshing
<1>9. ExchangedOnce'
  BY <1>2 DEF ChainInv, ExchangedOnce
<1> QED
  BY <1>5, <1>6, <1>7, <1>8, <1>9 DEF ChainInv

\* The first token of a new session.
LEMMA ChainBegins ==
    ASSUME ChainInv, TypeOK', NEW r \in Requests, NEW n \in Tokens, Issue(r, n),
           request[r].kind # "refresh"
    PROVE  ChainInv'
<1>1. /\ request'[r].kind # "refresh"
      /\ \A s \in Requests \ {r} : request'[s] = request[s]
      /\ n \notin Issued
      /\ \A t \in Tokens \ {n} : live'[t] = live[t] /\ session'[t] = session[t]
      /\ session'[n] = n
  BY DEF Issue, CreateRefreshToken, ChainInv, TypeOK, Request
<1>2. n # None
  BY SessionsAssumption
<1>3. \A s \in Requests, t \in Tokens : Refreshing(s, t)' => Refreshing(s, t) /\ t # n
  BY <1>1 DEF Refreshing, Running, ChainInv, Known
<1>4. \A t \in Tokens \ {n} : Holds(t)' => Holds(t)
  BY <1>1, <1>3 DEF Holds
<1>5. \A t \in Tokens \ {n} : session'[t] # n
  BY <1>1, <1>2 DEF ChainInv, Known, Issued
<1>6. OneHolder'
  BY <1>1, <1>4, <1>5 DEF ChainInv, OneHolder
<1>7. OneRefresh'
  BY <1>3 DEF ChainInv, OneRefresh
<1>8. Dropped'
  BY <1>1, <1>3 DEF ChainInv, Dropped, Refreshing
<1>9. Spent'
  BY <1>1, <1>4 DEF ChainInv, Spent, Known
<1>10. Known'
  BY <1>1, <1>2 DEF ChainInv, Known, Issued
<1>11. ExchangedOnce'
  BY <1>1 DEF ChainInv, ExchangedOnce
<1> QED
  BY <1>6, <1>7, <1>8, <1>9, <1>10, <1>11 DEF ChainInv

\* The session passes from the old token to the new one.
LEMMA ChainPasses ==
    ASSUME ChainInv, TypeOK', NEW r \in Requests, NEW n \in Tokens, Issue(r, n),
           request[r].kind = "refresh"
    PROVE  ChainInv'
<1> DEFINE t == request[r].on
<1>1. /\ t \in Tokens /\ t \in Issued /\ t # n
      /\ Refreshing(r, t)
      /\ live[t] = None
  BY DEF Issue, CreateRefreshToken, ChainInv, TypeOK, Known, Dropped, Refreshing,
     Running, Pending
<1>2. /\ request'[r].kind = "refresh" /\ request'[r].on = t /\ request'[r].pc = "ok"
      /\ \A s \in Requests \ {r} : request'[s] = request[s]
      /\ n \notin Issued
      /\ \A m \in Tokens \ {n} : live'[m] = live[m] /\ session'[m] = session[m]
      /\ session'[n] = session[t]
  BY DEF Issue, CreateRefreshToken, ChainInv, TypeOK, Request
<1>3. \A s \in Requests, m \in Tokens :
          Refreshing(s, m)' => s # r /\ Refreshing(s, m) /\ m # n /\ m # t
  <2> SUFFICES ASSUME NEW s \in Requests, NEW m \in Tokens, Refreshing(s, m)'
               PROVE  s # r /\ Refreshing(s, m) /\ m # n /\ m # t
    OBVIOUS
  <2>1. s # r /\ Refreshing(s, m)
    BY <1>2 DEF Refreshing, Running, Pending
  <2>2. m # n
    BY <1>2, <2>1 DEF Refreshing, ChainInv, Known
  <2>3. m # t
    BY <1>1, <2>1 DEF ChainInv, OneRefresh
  <2> QED
    BY <2>1, <2>2, <2>3
<1>4. \A m \in Tokens \ {n} : Holds(m)' => Holds(m) /\ m # t
  BY <1>1, <1>2, <1>3 DEF Holds
<1>5. Holds(t)
  BY <1>1 DEF Holds
<1>6. OneHolder'
  <2> SUFFICES ASSUME NEW a \in Tokens, NEW b \in Tokens, Holds(a)', Holds(b)',
                      session'[a] = session'[b], a # b
               PROVE  FALSE
    BY DEF OneHolder
  <2>1. CASE a # n /\ b # n
    BY <1>2, <1>4, <2>1 DEF ChainInv, OneHolder
  <2>2. CASE a = n
    BY <1>1, <1>2, <1>4, <1>5, <2>2 DEF ChainInv, OneHolder
  <2>3. CASE b = n
    BY <1>1, <1>2, <1>4, <1>5, <2>3 DEF ChainInv, OneHolder
  <2> QED
    BY <2>1, <2>2, <2>3
<1>7. OneRefresh'
  BY <1>3 DEF ChainInv, OneRefresh
<1>8. Dropped'
  BY <1>2, <1>3 DEF ChainInv, Dropped
<1>9. Spent'
  <2> SUFFICES ASSUME NEW s \in Requests, NEW m \in Tokens, request'[s].kind = "refresh",
                      request'[s].on = m, request'[s].pc = "ok", Holds(m)'
               PROVE  FALSE
    BY DEF Spent
  <2>1. CASE s = r
    BY <1>1, <1>2, <1>4, <2>1
  <2>2. CASE s # r
    BY <1>2, <1>4, <2>2 DEF ChainInv, Spent, Known
  <2> QED
    BY <2>1, <2>2
<1>10. Known'
  BY <1>1, <1>2 DEF ChainInv, Known, Issued
<1>11. ASSUME NEW s \in Requests \ {r}, request[s].kind = "refresh", request[s].on = t
       PROVE  request[s].pc # "ok"
  BY <1>1, <1>5, <1>11 DEF ChainInv, Spent
<1>12. ExchangedOnce'
  BY <1>2, <1>11 DEF ChainInv, ExchangedOnce
<1> QED
  BY <1>6, <1>7, <1>8, <1>9, <1>10, <1>12 DEF ChainInv

LEMMA ChainNext ==
    ASSUME ~Overlaps
    PROVE  ChainInv /\ [Next]_authVars => ChainInv'
<1> SUFFICES ASSUME ChainInv, [Next]_authVars
             PROVE  ChainInv'
  OBVIOUS
<1>0. TypeOK /\ TypeOK'
  BY NextType DEF ChainInv
<1>1. ASSUME NEW r \in Requests, NEW e \in Emails,
             SignUp(r, e) \/ GoogleSignIn(r, e) \/ SignIn(r, e)
      PROVE  ChainInv'
  <2>1. /\ request'[r].kind # "refresh"
        /\ \A s \in Requests \ {r} : request'[s] = request[s]
        /\ live' = live /\ session' = session
    BY <1>0, <1>1 DEF SignUp, GoogleSignIn, SignIn, Goes, TypeOK
  <2> QED
    BY <1>0, <2>1, ChainQuiet
<1>2. ASSUME NEW r \in Requests, NEW t \in Tokens, RefreshToken(r, t), live[t] = None
      PROVE  ChainInv'
  <2>1. /\ request'[r].pc = "unauthenticated" /\ request'[r].on = t /\ t \in Issued
        /\ \A s \in Requests \ {r} : request'[s] = request[s]
        /\ live' = live /\ session' = session
    BY <1>0, <1>2 DEF RefreshToken, Goes, TypeOK
  <2> QED
    BY <1>0, <2>1, ChainQuiet
<1>3. ASSUME NEW r \in Requests, NEW t \in Tokens, RevokeToken(r, t)
      PROVE  ChainInv'
  <2>1. /\ request'[r].kind # "refresh"
        /\ \A s \in Requests \ {r} : request'[s] = request[s]
        /\ \A n \in Tokens : live'[n] \in {live[n], None}
        /\ session' = session
    BY <1>0, <1>3 DEF RevokeToken, DeleteRefreshToken, Goes, TypeOK
  <2> QED
    BY <1>0, <2>1, ChainQuiet
<1>4. ASSUME NEW r \in Requests, Insert(r)
      PROVE  ChainInv'
  <2>1. /\ request'[r].kind # "refresh"
        /\ \A s \in Requests \ {r} : request'[s] = request[s]
        /\ live' = live /\ session' = session
    BY <1>0, <1>4 DEF Insert, CreateUser, Providers, TypeOK, Request
  <2> QED
    BY <1>0, <2>1, ChainQuiet
<1>5. ASSUME NEW r \in Requests, Fail(r)
      PROVE  ChainInv'
  <2>1. /\ request'[r].pc = "internal" \/ request'[r].kind = "ask"
        /\ request'[r].kind = request[r].kind /\ request'[r].on = request[r].on
        /\ \A s \in Requests \ {r} : request'[s] = request[s]
        /\ live' = live /\ session' = session
    BY <1>0, <1>5 DEF Fail, TypeOK, Request
  <2>2. request'[r].kind = "refresh" => request'[r].on \in Issued
    BY <2>1 DEF ChainInv, Known
  <2> QED
    BY <1>0, <2>1, <2>2, ChainQuiet
<1>6. ASSUME NEW t \in Tokens, Expire(t)
      PROVE  ChainInv'
  <2>1. /\ \A n \in Tokens : live'[n] \in {live[n], None}
        /\ session' = session /\ request' = request
    BY <1>0, <1>6 DEF Expire, TypeOK
  <2> QED
    BY <1>0, <2>1, ChainQuiet
<1>7. CASE UNCHANGED authVars
  <2>1. live' = live /\ session' = session /\ request' = request
    BY <1>7 DEF authVars
  <2> QED
    BY <1>0, <2>1, ChainQuiet
<1>8. ASSUME NEW r \in Requests, ResetStep(r)
      PROVE  ChainInv'
  BY <1>0, <1>8, ResetStays, ChainQuiet
<1>9. CASE ExpireReset
  BY <1>0, <1>9, ChainQuiet DEF ExpireReset
<1> QED
  BY <1>0, <1>1, <1>2, <1>3, <1>4, <1>5, <1>6, <1>7, <1>8, <1>9, ChainRefresh,
     ChainDelete, ChainBegins, ChainPasses DEF Next, ResetStep

\* While requests about one token do not overlap, a session has one live token.
THEOREM SessionsStaySingle ==
    ASSUME ~Overlaps
    PROVE  Spec => []OneLivePerSession
<1>1. Init => ChainInv
  BY ChainInit
<1>2. ChainInv /\ [Next]_authVars => ChainInv'
  BY ChainNext
<1>3. ChainInv => OneLivePerSession
  BY DEF ChainInv, OneHolder, Holds, OneLivePerSession
<1> QED
  BY <1>1, <1>2, <1>3, PTL DEF Spec

\* ... and a token is exchanged once at most.
THEOREM TokensExchangedOnce ==
    ASSUME ~Overlaps
    PROVE  Spec => []ExchangedOnce
<1>1. Init => ChainInv
  BY ChainInit
<1>2. ChainInv /\ [Next]_authVars => ChainInv'
  BY ChainNext
<1>3. ChainInv => ExchangedOnce
  BY DEF ChainInv
<1> QED
  BY <1>1, <1>2, <1>3, PTL DEF Spec

-----------------------------------------------------------------------------
(* A session that is over: whatever makes a token of it holds one already. *)

\* A token is exchanged only while it works or is being exchanged already.
LEMMA ExchangesGoOn ==
    ASSUME TypeOK, TypeOK', [Next]_authVars, NEW t \in Tokens, BeingExchanged(t)'
    PROVE  BeingExchanged(t) \/ live[t] # None
<1>1. PICK s \in Requests : /\ request'[s].kind = "refresh"
                            /\ request'[s].on = t
                            /\ request'[s].pc \in {"delete", "issue"}
  BY DEF BeingExchanged
<1> SUFFICES ASSUME request'[s] # request[s]
             PROVE  BeingExchanged(t) \/ live[t] # None
  BY <1>1 DEF BeingExchanged
<1>2. ASSUME NEW r \in Requests, NEW e \in Emails,
             SignUp(r, e) \/ GoogleSignIn(r, e) \/ SignIn(r, e)
      PROVE  FALSE
  BY <1>1, <1>2 DEF SignUp, GoogleSignIn, SignIn, Goes, TypeOK
<1>3. ASSUME NEW r \in Requests, NEW n \in Tokens, RefreshToken(r, n)
      PROVE  live[t] # None
  BY <1>1, <1>3 DEF RefreshToken, Goes, TypeOK
<1>4. ASSUME NEW r \in Requests, NEW n \in Tokens, RevokeToken(r, n)
      PROVE  FALSE
  BY <1>1, <1>4 DEF RevokeToken, Goes, TypeOK
<1>5. ASSUME NEW r \in Requests, Insert(r)
      PROVE  FALSE
  <2>1. /\ request'[r].kind = request[r].kind /\ request[r].kind # "refresh"
        /\ \A q \in Requests \ {r} : request'[q] = request[q]
    BY <1>5 DEF Insert, TypeOK, Request
  <2> QED
    BY <1>1, <2>1
<1>6. ASSUME NEW r \in Requests, Delete(r)
      PROVE  BeingExchanged(t)
  <2>1. /\ request'[r].kind = request[r].kind /\ request'[r].on = request[r].on
        /\ request[r].pc = "delete"
        /\ \A q \in Requests \ {r} : request'[q] = request[q]
    BY <1>6 DEF Delete, TypeOK, Request
  <2> QED
    BY <1>1, <2>1 DEF BeingExchanged
<1>7. ASSUME NEW r \in Requests, (\E n \in Tokens : Issue(r, n)) \/ Fail(r)
      PROVE  FALSE
  <2>1. /\ request'[r].pc \in {"ok", "internal"}
        /\ \A q \in Requests \ {r} : request'[q] = request[q]
    BY <1>7 DEF Issue, Fail, TypeOK, Request
  <2> QED
    BY <1>1, <2>1
<1>8. ASSUME NEW r \in Requests, ResetStep(r)
      PROVE  FALSE
  BY <1>1, <1>8, ResetStays
<1> QED
  BY <1>2, <1>3, <1>4, <1>5, <1>6, <1>7, <1>8
     DEF Next, ResetStep, Expire, ExpireReset, authVars

\* Every step but an issue leaves the sessions as they are and makes no token live.
LEMMA OnlyIssuesBegin ==
    ASSUME TypeOK, [Next]_authVars,
           ~ \E r \in Requests, n \in Tokens : Issue(r, n)
    PROVE  session' = session /\ \A t \in Tokens : live'[t] \in {live[t], None}
<1>1. ASSUME NEW r \in Requests, ResetStep(r)
      PROVE  session' = session /\ live' = live
  BY <1>1, ResetStays
<1> QED
  BY <1>1 DEF Next, ResetStep, SignUp, GoogleSignIn, SignIn, Insert, RefreshToken,
     RevokeToken, DeleteRefreshToken, Delete, Fail, Expire, ExpireReset, Goes, authVars, TypeOK

LEMMA OverStays ==
    ASSUME TypeOK, TypeOK', [Next]_authVars, NEW s \in Tokens, Over(s)
    PROVE  Over(s)'
<1>1. CASE \E r \in Requests, n \in Tokens : Issue(r, n)
  <2>1. PICK r \in Requests, n \in Tokens : Issue(r, n)
    BY <1>1
  <2>2. /\ n # s
        /\ \A t \in Tokens \ {n} : live'[t] = live[t] /\ session'[t] = session[t]
    BY <2>1 DEF Issue, CreateRefreshToken, Issued, Over, TypeOK
  <2>3. session'[n] # s
    <3>1. CASE request[r].kind = "refresh"
      <4>1. request[r].on \in Tokens /\ BeingExchanged(request[r].on)
        BY <2>1, <3>1 DEF Issue, BeingExchanged, TypeOK
      <4> QED
        BY <2>1, <3>1, <4>1 DEF Issue, Over, TypeOK
    <3>2. CASE request[r].kind # "refresh"
      BY <2>1, <2>2, <3>2 DEF Issue, TypeOK
    <3> QED
      BY <3>1, <3>2
  <2> QED
    BY <2>2, <2>3, ExchangesGoOn DEF Over
<1>2. CASE ~ \E r \in Requests, n \in Tokens : Issue(r, n)
  BY <1>2, OnlyIssuesBegin, ExchangesGoOn DEF Over
<1> QED
  BY <1>1, <1>2

\* The token revoked held its session alone.
LEMMA RevokeEnds ==
    ASSUME ~Overlaps, ChainInv, TypeOK',
           NEW r \in Requests, NEW t \in Tokens, live[t] # None, RevokeToken(r, t)
    PROVE  Over(session[t])'
<1>1. /\ request'[r].kind = "revoke"
      /\ \A q \in Requests \ {r} : request'[q] = request[q]
      /\ live'[t] = None /\ \A n \in Tokens \ {t} : live'[n] = live[n]
      /\ session' = session
      /\ \A q \in Requests : Running(q) => request[q].on # t
  BY DEF RevokeToken, DeleteRefreshToken, MayUse, Goes, ChainInv, TypeOK
<1>2. \A n \in Tokens : session[n] = session[t] /\ Holds(n) => n = t
  BY DEF ChainInv, OneHolder, Holds
<1>3. \A n \in Tokens : BeingExchanged(n)' => Holds(n) /\ n # t
  BY <1>1 DEF BeingExchanged, Holds, Refreshing, Running, Pending
<1>4. \A n \in Tokens : session[n] = session[t] => live'[n] = None /\ ~BeingExchanged(n)'
  BY <1>1, <1>2, <1>3 DEF Holds
<1>5. session[t] \in Issued
  BY DEF ChainInv, Known
<1>6. session'[session[t]] # None
  BY <1>1, <1>5 DEF Issued
<1> QED
  BY <1>1, <1>4, <1>6 DEF Over

\* What the refusals and revocations are for: a session over stays over, and the
\* revocation of a token that works is the end of its session.
THEOREM RevokedIsOver ==
    ASSUME ~Overlaps
    PROVE  Spec => OverIsOver
<1>1. Init => ChainInv
  BY ChainInit
<1>2. ChainInv /\ [Next]_authVars => ChainInv'
  BY ChainNext
<1>3. ChainInv /\ ChainInv' /\ [Next]_authVars
      => [/\ \A s \in Tokens : Over(s) => Over(s)'
          /\ \A t \in Tokens :
                live[t] # None /\ (\E r \in Requests : RevokeToken(r, t))
                => Over(session[t])']_authVars
  BY OverStays, RevokeEnds DEF ChainInv
<1> QED
  BY <1>1, <1>2, <1>3, PTL DEF Spec, OverIsOver

-----------------------------------------------------------------------------
(* A reset has its request for itself once it has committed the deletion   *)
(* of the token: until then the token stands for the request and the row   *)
(* is locked, afterwards no one finds it any more.                         *)

\* r has used up the token made for the request g.
Bought(r, g) ==
    request[r].kind = "reset" /\ request[r].on = g /\ request[r].pc \in {"set", "ok"}

\* r has the row of the token locked.
Locks(r) == request[r].pc = "consume"

OneLock == \A r, s \in Requests : Locks(r) /\ Locks(s) => r = s

LocksGranted == \A r \in Requests : Locks(r) => granted = request[r].on /\ granted # None

\* The token of a request that is granted, or is yet to be, is not used up.
Unused ==
    \A r, g \in Requests :
        Bought(r, g) => /\ granted # g
                        /\ request[g].kind = "ask" /\ request[g].pc = "ok"

OneBuyer == \A r, s, g \in Requests : Bought(r, g) /\ Bought(s, g) => r = s

ResetsOnRequests ==
    \A r \in Requests :
        request[r].kind = "reset" /\ request[r].pc \in {"consume", "set", "ok"}
            => request[r].on \in Requests

ResetInv == TypeOK /\ OneLock /\ LocksGranted /\ Unused /\ OneBuyer /\ ResetsOnRequests

LEMMA ResetInit == Init => ResetInv
BY InitType DEF Init, ResetInv, OneLock, LocksGranted, Unused, OneBuyer,
                ResetsOnRequests, Bought, Locks

\* A step that moves no reset on and keeps the token.
LEMMA ResetQuiet ==
    ASSUME ResetInv, TypeOK', granted' = granted,
           \A s \in Requests : \/ request'[s] = request[s]
                               \/ /\ request'[s].kind # "reset" \/ request'[s].pc \in {"denied", "internal"}
                                  /\ request'[s].pc # "consume"
                                  /\ request[s].kind # "ask" \/ request[s].pc # "ok"
    PROVE  ResetInv'
<1>1. \A r \in Requests : Locks(r)' => Locks(r) /\ request'[r] = request[r]
  BY DEF Locks
<1>2. \A r, g \in Requests : Bought(r, g)' => Bought(r, g) /\ request'[r] = request[r]
  BY DEF Bought
<1>3. \A g \in Requests : request[g].kind = "ask" /\ request[g].pc = "ok" => request'[g] = request[g]
  OBVIOUS
<1>4. OneLock' /\ LocksGranted' /\ OneBuyer'
  BY <1>1, <1>2 DEF ResetInv, OneLock, LocksGranted, OneBuyer
<1>5. Unused'
  BY <1>2, <1>3 DEF ResetInv, Unused
<1>6. ResetsOnRequests'
  BY DEF ResetInv, ResetsOnRequests
<1> QED
  BY <1>4, <1>5, <1>6 DEF ResetInv

LEMMA ResetLocks ==
    ASSUME ResetInv, TypeOK', NEW r \in Requests, granted # None, ~ResetLocked,
           Goes(r, "reset", granted, request[granted].owner, "consume"),
           granted' = granted
    PROVE  ResetInv'
<1>1. /\ request'[r].kind = "reset" /\ request'[r].on = granted
      /\ request'[r].pc = "consume" /\ request[r].pc = "idle"
      /\ \A s \in Requests \ {r} : request'[s] = request[s]
      /\ granted \in Requests
  BY DEF Goes, ResetInv, TypeOK
<1>2. \A s \in Requests : Locks(s)' => s = r
  BY <1>1 DEF Locks, ResetLocked
<1>3. \A s, g \in Requests : Bought(s, g)' => Bought(s, g)
  BY <1>1 DEF Bought
<1>4. OneLock' /\ LocksGranted'
  BY <1>1, <1>2 DEF OneLock, LocksGranted
<1>5. Unused'
  BY <1>1, <1>3 DEF ResetInv, Unused
<1>6. OneBuyer'
  BY <1>3 DEF ResetInv, OneBuyer
<1>7. ResetsOnRequests'
  BY <1>1 DEF ResetInv, ResetsOnRequests
<1> QED
  BY <1>4, <1>5, <1>6, <1>7 DEF ResetInv

LEMMA ResetGrants ==
    ASSUME ResetInv, TypeOK', NEW r \in Requests, CreateResetToken(r)
    PROVE  ResetInv'
<1>1. /\ request'[r].kind = "ask" /\ request'[r].pc = "ok" /\ request[r].pc = "grant"
      /\ \A s \in Requests \ {r} : request'[s] = request[s]
      /\ granted' = r
      /\ \A s \in Requests : ~Locks(s)
  BY DEF CreateResetToken, ResetInv, TypeOK, Request, ResetLocked, Locks
<1>2. \A s \in Requests : ~Locks(s)'
  BY <1>1 DEF Locks
<1>3. \A s, g \in Requests : Bought(s, g)' => Bought(s, g) /\ g # r
  BY <1>1 DEF Bought, ResetInv, Unused
<1>4. OneLock' /\ LocksGranted' /\ OneBuyer'
  BY <1>2, <1>3 DEF ResetInv, OneLock, LocksGranted, OneBuyer
<1>5. Unused'
  BY <1>1, <1>3 DEF ResetInv, Unused
<1>6. ResetsOnRequests'
  BY <1>1 DEF ResetInv, ResetsOnRequests
<1> QED
  BY <1>4, <1>5, <1>6 DEF ResetInv

LEMMA ResetConsumes ==
    ASSUME ResetInv, TypeOK', NEW r \in Requests, ConsumeResetToken(r)
    PROVE  ResetInv'
<1>1. /\ Locks(r) /\ request[r].kind = "reset" /\ request[r].on = granted
      /\ granted \in Requests
  BY DEF ConsumeResetToken, ResetInv, TypeOK, Locks, LocksGranted
<1>2. /\ request'[r].kind = "reset" /\ request'[r].on = granted /\ request'[r].pc = "set"
      /\ \A s \in Requests \ {r} : request'[s] = request[s]
      /\ granted' = None
  BY <1>1 DEF ConsumeResetToken, ResetInv, TypeOK, Request
<1>3. \A s \in Requests : ~Locks(s)'
  BY <1>1, <1>2 DEF Locks, ResetInv, OneLock
<1>4. \A s, g \in Requests :
          Bought(s, g)' => (s = r /\ g = granted) \/ (s # r /\ Bought(s, g) /\ g # granted)
  BY <1>1, <1>2 DEF Bought, ResetInv, Unused
<1>5. OneLock' /\ LocksGranted'
  BY <1>3 DEF OneLock, LocksGranted
<1>6. OneBuyer'
  BY <1>4 DEF ResetInv, OneBuyer
<1>7. Unused'
  <2>1. /\ request[granted].kind = "ask" /\ request[granted].pc = "ok" /\ granted # r
    BY <1>1, SessionsAssumption DEF ResetInv, TypeOK
  <2>2. \A g \in Requests : request[g].kind = "ask" => request'[g] = request[g]
    BY <1>1, <1>2
  <2>3. \A g \in Requests : g # None
    BY SessionsAssumption
  <2> QED
    BY <1>2, <1>4, <2>1, <2>2, <2>3 DEF ResetInv, Unused
<1>8. ResetsOnRequests'
  BY <1>1, <1>2 DEF ResetInv, ResetsOnRequests
<1> QED
  BY <1>5, <1>6, <1>7, <1>8 DEF ResetInv

LEMMA ResetSets ==
    ASSUME ResetInv, TypeOK', NEW r \in Requests, SetUserPasswordHash(r)
    PROVE  ResetInv'
<1>1. /\ request[r].kind = "reset" /\ request[r].pc = "set"
      /\ request'[r].kind = "reset" /\ request'[r].on = request[r].on
      /\ request'[r].pc = "ok"
      /\ \A s \in Requests \ {r} : request'[s] = request[s]
      /\ granted' = granted
  BY DEF SetUserPasswordHash, ResetInv, TypeOK, Request
<1>2. \A s \in Requests : Locks(s)' => Locks(s) /\ s # r
  BY <1>1 DEF Locks
<1>3. \A s, g \in Requests : Bought(s, g)' => Bought(s, g)
  BY <1>1 DEF Bought
<1>4. OneLock' /\ LocksGranted' /\ OneBuyer'
  BY <1>1, <1>2, <1>3 DEF ResetInv, OneLock, LocksGranted, OneBuyer
<1>5. Unused'
  BY <1>1, <1>3 DEF ResetInv, Unused
<1>6. ResetsOnRequests'
  BY <1>1 DEF ResetInv, ResetsOnRequests
<1> QED
  BY <1>4, <1>5, <1>6 DEF ResetInv

LEMMA ResetNext == ResetInv /\ [Next]_authVars => ResetInv'
<1> SUFFICES ASSUME ResetInv, [Next]_authVars
             PROVE  ResetInv'
  OBVIOUS
<1>0. TypeOK /\ TypeOK'
  BY NextType DEF ResetInv
<1>1. ASSUME NEW r \in Requests, NEW kind, NEW x, NEW owner, NEW pc,
             Goes(r, kind, x, owner, pc), granted' = granted,
             kind # "reset" \/ pc = "denied", pc # "consume"
      PROVE  ResetInv'
  <2>1. /\ request'[r].kind = kind /\ request'[r].pc = pc /\ request[r].pc = "idle"
        /\ \A s \in Requests \ {r} : request'[s] = request[s]
    BY <1>0, <1>1 DEF Goes, TypeOK
  <2> QED
    BY <1>0, <1>1, <2>1, ResetQuiet
<1>2. ASSUME NEW r \in Requests, NEW e \in Emails,
             \/ SignUp(r, e) \/ GoogleSignIn(r, e) \/ SignIn(r, e)
             \/ RequestPasswordReset(r, e)
      PROVE  ResetInv'
  BY <1>1, <1>2 DEF SignUp, GoogleSignIn, SignIn, RequestPasswordReset
<1>3. ASSUME NEW r \in Requests, NEW t \in Tokens, RefreshToken(r, t) \/ RevokeToken(r, t)
      PROVE  ResetInv'
  BY <1>1, <1>3 DEF RefreshToken, RevokeToken, DeleteRefreshToken
<1>4. ASSUME NEW r \in Requests,
             Insert(r) \/ Delete(r) \/ \E t \in Tokens : Issue(r, t)
      PROVE  ResetInv'
  <2>1. /\ request[r].pc \in {"insert", "delete", "issue"}
        /\ request'[r].kind = request[r].kind
        /\ request'[r].pc \in {"ok", "issue", "internal"}
        /\ \A s \in Requests \ {r} : request'[s] = request[s]
        /\ granted' = granted
    <3>1. request \in [Requests -> Request]
      BY <1>0 DEF TypeOK
    <3>2. CASE Insert(r) \/ Delete(r)
      <4>1. request[r].pc \in {"insert", "delete"} /\ granted' = granted
        BY <3>2 DEF Insert, Delete
      <4>2. PICK pc \in {"ok", "issue", "internal"} :
                   request' = [request EXCEPT ![r].pc = pc]
        BY <3>2 DEF Insert, Delete
      <4> QED
        BY <3>1, <4>1, <4>2 DEF Request
    <3>3. CASE \E t \in Tokens : Issue(r, t)
      <4>1. request[r].pc = "issue" /\ granted' = granted
        BY <3>3 DEF Issue
      <4>2. PICK t \in Tokens : request' = [request EXCEPT ![r].pc = "ok", ![r].given = t]
        BY <3>3 DEF Issue
      <4> QED
        BY <3>1, <4>1, <4>2 DEF Request
    <3> QED
      BY <1>4, <3>2, <3>3
  <2>2. request[r].kind # "reset"
    BY <1>0, <2>1 DEF TypeOK
  <2> QED
    BY <1>0, <2>1, <2>2, ResetQuiet
<1>5. ASSUME NEW r \in Requests, Fail(r)
      PROVE  ResetInv'
  <2>1. /\ request[r].pc \in Pending
        /\ request'[r].kind = request[r].kind
        /\ request'[r].pc = "internal" \/ (request[r].pc = "grant" /\ request'[r].pc = "ok")
        /\ \A s \in Requests \ {r} : request'[s] = request[s]
        /\ granted' = granted
    BY <1>0, <1>5 DEF Fail, Running, TypeOK, Request
  <2>2. request[r].pc = "grant" => request[r].kind = "ask"
    BY <1>0 DEF TypeOK
  <2> QED
    BY <1>0, <2>1, <2>2, ResetQuiet DEF Pending
<1>6. ASSUME NEW r \in Requests, ResetPassword(r)
      PROVE  ResetInv'
  BY <1>0, <1>1, <1>6, ResetLocks DEF ResetPassword
<1>7. CASE ExpireReset
  <2>1. /\ granted' = None /\ request' = request
        /\ \A s \in Requests : ~Locks(s)
    BY <1>7 DEF ExpireReset, ResetLocked, Locks
  <2>2. \A s \in Requests : s # None
    BY SessionsAssumption
  <2> QED
    BY <1>0, <2>1, <2>2 DEF ResetInv, OneLock, LocksGranted, Unused, OneBuyer,
                            ResetsOnRequests, Locks, Bought
<1>8. CASE UNCHANGED <<request, granted>>
  BY <1>0, <1>8, ResetQuiet
<1> QED
  BY <1>0, <1>2, <1>3, <1>4, <1>5, <1>6, <1>7, <1>8, ResetGrants, ResetConsumes, ResetSets
     DEF Next, Expire, authVars

\* A request for a reset buys one new password at most, in any interleaving.
THEOREM OneResetEach == Spec => []OneResetPerRequest
<1>1. Init => ResetInv
  BY ResetInit
<1>2. ResetInv /\ [Next]_authVars => ResetInv'
  BY ResetNext
<1>3. ResetInv => OneResetPerRequest
  <2> SUFFICES ASSUME ResetInv, NEW r \in Requests, NEW s \in Requests, r # s,
                      request[r].kind = "reset", request[s].kind = "reset",
                      request[r].on = request[s].on, request[r].pc = "ok",
                      request[s].pc = "ok"
               PROVE  FALSE
    BY DEF OneResetPerRequest
  <2>1. request[r].on \in Requests
    BY DEF ResetInv, ResetsOnRequests
  <2> QED
    BY <2>1 DEF ResetInv, OneBuyer, Bought
<1> QED
  BY <1>1, <1>2, <1>3, PTL DEF Spec
=============================================================================
