------------------------------ MODULE Sessions ------------------------------
(***************************************************************************)
(* Accounts, refresh tokens and resets of passwords                        *)
(* (backend/internal/auth/authentication.go, storage/database.go 75-241,   *)
(* backend/sql/001_auth.sql).                                              *)
(*                                                                         *)
(* A request is a row of single statements, each committed by itself; a    *)
(* session is the chain of tokens that begins with a sign-in and is handed *)
(* on by RefreshToken, which deletes the old token and makes a new one.    *)
(* There is one reset token, a constant of the code: the last request for  *)
(* a reset says whose it is.  ConsumeResetToken is a transaction that      *)
(* locks its row.                                                          *)
(***************************************************************************)
EXTENDS FiniteSets

CONSTANTS
    Emails,
    Tokenless,   \* e-mails whose sign-up is answered without tokens
    Tokens,      \* the random tokens there are to draw
    Requests,    \* the requests there ever are
    None,
    Overlaps     \* two requests about one token may run side by side

ASSUME SessionsAssumption ==
    /\ Tokenless \subseteq Emails
    /\ None \notin Emails \cup Tokens \cup Requests
    /\ Overlaps \in BOOLEAN

VARIABLES
    account,   \* account[e]: the provider of the user with e-mail e
    live,      \* live[t]: the owner of a token that can be found, or None
    session,   \* session[t]: the first token of the chain t belongs to
    granted,   \* the request the reset token was made for, or None
    request

authVars == <<account, live, session, granted, request>>

\* Where a user of the table may have come from.
Providers == {"custom", "google"}

Pending == {"insert", "delete", "issue", "grant", "consume", "set"}

Answers == {"ok", "exists", "unauthenticated", "denied", "internal"}

\* on: the e-mail, token or request for a reset that the request is about;
\* owner: the user it found; pc: the statement it is at, or its answer;
\* given: the token it answered.
Request == [kind  : {"none", "signup", "google", "signin", "refresh", "revoke",
                     "ask", "reset"},
            on    : Emails \cup Tokens \cup Requests \cup {None},
            owner : Emails \cup {None},
            pc    : Pending \cup Answers \cup {"idle"},
            given : Tokens \cup {None}]

TypeOK ==
    /\ account \in [Emails -> {"none"} \cup Providers]
    /\ live \in [Tokens -> Emails \cup {None}]
    /\ session \in [Tokens -> Tokens \cup {None}]
    /\ granted \in Requests \cup {None}
    /\ request \in [Requests -> Request]
    /\ \A r \in Requests :
          /\ request[r].kind \in {"signup", "google", "signin"} => request[r].on \in Emails
          /\ request[r].kind = "refresh" => request[r].on \in Tokens
          /\ request[r].pc = "insert" => request[r].kind \in {"signup", "google"}
          /\ request[r].pc \in Pending \cup {"ok"} => request[r].kind # "none"
          /\ request[r].pc \in Pending => request[r].owner # None
          /\ request[r].pc = "delete" => request[r].kind = "refresh"
          /\ request[r].pc = "issue" => request[r].kind \notin {"ask", "reset"}
          /\ request[r].pc = "grant" => request[r].kind = "ask"
          /\ request[r].pc \in {"consume", "set"} => request[r].kind = "reset"
    /\ granted # None => /\ request[granted].kind = "ask"
                         /\ request[granted].pc = "ok"
                         /\ request[granted].owner # None

\* Any accounts there are already, none of them signed in.
Init ==
    /\ account \in [Emails -> {"none"} \cup Providers]
    /\ live = [t \in Tokens |-> None]
    /\ session = [t \in Tokens |-> None]
    /\ granted = None
    /\ request = [r \in Requests |-> [kind |-> "none", on |-> None, owner |-> None,
                                      pc |-> "idle", given |-> None]]

-----------------------------------------------------------------------------
Running(r) == request[r].pc \in Pending

MayUse(t) ==
    Overlaps \/ \A s \in Requests : Running(s) => request[s].on # t

\* The request r of this kind about x has found owner and goes on to pc.
Goes(r, kind, x, owner, pc) ==
    /\ request[r].pc = "idle"
    /\ request' = [request EXCEPT ![r] = [kind |-> kind, on |-> x, owner |-> owner,
                                          pc |-> pc, given |-> None]]

\* GetUserByEmail and what each handler makes of it.
SignUp(r, e) ==
    /\ Goes(r, "signup", e, e, IF account[e] = "none" THEN "insert" ELSE "exists")
    /\ UNCHANGED <<account, live, session, granted>>

GoogleSignIn(r, e) ==
    /\ Goes(r, "google", e, e, IF account[e] = "none" THEN "insert" ELSE "issue")
    /\ UNCHANGED <<account, live, session, granted>>

\* A user of another provider, and a wrong password, are refused.
SignIn(r, e) ==
    /\ \E pc \in {"unauthenticated"} \cup (IF account[e] = "custom" THEN {"issue"} ELSE {}) :
          Goes(r, "signin", e, e, pc)
    /\ UNCHANGED <<account, live, session, granted>>

\* A row of its own for the e-mail.
CreateUser(e, provider) == account' = [account EXCEPT ![e] = provider]

\* Users are never deleted.
GetUserByID(e) == account[e] # "none"

\* Mutant: the e-mail is not a unique key of the table.
InsertAnother(r) ==
    /\ request[r].pc = "insert"
    /\ CreateUser(request[r].on, "custom")
    /\ request' = [request EXCEPT ![r].pc = "issue"]
    /\ UNCHANGED <<live, session, granted>>

\* The e-mail is unique in the table, and the error of a duplicate is the
\* driver's own, which the handlers take for an internal one.
Insert(r) ==
    /\ request[r].pc = "insert"
    /\ \/ /\ account[request[r].on] = "none"
          /\ CreateUser(request[r].on,
                        IF request[r].kind = "google" THEN "google" ELSE "custom")
          /\ request' = [request EXCEPT ![r].pc =
                            IF request[r].kind = "signup" /\ request[r].on \in Tokenless
                            THEN "ok" ELSE "issue"]
       \/ /\ account[request[r].on] # "none"
          /\ request' = [request EXCEPT ![r].pc = "internal"]
          /\ UNCHANGED account
    /\ UNCHANGED <<live, session, granted>>

-----------------------------------------------------------------------------
Issued == {t \in Tokens : session[t] # None}

CreateRefreshToken(t, owner) == live' = [live EXCEPT ![t] = owner]

\* It does not say whether there was one.
DeleteRefreshToken(t) == live' = [live EXCEPT ![t] = None]

\* Mutant: what the lookup says of the token is not looked at.
RefreshUnchecked(r, t) ==
    /\ MayUse(t)
    /\ t \in Issued
    /\ Goes(r, "refresh", t, live[t], "delete")
    /\ UNCHANGED <<account, live, session, granted>>

\* Mutant: the new token is made for the user the access token of the call names.
RefreshForBearer(r, t) ==
    /\ MayUse(t)
    /\ t \in Issued
    /\ \E e \in Emails :
          Goes(r, "refresh", t, e, IF live[t] = None THEN "unauthenticated" ELSE "delete")
    /\ UNCHANGED <<account, live, session, granted>>

\* GetRefreshTokenOwner.
RefreshToken(r, t) ==
    /\ MayUse(t)
    /\ t \in Issued
    /\ Goes(r, "refresh", t, live[t],
            IF live[t] = None THEN "unauthenticated" ELSE "delete")
    /\ UNCHANGED <<account, live, session, granted>>

\* Mutant: the old token is left in the table.
DeleteNothing(r) ==
    /\ request[r].pc = "delete"
    /\ request' = [request EXCEPT ![r].pc = "issue"]
    /\ UNCHANGED <<account, live, session, granted>>

Delete(r) ==
    /\ request[r].pc = "delete"
    /\ DeleteRefreshToken(request[r].on)
    /\ request' = [request EXCEPT ![r].pc = "issue"]
    /\ UNCHANGED <<account, session, granted>>

\* makeTokens, for whoever the owner of the old token is found to be.
Issue(r, t) ==
    /\ request[r].pc = "issue"
    /\ request[r].kind = "refresh" => GetUserByID(request[r].owner)
    /\ t \notin Issued
    /\ CreateRefreshToken(t, request[r].owner)
    /\ session' = [session EXCEPT ![t] =
                      IF request[r].kind = "refresh" THEN session[request[r].on] ELSE t]
    /\ request' = [request EXCEPT ![r].pc = "ok", ![r].given = t]
    /\ UNCHANGED <<account, granted>>

\* Mutant: the error of the DELETE is dropped.
RevokeUnseen(r, t) ==
    /\ MayUse(t)
    /\ t \in Issued
    /\ live' \in {live, [live EXCEPT ![t] = None]}
    /\ Goes(r, "revoke", t, None, "ok")
    /\ UNCHANGED <<account, session, granted>>

RevokeToken(r, t) ==
    /\ MayUse(t)
    /\ t \in Issued
    /\ DeleteRefreshToken(t)
    /\ Goes(r, "revoke", t, None, "ok")
    /\ UNCHANGED <<account, session, granted>>

\* Seven days have passed.
Expire(t) ==
    /\ live[t] # None
    /\ live' = [live EXCEPT ![t] = None]
    /\ UNCHANGED <<account, session, granted, request>>

-----------------------------------------------------------------------------
\* What is asked for an e-mail that has no password is answered all the same.
RequestPasswordReset(r, e) ==
    /\ Goes(r, "ask", e, e, IF account[e] = "custom" THEN "grant" ELSE "ok")
    /\ UNCHANGED <<account, live, session, granted>>

\* A transaction has read the row of the reset token FOR UPDATE.
ResetLocked == \E s \in Requests : request[s].pc = "consume"

\* There is one row for the one token, which the next request writes over.
CreateResetToken(r) ==
    /\ request[r].pc = "grant"
    /\ ~ResetLocked
    /\ granted' = r
    /\ request' = [request EXCEPT ![r].pc = "ok"]
    /\ UNCHANGED <<account, live, session>>

\* Mutant: the token is looked up without a lock.
ResetPasswordUnlocked(r) ==
    /\ \/ Goes(r, "reset", None, None, "denied")
       \/ /\ granted # None
          /\ Goes(r, "reset", granted, request[granted].owner, "consume")
    /\ UNCHANGED <<account, live, session, granted>>

\* The SELECT of ConsumeResetToken; a token that is wrong or gone is refused.
ResetPassword(r) ==
    /\ \/ Goes(r, "reset", None, None, "denied")
       \/ /\ granted # None
          /\ ~ResetLocked
          /\ Goes(r, "reset", granted, request[granted].owner, "consume")
    /\ UNCHANGED <<account, live, session, granted>>

\* Its DELETE and COMMIT.
ConsumeResetToken(r) ==
    /\ request[r].pc = "consume"
    /\ granted' = None
    /\ request' = [request EXCEPT ![r].pc = "set"]
    /\ UNCHANGED <<account, live, session>>

\* Which password a user has is left out, and open sessions go on.
SetUserPasswordHash(r) ==
    /\ request[r].pc = "set"
    /\ request' = [request EXCEPT ![r].pc = "ok"]
    /\ UNCHANGED <<account, live, session, granted>>

\* Thirty minutes have passed; a transaction that has the row keeps it.
ExpireReset ==
    /\ granted # None
    /\ ~ResetLocked
    /\ granted' = None
    /\ UNCHANGED <<account, live, session, request>>

-----------------------------------------------------------------------------
\* A statement fails; those before it stay.  A request for a reset does not
\* tell, and a transaction is rolled back.
Fail(r) ==
    /\ Running(r)
    /\ request' = [request EXCEPT ![r].pc = IF @ = "grant" THEN "ok" ELSE "internal"]
    /\ UNCHANGED <<account, live, session, granted>>

Next ==
    \/ \E r \in Requests :
          \/ \E e \in Emails : \/ SignUp(r, e) \/ GoogleSignIn(r, e) \/ SignIn(r, e)
                               \/ RequestPasswordReset(r, e)
          \/ Insert(r)
          \/ \E t \in Tokens : RefreshToken(r, t) \/ Issue(r, t) \/ RevokeToken(r, t)
          \/ Delete(r)
          \/ CreateResetToken(r)
          \/ ResetPassword(r) \/ ConsumeResetToken(r) \/ SetUserPasswordHash(r)
          \/ Fail(r)
    \/ \E t \in Tokens : Expire(t)
    \/ ExpireReset

Spec == Init /\ [][Next]_authVars

-----------------------------------------------------------------------------
(***************************************************************************)
(* A second sign-up with one e-mail never succeeds, even when both looked  *)
(* for the e-mail before either inserted it (authentication.go 139-163).   *)
(***************************************************************************)
OneSignUp ==
    \A r, s \in Requests :
        /\ r # s
        /\ request[r].kind = "signup" /\ request[s].kind = "signup"
        /\ request[r].on = request[s].on
        /\ request[r].pc = "ok"
        => request[s].pc # "ok"

\* The session that begins with token t was begun by a sign-in of e.
SignedIn(t, e) ==
    \E r \in Requests : /\ request[r].kind \in {"signup", "google", "signin"}
                        /\ request[r].pc = "ok"
                        /\ request[r].given = t
                        /\ request[r].owner = e

(***************************************************************************)
(* A token that works belongs to the user whose sign-in began its session, *)
(* through any chain of exchanges, even of requests about one token that   *)
(* overlap or break off: each goes on with the owner it found, whatever     *)
(* became of the token since (authentication.go 278-306).                  *)
(***************************************************************************)
WorksForItsUser ==
    \A t \in Tokens :
        live[t] # None => session[t] \in Tokens /\ SignedIn(session[t], live[t])

(***************************************************************************)
(* A session has one live token at most: the old one is gone before there  *)
(* is a new one, and a revoked or expired session does not come back to    *)
(* life beside it (authentication.go 278-306, 362-367).                    *)
(***************************************************************************)
OneLivePerSession ==
    \A t, n \in Tokens :
        live[t] # None /\ live[n] # None /\ session[t] = session[n] => t = n

\* A refresh has found the owner of token t, and no new token is answered yet.
BeingExchanged(t) ==
    \E r \in Requests : /\ request[r].kind = "refresh"
                        /\ request[r].on = t
                        /\ request[r].pc \in {"delete", "issue"}

\* The session that began with token s cannot be used and will not be renewed.
Over(s) ==
    /\ session[s] # None
    /\ \A t \in Tokens : session[t] = s => live[t] = None /\ ~BeingExchanged(t)

(***************************************************************************)
(* Who revokes a token that works has ended the session, and a session     *)
(* that is over, in whatever way, stays over: no token of its chain is     *)
(* left beside the one revoked, and none is made from it any more          *)
(* (authentication.go 278-306, 362-367).                                   *)
(***************************************************************************)
OverIsOver ==
    [][/\ \A s \in Tokens : Over(s) => Over(s)'
       /\ \A t \in Tokens :
             live[t] # None /\ (\E r \in Requests : RevokeToken(r, t))
             => Over(session[t])']_authVars

(***************************************************************************)
(* A token is exchanged for a new one at most once: afterwards the old one *)
(* does not work (README.md 41, authentication_test.go 183-216).           *)
(***************************************************************************)
ExchangedOnce ==
    \A r, s \in Requests :
        /\ r # s
        /\ request[r].kind = "refresh" /\ request[s].kind = "refresh"
        /\ request[r].on = request[s].on
        /\ request[r].pc = "ok"
        => request[s].pc # "ok"

(***************************************************************************)
(* A request for a reset buys one new password at most, whatever calls of  *)
(* ResetPassword run side by side or break off (authentication_test.go     *)
(* 278-288: a reset token used again is refused).                          *)
(***************************************************************************)
OneResetPerRequest ==
    \A r, s \in Requests :
        /\ r # s
        /\ request[r].kind = "reset" /\ request[s].kind = "reset"
        /\ request[r].on = request[s].on
        /\ request[r].pc = "ok"
        => request[s].pc # "ok"
=============================================================================
