------------------------------- MODULE Login -------------------------------
(***************************************************************************)
(* One app and how it stays signed in (frontend/lib/pages/index.dart,      *)
(* pages/shop.dart, token_store.dart) over the server of module Sessions,  *)
(* which others use, too.                                                  *)
(*                                                                         *)
(* The app keeps one refresh token on the device and exchanges it each     *)
(* time it starts.  An exchange or a sign-in may still be under way when   *)
(* the app stops, gives up on it or sends another.                         *)
(***************************************************************************)
EXTENDS Sessions, Gateway, Naturals

CONSTANT Blank   \* the empty token that an answer without tokens is stored as

ASSUME LoginAssumption == Blank \notin Tokens \cup {None}

VARIABLES
    running,   \* the app is running
    pages,     \* pages of the shop over the sign-in page
    stored,    \* the refresh token on the device
    asked,     \* asked[r]: what became of r, if it is a request of the app
    lapsed     \* the tokens that expired

appVars == <<running, pages, stored, asked, lapsed>>

loginVars == <<account, live, session, granted, request,
               running, pages, stored, asked, lapsed>>

LoginTypeOK ==
    /\ TypeOK
    /\ running \in BOOLEAN
    /\ pages \in Nat
    /\ stored \in Tokens \cup {None, Blank}
    /\ asked \in [Requests -> {"other", "awaited", "missed", "heard"}]
    /\ lapsed \subseteq Tokens
    /\ \A r \in Requests : asked[r] = "heard" => ~Running(r)
    /\ ~running => pages = 0 /\ \A r \in Requests : asked[r] # "awaited"

LoginInit ==
    /\ Init
    /\ running = FALSE
    /\ pages = 0
    /\ stored = None
    /\ asked = [r \in Requests |-> "other"]
    /\ lapsed = {}

-----------------------------------------------------------------------------
\* The app sends its requests about sign-ins without an access token.
Accepts(method) == Admitted(method, "none")

\* The tokens that the app was ever given.
Own == {request[r].given : r \in {s \in Requests : asked[s] # "other"}} \ {None}

Sends(r) ==
    /\ asked[r] = "other"
    /\ asked' = [asked EXCEPT ![r] = "awaited"]

\* _attemptAutoLogin, which sets no limit of time.
Start(r) ==
    /\ ~running
    /\ stored \in Tokens
    /\ Accepts("RefreshToken")
    /\ RefreshToken(r, stored)
    /\ Sends(r)
    /\ running' = TRUE
    /\ UNCHANGED <<pages, stored, lapsed>>

\* Nothing is stored, or the empty token, which is refused.
StartSignedOut ==
    /\ ~running
    /\ stored \notin Tokens
    /\ running' = TRUE
    /\ UNCHANGED <<account, live, session, granted, request,
                   pages, stored, asked, lapsed>>

\* The buttons of the sign-in page, which are there while requests are under way.
Press(r, e) ==
    /\ running
    /\ pages = 0
    /\ \/ Accepts("SignUp") /\ SignUp(r, e)
       \/ Accepts("SignIn") /\ SignIn(r, e)
       \/ Accepts("GoogleSignIn") /\ GoogleSignIn(r, e)
    /\ Sends(r)
    /\ UNCHANGED <<running, pages, stored, lapsed>>

\* Mutant: an exchange opens the page and does not store what it brought.
AnswerUnsaved(r) ==
    /\ running
    /\ asked[r] = "awaited"
    /\ ~Running(r)
    /\ asked' = [asked EXCEPT ![r] = "heard"]
    /\ \/ /\ request[r].given # None
          /\ stored' = IF request[r].kind = "refresh" THEN stored ELSE request[r].given
          /\ pages' = pages + 1
       \/ /\ request[r].given = None
          /\ stored' = IF request[r].pc = "ok" THEN Blank ELSE stored
          /\ UNCHANGED pages
    /\ UNCHANGED <<account, live, session, granted, request, running, lapsed>>

\* _doSignIn: what an answer brings is stored first; a page of the shop opens
\* over those there are, unless there is no access token to read a role from.
Answer(r) ==
    /\ running
    /\ asked[r] = "awaited"
    /\ ~Running(r)
    /\ asked' = [asked EXCEPT ![r] = "heard"]
    /\ \/ /\ request[r].given # None
          /\ stored' = request[r].given
          /\ pages' = pages + 1
       \/ /\ request[r].given = None
          /\ stored' = IF request[r].pc = "ok" THEN Blank ELSE stored
          /\ UNCHANGED pages
    /\ UNCHANGED <<account, live, session, granted, request, running, lapsed>>

\* Five seconds have passed since a button was pressed, or the connection
\* breaks; the server goes on all the same.
Miss(r) ==
    /\ asked[r] = "awaited"
    /\ asked' = [asked EXCEPT ![r] = "missed"]
    /\ UNCHANGED <<account, live, session, granted, request,
                   running, pages, stored, lapsed>>

\* _logout: its RevokeToken goes without an access token, too, and is refused,
\* which is passed over.
Logout ==
    /\ pages > 0
    /\ ~Accepts("RevokeToken")
    /\ stored' = None
    /\ pages' = pages - 1
    /\ UNCHANGED <<account, live, session, granted, request, running, asked, lapsed>>

\* The device's own button leads back, too.
Back ==
    /\ pages > 0
    /\ pages' = pages - 1
    /\ UNCHANGED <<account, live, session, granted, request,
                   running, stored, asked, lapsed>>

\* The app ends, whatever it waits for.
Stop ==
    /\ running
    /\ running' = FALSE
    /\ pages' = 0
    /\ asked' = [r \in Requests |-> IF asked[r] = "awaited" THEN "missed" ELSE asked[r]]
    /\ UNCHANGED <<account, live, session, granted, request, stored, lapsed>>

-----------------------------------------------------------------------------
\* What others send, and the app when it asks for a new password.
OthersAsk(r) ==
    /\ asked[r] = "other"
    /\ \/ \E e \in Emails : \/ SignUp(r, e) \/ GoogleSignIn(r, e) \/ SignIn(r, e)
                            \/ RequestPasswordReset(r, e)
       \/ \E t \in Tokens \ Own : RefreshToken(r, t) \/ RevokeToken(r, t)
       \/ ResetPassword(r)
    /\ UNCHANGED appVars

ServerGoesOn(r) ==
    /\ \/ Insert(r)
       \/ Delete(r)
       \/ \E t \in Tokens : Issue(r, t)
       \/ CreateResetToken(r) \/ ConsumeResetToken(r) \/ SetUserPasswordHash(r)
       \/ Fail(r)
    /\ UNCHANGED appVars

Lapse(t) ==
    /\ Expire(t)
    /\ lapsed' = lapsed \cup ({t} \cap Own)
    /\ UNCHANGED <<running, pages, stored, asked>>

LoginNext ==
    \/ StartSignedOut
    \/ \E r \in Requests : \/ Start(r)
                           \/ \E e \in Emails : Press(r, e)
                           \/ Answer(r) \/ Miss(r)
                           \/ OthersAsk(r) \/ ServerGoesOn(r)
    \/ Logout \/ Back \/ Stop
    \/ \E t \in Tokens : Lapse(t)
    \/ ExpireReset /\ UNCHANGED appVars

LoginSpec == LoginInit /\ [][LoginNext]_loginVars

-----------------------------------------------------------------------------
\* The app's exchange of a token.
Exchange(r) == asked[r] # "other" /\ request[r].kind = "refresh"

(***************************************************************************)
(* The app's sign-in at its start is refused for a cause only: the stored  *)
(* token is seven days old, or an earlier exchange of it broke off at the  *)
(* server or was not waited for (index.dart 67-86, 129-155; README.md 41:  *)
(* an exchanged token no longer works).  What it stores is never behind    *)
(* the answers it has heard, in whatever order they come.                  *)
(***************************************************************************)
RefusedForCause ==
    \A r \in Requests :
        Exchange(r) /\ request[r].pc = "unauthenticated"
        => \/ request[r].on \in lapsed
           \/ \E s \in Requests \ {r} :
                 /\ Exchange(s)
                 /\ request[s].on = request[r].on
                 /\ asked[s] = "missed" \/ request[s].pc = "internal"
=============================================================================
