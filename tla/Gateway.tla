------------------------------ MODULE Gateway ------------------------------
(***************************************************************************)
(* Who may call what (backend/internal/auth/authz.go, backend/main.go and  *)
(* the service tables of backend/gen): the interceptor in front of every   *)
(* unary call, and what the handlers themselves ask of its claims.         *)
(***************************************************************************)

\* What a row says of a user is read as one of two roles, whatever it says.
Roles == {"user", "admin"}

\* What a caller sends as its bearer token.  "void" is one that does not verify:
\* older than 30 minutes, signed with another secret, or made for no audience,
\* as cmd/tools/makejwt makes them.
Bearers == {"none", "void"} \cup Roles

AccountMethods == {"SignUp", "SignIn", "GoogleSignIn"}

TokenMethods == {"RefreshToken", "ValidateToken"}

ResetMethods == {"RequestPasswordReset", "ResetPassword"}

AuthMethods == AccountMethods \cup TokenMethods \cup ResetMethods \cup {"RevokeToken"}

PublishingMethods == {"CreateUploadURL", "CompleteUpload", "GetUploadURL"}

CatalogMethods == {"ListAudiobooks", "GetAudiobook"}

StatusMethods == {"GetDescription", "GetAudiobookStatus"}

CartMethods == {"ViewCart", "AddToCart", "RemoveFromCart", "Checkout"}

LibraryMethods == {"ListPurchases", "GetDownloadURL", "GetTranscript"}

\* The interceptor is for unary calls: a stream passes it by, without claims.
StreamMethods == {"UploadAudiobook"}

Methods == AuthMethods \cup PublishingMethods \cup CatalogMethods \cup StatusMethods
             \cup CartMethods \cup LibraryMethods \cup StreamMethods

PublicMethods == {"SignUp", "SignIn", "GoogleSignIn", "RefreshToken",
                  "RequestPasswordReset", "ResetPassword"}

VerifyJWT(bearer) == bearer \in Roles

\* The call reaches its handler.
Intercepted(method, bearer) ==
    method \in PublicMethods \cup StreamMethods \/ VerifyJWT(bearer)

\* The role in the claims of the context, where only what was verified is put.
Role(method, bearer) ==
    IF method \in PublicMethods \cup StreamMethods THEN "none" ELSE bearer

UserMethods == CartMethods \cup LibraryMethods \cup PublishingMethods
                 \cup StreamMethods \cup {"ListAudiobooks"}

AdminMethods == PublishingMethods \cup StreamMethods

\* The handler finds its caller in the context, and an admin where it wants one.
Admitted(method, bearer) ==
    /\ Intercepted(method, bearer)
    /\ method \in UserMethods => Role(method, bearer) # "none"
    /\ method \in AdminMethods => Role(method, bearer) = "admin"
=============================================================================
