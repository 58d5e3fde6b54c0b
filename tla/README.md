# Verification of the audiobook shop

TLA+ models, model-checked with TLC and proved about with TLAPS, of the
audiobook shop in this repository: a Go gRPC backend over MySQL (`backend/`), a
Flutter client (`frontend/`) and a Python AI worker (`ai/`). Paths below are
relative to `src/`; line numbers are those of the modelled commit.

## 1. Inventory

### Components, their state and operations

| Component | Code | State | Operations |
|---|---|---|---|
| Publishing pipeline | `backend/internal/shop/shop.go`, `backend/internal/aihelper/pipeline.go`, `ailocal.go` | rows of table `audiobooks` (status, `cover_url`, transcript, description), objects in S3, one Go stack per running call | `CreateUploadURL`, `GetUploadURL`, `CompleteUpload` with its callback, `Pipeline.Run`, `ContinueTranscript`, `ContinueSummary`, `UpdateAudiobookAI` |
| Upload endpoint | `backend/internal/shopmock/blobstore_http.go` | one file per book on the server's disk, whether it listens | `EnsureStarted`, `PUT /upload/<key>` |
| Transcription jobs and names | `pipeline.go` 268-361, 484-586, `ailocal.go` 94-160 | jobs of Amazon Transcribe, one object per book for their output | start, poll, locate, read |
| Categories | `pipeline.go` 588-737, `storage/database.go` 328-376, 884-917 | tables `audiobook_category_types`, `audiobook_categories` | write an answer, get or create a label |
| Catalog queries | `shop.go` 409-486, 631-645, `database.go` 378-605 | none of their own | a book, a list, status, description |
| Admin pages | `frontend/lib/pages/shop/shop_catalog.dart`, `create_audiobook.dart` | the listing last loaded, the picked file, the busy flag | refresh, create, open, resume, redo a stage |
| AI worker | `ai/app.py` | none between requests | `/transcribe`, `/summarize` |
| Cart and checkout | `storage/database.go` 607-793 | tables `cart_items`, `orders`, `order_items`, `purchases` | `AddToCart`, `RemoveFromCart`, `ViewCart`, `Checkout` |
| Buyer pages | `frontend/lib/pages/shop.dart`, `shop_catalog.dart`, `cart.dart` | what the open page last loaded | load, add, remove, check out |
| Reading what was bought | `shop.go` 555-629, `purchases.dart` | the purchases the page shows | `ListPurchases`, `GetDownloadURL`, `GetTranscript` |
| Accounts and tokens | `auth/authentication.go`, `storage/database.go` 75-251 | tables `users`, refresh and reset tokens | sign-up, sign-in, refresh, revoke, reset |
| Session of the client | `frontend/lib/pages/index.dart`, `shop.dart`, `token_store.dart` | the refresh token on the device, the open pages | start, sign in, log out |
| Authorization | `auth/authz.go`, `main.go`, the service tables of `gen` | none | the interceptor in front of every unary call |

`aws.go` is commented out as a whole, the messages in `backend/gen` and
`lib/proto` are generated, the rest of `main.go` is wiring.

### How they interact

The admin's page calls `CreateUploadURL`, which starts the upload endpoint if it
does not listen and makes the row (`UNSPECIFIED`, link = path of the endpoint).
The page PUTs the audio to that path, and fires `CompleteUpload` without waiting
for its answer: it polls `GetAudiobookStatus` every two seconds. `CompleteUpload`
reads the row once, chooses a stage from the status or from the one the request
forces, writes that stage's status and runs the pipeline from there. The pipeline
calls back at every state; the callback writes first the data (link or
transcript), then the status, each with one `UPDATE` under the context of the
request, and drops their errors. The pipeline itself runs under
`context.Background()`, so it goes on when the client is gone. At the end one
transaction writes the whole outcome with `READY`: the row, and the links to
categories, whose labels are looked for and made on other connections of the
pool. When anything breaks, the row keeps the status it had and the admin resumes
from the catalog: the page sends the *listed* status back as the stage to force.
For a READY book it offers the three stages to do again.

A transcription by AWS is a job that is started, polled and read. Nobody stops a
job: one that its caller has given up goes on and writes to the same object as
the next job of the book.

A buyer has one page open at a time. The catalog loads the purchases, the cart
and the books with three requests, leaves out what is owned and offers what is
not in the cart; the cart page loads the cart and offers to remove a book or to
check out. `Checkout` is one transaction of several statements; every other
request of a buyer is one statement, but for the reads of a book, which ask first
whether it is bought. The pages send what is pressed and wait for nothing, so requests
may reach the server in another order. Nothing in the server keeps a user from buying a book
twice: that is left to the pages.

Sign-up and the exchange of a refresh token are several statements each, no two
of them in one transaction. The app keeps one refresh token and exchanges it each
time it starts; its access token lasts for half an hour and is not renewed.

### What is hard

* Nothing keeps two calls off one book: a call outlives its page (180 s in the
  client, 10 min and 60 min limits in the pipeline), the button works again, and
  there may be several admins.
* Data and status are two statements; a crash, a cancelled request or a failed
  statement may part them, and the callback does not look.
* A call works with a copy of link and transcript that it read at the start, and
  a page with a listing that may be older still.
* A PUT empties the file first, so a call can store a part of a file.
* A statement of an update may wait, on another connection, for a lock that
  another update keeps until its own statement gets one: InnoDB sees no ring.
* A book is read with several statements between which it may be published anew.
* `Checkout` reads the cart from its snapshot and clears the cart as it is later.
  Two of them lock the same purchases in any order. The pages do not wait for it, and
  an add pressed before it may arrive while it runs.
* A read that breaks off midway looks like one that has ended wherever `rows.Err()`
  is not asked: the labels of a single book, the cart and the list of purchases.
* What was looked up (an e-mail that is free, a token that works) may have changed
  by the statement that relies on it.
* An answer of the sign-in may come after the app was stopped, or after a later one.

`PROJECT.json` lists every hazard at its line.

### What makes each component correct

* Pipeline: a status past `AUDIO` is backed by a link and an object; a
  transcript or a link is never lost; a READY book is one piece of work; every
  call ends; an answer without an error means READY; resuming always gets there.
* Transcription: a call hands on its own text; recordings are not written over;
  every call ends though its job does not.
* Categories: description and categories of a book are of one answer, and a read
  joins no more than successive ones; no update waits for ever.
* Checkout: what a user owns is what the orders say; what leaves the cart is
  bought, or taken out by hand; nothing is paid for twice; no call waits for ever.
* Reading: the text only of what was bought, and whatever the page shows.
* Accounts and tokens: one sign-up per e-mail; a session has one live token; a
  token is exchanged once; a request for a reset sets one password.
* Session of the client: a sign-in at the start is refused for a cause only.

## 2. Plan

All steps of the plan are done:

1. `Processing` (server), `AdminConsole` (admin composed with the server),
   `Publishing` (abstract) and `PublishingRefinement`; proofs of types, text
   agreement, kept transcripts, backed statuses, kept links, consistent READY
   books, and that the abstract specification is implemented.
2. `Checkout` (server), `Storefront` (buyer's pages composed with it),
   `Purchasing` (abstract), `Library` (reading composed with checkouts); proofs
   of types, ownership, buying once, texts for buyers, and that the abstract
   specification is implemented.
3. `Sessions` (accounts, refresh and reset tokens), `Login` (one app composed
   with it), `Gateway` (who may call what); proofs of their invariants and that
   the composition implements `Sessions`.
4. `Categories` and `Catalog` (updates, and reads beside them), `Cataloguing`
   (abstract), `Transcription` and `Naming`; proofs of their invariants, and that
   the abstract specification is implemented.

What would come next: the safety that liveness rests on, as `SomeoneGoesOn` is for
checkouts, for the updates of categories and for transcriptions; the poll loop of the
upload page; and requests that are given up while their statement runs.

## 3. Modules

| Module | Models |
|---|---|
| `Processing` | rows, uploaded files, S3 objects and `CompleteUpload` calls; crashes, lost clients, failed statements |
| `AdminConsole` | `EXTENDS Processing`: what the admin's pages let through to the server |
| `Publishing` | what publishing promises: phases and what each has produced |
| `PublishingRefinement` | `EXTENDS AdminConsole`: the mapping of rows to phases, `INSTANCE Publishing` |
| `Naming` | the names one file goes by, as operators |
| `Transcription` | `EXTENDS Naming`: jobs, the object they share and the calls that wait for them |
| `Categories` | `UpdateAudiobookAI` statement by statement, with the locks of InnoDB |
| `Cataloguing` | what an update of a book promises; `Categories` has `INSTANCE Cataloguing` |
| `Catalog` | `EXTENDS Categories`: reads of a book beside the updates |
| `Checkout` | carts, purchases and `Checkout` transactions of one MySQL |
| `Storefront` | `EXTENDS Checkout`: what the buyer's pages show and let through; `INSTANCE Purchasing` |
| `Purchasing` | what the shop promises a buyer |
| `Gateway` | which method is let through for which bearer, as operators |
| `Library` | `EXTENDS Checkout, Gateway`: the purchases page, the calls that read a bought book, and what the catalog gives to everyone |
| `Sessions` | accounts, refresh and reset tokens and the requests about them |
| `Login` | `EXTENDS Sessions, Gateway`: one app and the token it keeps |
| `MC...` | callers, names and symmetry sets for TLC; the `.cfg` files give all constants |
| `...Proofs` | theorems: `Processing`, `AdminConsole`, `Checkout` (with `Library`), `Storefront`, `Sessions`, `Categories` (with `Catalog`), `Transcription`, `Login` (with `Gateway`) |

Definitions marked "Mutant" are not part of any specification: each is a
definition beside it with a plausible bug, and shows that a property would notice.

### `Processing`

`row[b]` is the row: `status` (`ABSENT` when there is none), `cover` (`upload`
for the path of the upload endpoint, `s3` for the link), `transcript`,
`description`. `ai_description` and the category rows are written together and
only by `UpdateAudiobookAI`, so `description` stands for both, as the transcript
they were made from; `Categories` takes that transaction apart. `file[b]` and
`object[b]` are the file on disk and the object in S3, `listening` whether the
upload endpoint has been started since the server was. `run[r]` is one call: `pc`
is its next step, `at` the state the pipeline reports, `url` and `text` its
copies, `ctx` whether its request is alive, `answer` what the last call in this
slot was answered.

| Action | Code |
|---|---|
| `CreateUploadURL`, `GetUploadURL` | `shop.go` 233-270, 409-442, each with `EnsureStarted` |
| `PutBegins`, `PutEnds`, `PutBreaks` | `blobstore_http.go` 53-79: `os.Create`, the end of `io.Copy` and its breaking off |
| `Accept`, `AcceptNothing` | `shop.go` 281-369: read of the row and choice of the branch; no branch fits: `(nil, nil)` |
| `Mark`, `MarkFails` | the status before the pipeline (350, 356, 363); its failure ends the call |
| `CallbackData`, `CallbackStatus` | the two statements of the callback (320-338), whose errors are dropped |
| `Upload`, `Transcribe`, `Summarize` | the pipeline's work between callbacks |
| `PipelineFails` | every error the pipeline returns |
| `Save`, `Reply` | `UpdateAudiobookAI` (one transaction) and the last read (375-406) |
| `Cancel`, `Crash` | a lost client: statements fail from now on, the pipeline goes on; a restart: calls and the endpoint are lost, tables, files and objects stay |

The two providers differ in control: AWS refuses a link that is not in S3 before
it reports `TranscriptStarted`, and may fail before each of its callbacks; LOCAL
may not, but hands the path to the worker, which cannot open it.

Two abstractions to know of. Contents are values, and a transcript is a function
of content and provider; `Silent` holds contents whose transcript is empty, for
an empty transcript sends a call to another branch. Two writers of one file are
one `partial` file: a `PutEnds` while another PUT is still copying leaves the
full file.

### `AdminConsole`

`listed[b]` is the status the catalog last showed. A press sends it as the stage
to force; for a book listed READY the page offers `Stages` instead. `OpenPage` is
the page of a listed book, which asks for its upload URL and so starts the
endpoint again. A file is sent before a call that starts from the audio, and can
be picked only for a book listed as UNSPECIFIED or READY (`Picks`,
`create_audiobook.dart` 60-74). `Waits` says whether the admin waits for the
running call, `Refreshes` whether the catalog is reloaded before a button is
pressed; the properties say which of the two they need. `PageSize` is the limit of
`ListAudiobooks`: the newest books, and which are the newest is left open. The
console keeps one listing per book: several admins with different stale listings
are covered by `Processing`, whose `Request` takes any forced stage at any time.

### `Publishing` and its refinement

A book is Absent, New, Stored, Transcribed or Ready, holds the audio, text and
summary of the phases it is past, moves on one phase at a time, and goes back
only by `Redo`. `BookOf` maps a row: the status gives the phase, and only what
that phase shows counts. That is what hides a callback's data statement (what a
later step has prepared) and the leftovers of an earlier pass.

### `Transcription` and `Naming`

A file name is a sequence of characters of which a few matter: spaces and slashes,
`#`, `?`, an escape, a per cent sign that begins none, a control character, dots.
`Naming` takes it through `sanitizeFilename`, the URL of the upload, the path the
pipeline opens, the header of the S3 request, the S3 key, `parseS3URL`, the worker's
download and the key of the transcript; every book has a directory of its own, so last
parts suffice. The four uses of a URL differ: the client escapes what is no escape, Go
refuses to parse it (`Refused`), and the worker takes a link with such a sign in its path
as it stands (`Fetched`).

`keys[b]` are these names, `audio[b]` and `output[b]` the objects under the key of
the recording and of the transcript, `job[j]` a job, `call[c]` one
`ContinueTranscript`. A recording is told by its number, a transcript by the job
and the recording it was made from. `rivals` is a history variable.

| Action | Code |
|---|---|
| `Store` | another `CompleteUpload` stores the recording anew (`pipeline.go` 484-507) |
| `Begin`, `WorkerAnswers`, `WorkerFails` | `ailocal.go` 94-160 |
| `StartJob`, `StartFails` | `pipeline.go` 509-526 |
| `Poll`, `TimeOut` | one turn of the loop 528-548; the limit is looked at before each |
| `Locate`, `Read`, `ReadFails`, `RequestFails` | 550-586 |
| `JobRuns`, `JobCompletes`, `JobFails` | the service: it fetches the recording when it gets to the job and writes one object per book |
| `Crash` | calls are lost, jobs go on |

### `Categories` and `Catalog`

`author[b]` is the update whose values row `b` holds, `links[b]` the committed
rows of `audiobook_categories`, `types` the labels there are. `update[u]` is a
transaction; its own rows are in `done` and `gone` until it commits.

| Action | Code |
|---|---|
| `Stripped`, `Understood`, `Linked`, `Kept` | from the answer of the service to the links: `pipeline.go` 588-737, `shop.go` 378-389, `database.go` 354-374 |
| `Begin`, `UpdateRow`, `DeleteLinks` | `database.go` 329-351 |
| `FindLabel`, `MissLabel`, `MakeLabel` | `getOrCreateCategoryID`, 884-917, on another connection |
| `InsertLink`, `Commit` | 367-375 |
| `Abort`, `Victim`, `TimeOut` | a rollback, by an error, by InnoDB's choice in a ring, or by the limit on waiting for a lock |

The DELETE locks the gaps around the links of its book; a link of another book
may have to go there, which depends on the rows in between, so `AsksForLink` takes
any of the updates that hold gaps. A link holds its label in share mode, and
`MakeLabel` writes the label's row if another has made it meanwhile. The ring of
`Deadlocked` is one of transactions; a call whose label statement waits is not in
it, and only `TimeOut` ends that wait.

`Cataloguing` is an update as its callers and readers see it: `Apply` writes
description and categories of one book in one step, once. `Shown` maps the tables
to it; a transaction that is open shows nothing.

`read[q]` is a call that reads: `GetAudiobook` (also for status and description)
and `ListAudiobooks` read the row, `ReadLabels` the labels, `GetTranscriptPreview`
the beginning of the text; `Respond` answers with what was read (`shop.go`
444-486, 631-645, `database.go` 378-427, 474-596). `GetAudiobookByID` drops the errors
of `Scan` and does not ask for `cr.Err()`: its labels are a first part of those there
are (`FirstOf`), where a list has all of them or fails. A listed book has no
description: the query selects it and the answer leaves it out (524-534). `path` is a
history variable.

### `Checkout`

`cart[u]` and `owned[u]` are the committed rows of `cart_items` and `purchases`.
`checkout[c]` is a call: what it read from the cart (`ids`), the purchase its
statement is for (`asked`), the purchases it has written (`got`); once it is
`committed` it stands for its order, whose items are `ids`.

| Action | Code |
|---|---|
| `AddToCart`, `RemoveFromCart` | `database.go` 644-657, one statement each |
| `Begin`, `FindEmpty` | 667-698: the read of the cart and the row of the order |
| `Ask`, `Buy` | one turn of the loop 705-721: the order item, and the purchase once its lock is granted |
| `Clear`, `Commit` | 724-731 |
| `Abort` | every error path, and a client, server or MySQL that is gone: rollback |
| `Victim` | InnoDB resolves a ring of waiting transactions |

The transaction runs at InnoDB's default, REPEATABLE READ: the SELECT of the cart
is a snapshot read without locks, the upserts lock their purchase until the
transaction ends, the DELETE reads and locks the *current* rows of the user and
the gaps between them, so that a writer of this cart waits (`CartLocked`). The
rows of an open transaction are seen by no one, so `cart` and `owned` change at
`Commit`. The row of the order is written in the step of the snapshot read: no
one else reads it. The loop takes the books in any order, since the SELECT states
none. `ReadsBreak` says whether MySQL may end a statement while it sends its rows, as
`KILL QUERY` or a limit on execution does, without the connection and so without the
transaction: `Checkout`, `ViewCart` and `ListPurchases` do not ask for `rows.Err()`
and take what they have had for the whole (`Received`). Prices are written when the book is made and never again, so amounts are
left out. An answer lost after the commit is the page's matter.

### `Storefront`

`page[u]` is the page the buyer has open: what it is loading and what it loaded.
A tab is built anew when it is selected, a page that is pulled down or told of
success loads again and shows the old until then. `_load` of the catalog drops
its errors, so the catalog goes on to the books with what it has (`LoadFails`),
at worst without purchases and cart.

A press puts its request into `sent[u]`, and the server does it in a later step,
whatever else was pressed meanwhile and in any order; the answer makes the page load
again (`Told`).

| Action | Code |
|---|---|
| `Select`, `Reload` | `shop.dart` 74-105, the pull to refresh |
| `LoadPurchases`, `LoadCart`, `LoadBooks`, `LoadFails` | `shop_catalog.dart` 42-110, `cart.dart` 29-40 |
| `PressAdd`, `PressRemove`, `PressCheckout` | the buttons: `shop_catalog.dart` 369-376, `cart.dart` 61-63, 126 |
| `Added`, `Removed`, `Started` | the request at the server: `shop.go` 516-553; `Lost` if it never gets there or its statement fails |
| `Transact`, `CheckedOut` | the transaction of `Checkout`; its commit and the answer |

`Waits` says whether a buyer waits until what was pressed last is through on the server
before doing anything else (neither page has a busy flag, so nothing makes one wait),
`LoadsFail` whether requests, loads and answers are lost. `ListLimit` stands for the
100 of `ListPurchases` (`shop.go:560`), which has no next page; which purchases
are the latest is left open. A statement, its answer and the reload it leads to are
one step, a load is one, and a page runs one reload at a time. The same button is not
pressed again before its request is begun, and a client does not give up a request
whose statement runs. Buyers only: an admin is offered what is owned, too. `Listed` are the books an answer of
`listAudiobooks` lists, any set of them: which are READY and among the newest
20 is left open (the client asks for 200; a limit over 50 becomes 20).

### `Library` and `Gateway`

`bearer[u]` is the access token the session of a user sends, `shelf[u]` what the
purchases page shows, `reading[r]` a call for one book by one of the methods that
answer with something of it. `Given` says what: the link of the recording, or the whole
text, which is in a preview, too, if the book is in `Brief`, the books whose transcript
is no longer than the 1000 characters of a preview.

| Action | Code |
|---|---|
| `ListPurchases`, `Leave` | `shop.go` 555-584, `purchases.dart` |
| `GetBook` | `GetDownloadURL` or `GetTranscript` with `HasPurchased`, the first statement: `shop.go` 586-629 |
| `Browse` | `GetAudiobook`, `ListAudiobooks` and the like: `shop.go` 444-486, whose statements are in `Catalog` |
| `Serve`, `Dismiss` | the read of the book; the answer, or a failure, is put away |
| `AccessExpires`, `SignInAgain` | the half hour of an access token; the app is started again |

`Gateway` says what stands in front of each: `Intercepted` is the interceptor of
`authz.go` with the public methods of `main.go`, `Admitted` adds what a handler
asks of its claims. The methods are those of the generated service tables. A
stream passes the interceptor by, without claims.

### `Sessions`

`account[e]` is the provider of the user with this e-mail, `live[t]` the owner of
a token that `GetRefreshTokenOwner` finds, `session[t]` the token its chain began
with, `granted` the request for a reset that wrote the row of the reset token:
every reset has the one constant token, so there is one row. A request keeps
what it found and the statement it is at.

| Action | Code |
|---|---|
| `SignUp`, `GoogleSignIn`, `SignIn` | `authentication.go` 139, 188-200, 249-268: the lookup and what the handler makes of it |
| `Insert` | `CreateUser`, with the unique key `uq_users_email_norm` and both ends |
| `RefreshToken`, `Delete`, `Issue` | 280-287, 288-298, `makeTokens` 90-130 |
| `RevokeToken` | 362-367, which never asks whether the token existed |
| `RequestPasswordReset`, `CreateResetToken` | 334-345: the lookup, and the row of the token; no answer tells them apart |
| `ResetPassword`, `ConsumeResetToken`, `SetUserPasswordHash` | 347-360: one transaction that takes the row with a lock, and a statement after it |
| `Expire`, `ExpireReset` | the seven days and the thirty minutes of `expires_at` |
| `Fail` | a statement fails; those before it stay |

`Tokenless` holds e-mails of the load test's domain, whose sign-up is answered
without tokens (167-172). `makeTokens` draws 32 random bytes: a token never comes
twice. Google's check and the comparison of passwords are choices. Requests
about one e-mail run side by side; `Overlaps` says whether two about one token may.

### `Login`

`stored` is the token on the device, `pages` the pages of the shop over the
sign-in page, `asked[r]` what became of a request of the app, `lapsed` the tokens
of the app that expired.

| Action | Code |
|---|---|
| `Start`, `StartSignedOut` | `index.dart` 67-85: an exchange of the stored token, without a limit of time |
| `Press`, `Miss` | the buttons; five seconds or a broken connection |
| `Answer` | `_doSignIn`, 130-154: stores first, opens a page if there is a token to read |
| `Logout`, `Back`, `Stop` | `shop.dart`; the `RevokeToken` of a logout is refused by `Gateway` |
| `OthersAsk`, `ServerGoesOn`, `Lapse` | everyone else, and the server of `Sessions` |

## 4. Runs

| Run | Instance | Checks |
|---|---|---|
| `interleaved` | 1 book, 2 calls, 1 content, LOCAL, 1 fault of any kind | `TypeOK`, `TextsAgree`, `TranscriptKept` |
| `patient` | waits and refreshes; both providers; 2 contents, one silent; crash and cancel, 2 faults; fairness | `ReadyIsConsistent`, `AnsweredMeansReady`, `Publishes`, `CallsEnd`, `FileArrives`, `ResumeCompletes` |
| `impatient` | neither waits nor refreshes; 2 calls, AWS; crash and cancel, 1 fault | `ConsoleTypeOK`, `StatusBackedByAudio`, `LinkKept` |
| `stuck` | waits and refreshes, no fault, fairness | finds `AlwaysResumable` violated |
| `categories` | 2 books, 3 updates (two of one book), 2 labels, 1 read; a mistyped, a garbled and a fenced answer, the last of four labels with a blank; fairness | `CatalogTypeOK`, `OneAuthor`, `ReadInOrder`, `AppliedWhole`, `UpdatesEnd` |
| `transcription` | 1 book, 2 calls, 2 jobs, 2 polls, 2 recordings, 9 names; fairness | `TypeOK`, `TextIsOwn`, `AudioKept`, `NamesSurvive`, `TranscriptionsEnd` |
| `checkouts` | 1 user, 2 books (one brief), 2 checkouts, 1 reader, reads break off, fairness | `LibraryTypeOK`, `OwnedIsOrdered`, `SomeoneGoesOn`, `TextIsBought`, `NeverRefused`, `CheckoutsEnd` |
| `waiting` | 1 buyer who waits, 2 books, 3 calls, requests succeed, reads are whole, all purchases listed | `StoreTypeOK`, `BoughtOnce`, `KeepsPromise` |
| `lossy` | the same, requests, loads and answers are lost, 1 purchase listed | `NothingVanishes` |
| `vanishes` | a buyer who does not wait, requests succeed | finds `NothingVanishes` violated |
| `apart` | an app and others, 2 e-mails (one tokenless), 3 tokens, 3 requests, those about one token not overlapping | `LoginTypeOK`, `OneSignUp`, `WorksForItsUser`, `OneLivePerSession`, `ExchangedOnce`, `OneResetPerRequest`, `RefusedForCause`, `OverIsOver` |
| `twins` | the server alone, 4 requests, all overlapping | finds `ExchangedOnce` violated |

The largest, `lossy`, has 3 million distinct states, `impatient`, `apart` and
`waiting` between one and one and a half; the smallest passing ones, `patient` and
`categories`, where liveness is checked, under 30,000.

What they show:

* `TextsAgree`: with any interleaving of calls, the description of a READY book
  is of the transcript beside it, except between the two statements of some
  call's callback. If a fault falls in that moment the mismatch stays, so it is
  stated for the time before the first fault.
* `TranscriptKept`: no step takes a book's transcript away, for contents that
  are not silent.
* `ReadyIsConsistent` needs `Refreshes`: on a stale page "Upload" may break off
  and "Description" then join the old transcript to the new audio.
* `StatusBackedByAudio` and `LinkKept` need neither; they need that no statement
  fails under a live call (section 5).
* `FileArrives`: a restart takes the upload endpoint away, and opening the page of
  the book brings it back.
* `ResumeCompletes` starts from a status past `AUDIO`; `stuck` shows that the
  client offers no way on for a book that broke off in `AUDIO`.
* `OneAuthor`: row and links are of one answer, though label statements run
  outside the transaction; labels of an update that is rolled back stay, without
  a book. `UpdatesEnd` rests on the limit on waiting for a lock: InnoDB's search
  for rings does not see the waits of label statements.
* `AppliedWhole`: for a reader an update is one step, though it is a dozen statements
  on two connections with a way out after each.
* `ReadInOrder`: a read may join the description of one publishing with the
  categories of a later one; never with older or mixed ones. A list has all of one
  answer's categories; a single book may have the first of them only, or none, for a
  read of labels that breaks off is answered as if it had not.
* `TextIsOwn`: a job left behind may put its text under the eyes of a later call,
  but only if it was under way beside that call's own; with no such job the text
  is of the recording the call began with, or a later one.
* `AudioKept` and `NamesSurvive`: of the names an admin may give a file, one that
  ends in `.json` has its recording overwritten by the transcript, and one with
  `#`, `?`, an escape or a control character can never be published. One with a per
  cent sign that begins no escape, such as `100%.mp3`, can be with LOCAL and never with
  AWS, which is given no link it can parse.
* `TranscriptionsEnd`: a call ends though its job hangs.
* `OwnedIsOrdered`: order and purchases are written both or neither.
* `TextIsBought` and `NeverRefused`: check and read are two statements, and nothing
  between them matters, for purchases are never taken back. Only of the text, and of a
  text longer than a preview, can be said that buyers alone are given it: the link of the
  recording is in every answer of the catalog (section 5).
* `SomeoneGoesOn`: of a user's open checkouts one is never blocked, or InnoDB has a
  ring to break; every way out of `Checkout` lets its locks go.
* `CheckoutsEnd` rests on InnoDB finding deadlocks: two checkouts of one cart can
  wait for each other's purchases.
* `BoughtOnce` needs all four: a buyer who checks out twice without waiting, one
  whose catalog lost the answer of `listPurchases` or got a part of it, and one who owns
  more than the list shows can all pay twice; the server does not object.
* `NothingVanishes` needs that the buyer waits and that the cart is read whole.
* `OneSignUp` holds by the unique key, not by the lookup.
* `OneLivePerSession` and `ExchangedOnce` need requests about one token that do
  not overlap; `twins` shows what happens when they do.
* `OverIsOver`: a revocation leaves nothing of the session beside the token it
  deletes, and no one renews a session that was revoked, has expired or broke off
  between its two tokens. With two requests about one token this is lost: an
  exchange that looked the token up before it was revoked goes on and makes another.
* `WorksForItsUser`: an exchange that goes on with an owner found long ago makes a
  token for nobody but that session's user. The run has no two requests about one
  token at a time; the theorem does, for this holds with them as well.
* `OneResetPerRequest` holds by the lock that the SELECT of `ConsumeResetToken`
  takes.
* `RefusedForCause`: whatever the order of answers, stops and restarts, the stored
  token is refused at a start only if it is seven days old, or an earlier exchange
  of it broke off or was not waited for.

**Bounds.** In `Processing` books never share state, so one book shows all a book
can do. Two calls give every pairwise interleaving; the theorems cover any number.
`Audio` has two members where it matters whether a redo brings other content, and
a silent one where branches depend on it. `MaxFaults` bounds faults only (two in a
row where recovery itself may be hit); requests are unbounded. `interleaved` takes
LOCAL alone, `patient` both providers, and the proofs do not depend on the
provider. With one book a `PageSize` of one lists all there is; the theorems hold
for every size. Three updates are two that race for one book and a third whose
links share gaps and labels with theirs; a fourth beside a read, with liveness, is
beyond the time of a run. Of transcriptions, two calls and jobs are one that is
left behind and one that comes after it; `MaxUploads` of two lets a recording be
replaced under a job, `MaxPolls` of two lets one poll be in vain.
Of the shop, two books let two checkouts cross their locks and a cart change under
a checkout; in `waiting` three calls allow buying, and buying again after a broken
one, and `checkouts` has two beside the reader. Buyers share no rows, so one buyer
is enough. Three tokens make a chain with two exchanges; three requests are a
sign-in, an exchange and one more of anyone's, and `twins` has a fourth.
`CHECK_DEADLOCK FALSE` for `Processing`, `AdminConsole`, `Categories`,
`Transcription`, `Login` and `Sessions`: with no request left, or after the last
fault, the system may stand still.

**Symmetry.** Slots of calls, tokens and requests are interchangeable where a run
says so; it is used in safety runs only.

**Fairness.** `Fairness`: weak fairness of `Serve` for each call, since Go
schedules every goroutine, statements end, and each AI call has a limit (10 min
for LOCAL, 60 min for the transcription job of AWS) after which `PipelineFails` is
the step that happens. `ConsoleFairness` adds an admin who goes on: weak for
reloading the catalog, for opening a book's page and for a PUT that has begun,
strong for picking a file and for pressing resume, whose guards come and go with
listings and calls. Strong fairness of `Upload`, `Transcribe`, `Summarize` and of
the callbacks before which AWS asks its services says that these, tried again and
again, do not fail forever. Without it no resume could promise anything. None of
it says that faults stop: they are bounded.
`FairLibrarySpec` is weak fairness of the statements of each transaction that no
lock stops, and of InnoDB's detection of deadlocks. `FairCatalogSpec` asks the same
of the statements of an update, and that a wait for a lock ends by its limit, but
not that InnoDB finds a ring. `FairSpec` of `Transcription` is weak fairness of the
steps of a call, failures of requests excluded, so that no call ends by luck; it
asks nothing of the jobs. In each the composed module conjoins what its own state
does in that step.

## 5. Findings

* **A book that breaks off in AUDIO cannot be resumed from the client**
  (`stuck`). README.md:51 says an admin can resume whichever step broke. After a
  failed upload to S3 the book is listed AUDIO; the resume page wants a file
  (`create_audiobook.dart:132`) and refuses to let one be picked (line 61).
* **A book put into the cart during a checkout is lost** (`vanishes`). The DELETE
  (`database.go:724`) takes rows the checkout never read: an add that was pressed before
  the checkout, and reaches the server after it has read the cart, is enough. README.md:29 knows no
  way out of the cart but buying and removing.
* **A refresh token may be exchanged twice** (`twins`). README.md:41 says the old
  token must not work after a refresh; lookup and delete are two statements, and
  the delete does not say whether it deleted anything.

More divergences met on the way, which have no run of their own:

* Publishing. If `SetAudiobookDownloadURL` fails unseen (`shop.go:329`) and the call
  breaks off after the status statement, every resume hands the upload path to the
  service and fails, where README.md:54 says resume carries on from wherever it
  failed: `ResumeCompletes` fails once `FaultKinds` holds `"write"`.
  A failed `UpdateAudiobookAI` is only printed (`shop.go:401`), so a call may answer
  without an error and not READY, which `shop_test.go:230-236` expects:
  `AnsweredMeansReady` fails in the same way. A Bedrock answer without JSON is not
  an error: the envelope around it is parsed instead (`pipeline.go:716-720`), and
  the book is published with an empty description. `MediaFormat` is always `mp3`
  (`pipeline.go:132`), while the client lets other recordings be picked.
* Names of files. One with `#`, `?`, an escape or a control character (`dispFilename`,
  `pipeline.go:459-462`, puts it into a header) is never published, though it is taken
  for upload; one with a bare per cent sign is published with LOCAL only, for with AWS
  `parseS3URL` (`pipeline.go:761`) refuses the link the server itself has made.
* What is sold. README.md:31 has purchases be what makes a book available, and
  `GetDownloadURL` refuses its link to everyone else (`shop.go:597-609`); but
  that link is the row's `cover_url`, which `GetAudiobook` and `ListAudiobooks` answer
  as `CoverUrl` to every user who is signed in (`shop.go:93`, `database.go:530`).
  `GetAudiobook` adds the first 1000 characters of the transcript (`shop.go:480`), the
  whole of a short one.
* Reads that break off. `GetAudiobookByID` (`database.go:418-426`), `ViewCart` (607-642),
  `ListPurchases` (735-784) and the cart read of `Checkout` (680-690) do not ask
  `rows.Err()`, as `ListAudiobooks` does. The first three answer a part for the whole;
  `Checkout` sells the part, and its DELETE takes the rest of the cart unsold: with
  `ReadsBreak`, `NothingVanishes`, `BoughtOnce` and `KeepsPromise` fail for a buyer who
  waits, too.
* The page of a redo may see the READY of the pass before, when it polls before the
  call has set its stage, and say that it is complete (`create_audiobook.dart:200`).
* A limit over 50 becomes 20 (`database.go:475`), and the client asks for 200. An
  unfinished book that is not among the 20 newest is not listed and cannot be
  resumed, against README.md:51-57; buyers are shown the READY ones of the 20.
* `UploadAudiobook` is a stream, which the interceptor does not handle, so it never
  finds its caller (`GatewayDecides`). Tokens of `cmd/tools/makejwt` have no
  audience and are refused.
* `authentication.go:159-161` is written for `ErrAlreadyExist`, which `CreateUser`
  (`database.go:75-89`) never returns: a sign-up that loses the race is told
  `internal` (`Insert`). Every reset has the one token `abcABC`, so that a reset
  asked for by one user writes over another's.
* The `RevokeToken` of a logout goes without an access token, which the interceptor
  wants; it is refused, the refusal passed over, and the token lives on for its
  seven days. A logout while the exchange of the start is pending is followed by its
  answer, which signs in again. A sign-up answered without tokens stores an empty
  one and opens no page. An access token is not renewed: after 30 minutes every
  request is refused until the app is started again (`AccessExpires`).

## 6. Proofs

`ProcessingProofs`, for any sets of books, calls, contents, any faults and bound:

* `ProcessingTypes`: `TypeOK` is inductive; one step per action, records by
  their fields.
* `ProcessingTextsAgree`: `TextsInv` is `TypeOK` and, before the first fault, what
  `TextsAgree` says and that the request of every call is alive, so that no
  statement of it fails. `TextsAgree` itself says that a row READY with other
  texts has a call in `status`, whose statement repairs it.
* `ProcessingKeepsTranscripts`: `HoldInv` is `TypeOK` and, if no content is
  silent, that every call `HoldsText`: the text it carries past `Accept` is not
  empty where the code relies on it (stage SUMMARY is chosen
  only for a row with a transcript; a transcription of a content that is not
  silent is not empty).

`AdminConsoleProofs`, for any `PageSize`, books and calls. `ConsoleStatusBacked` and
`ConsoleKeepsLinks` assume `"write" \notin FaultKinds` only, the last three `Patient`,
which adds that the admin waits and refreshes (`Waits /\ Refreshes`), as in run
`patient`:

* `ConsoleTypes`, from `ProcessingTypes`'s step lemma through `ConsoleStep`
  (each console step is a server step or leaves the server alone).
* `ConsoleUsesProcessing`, `ConsoleTextsAgree` and `ConsoleKeepsTranscripts`: by the
  same lemma the console implements the server's specification, so what
  `ProcessingProofs` shows holds behind it. These assume nothing of the admin.
* `ConsoleStatusBacked` and `ConsoleKeepsLinks`: `StatusBackedByAudio` alone is
  not inductive, for a call writes its *copy* of the link later. `LinkInv` adds
  that a listing past AUDIO is linked too (a stale page never skips an upload
  still owed, `StageLinked`), that a call not starting from AUDIO carries the S3
  link, and that a live call past the callback that saves the link has a linked
  row. `StepStays` (links, objects and rows stay) and `CallStays` (so a call that
  does not move keeps what it relies on) carry the interleaving.
* `ConsoleReadyIsConsistent` and `ConsoleAnswersReady`, by `PublishInv`.
  `ReadyIsConsistent` says nothing of the row while a call works on it, so the
  invariant follows the call: each active call has its book for itself (`OneCall`);
  the row of a live call past its mark shows just the status the call has reached,
  and the text it carries is of the object and, but for the moment before it is
  stored, the one in the row (`LiveRight`); a call that has not marked its row yet
  is not ahead of the row, and starts SUMMARY from the row's own transcript
  (`MarkRight`); a call that will upload finds a whole file. A row that shows
  SUMMARY or READY has a transcript of the object beside it (`BookRight`), also when
  the call is cancelled or gone. The fresh listing gives the last two
  (`PressStep`), the wait the first (`AdminApart`).
* `ConsolePublishes`: under `PublishInv` every step is a step of `Publishing` on the
  mapped books, or shows nothing (`ShowsStep`). `Mark` is `Redo` or shows nothing,
  `CallbackStatus` is `Store` after the upload and `Transcribe` after the
  transcript, `Save` is `Summarize`; `Upload` and `CallbackData` change only what
  the status does not show yet.

`CategoriesProofs`, for any books, updates, answers, labels and reads:

* `CategoriesTypes`, `CatalogTypes`; `CategoriesOfOneAuthor` by `AuthorInv`, which
  adds to `OneAuthor` that an update which has the row of its book is its
  `SoleWriter`: the links it has deleted are all there are, and only then does its
  commit leave just its own. `CatalogOfOneAuthor` carries it over to the
  composition with reads, each step of which is one of `Categories` or leaves it.
* `UpdatesApplyWhole`, with the same `AuthorInv`: what a commit leaves is what its
  update was to write (`CommitShown`), no other step changes what is committed, and
  no update is committed twice. `CatalogUsesCategories` says the same beside reads.
  This is what lets `Processing` take `UpdateAudiobookAI` as the one step `Save`.
* `ReadsInOrder` by `ReadInv`: `AuthorInv`, and for each read that the last of its
  `path` is the author of now until it has the labels, that these are the links of
  one in the path, or the first of them where one book was asked for, and that the
  category it was listed under is of the row.

`TranscriptionProofs`, for any names, books, calls, jobs and bounds:

* `TranscriptionTypes`, and `TranscriptionTextIsOwn` by `OwnInv`: what lies under
  the key of a book's transcript is of a job of this book that completed, and for
  a call that has begun to wait, every job of the book under way is its own or
  among its rivals, so that what has been written since is of one of these.
* `TranscriptionAudioKept` and `TranscriptionNamesSurvive`, by `NamesInv`: `TypeOK`,
  that the keys of a book are what the code makes of some name (`KeysOK`), and that
  a transcript lies under the key of a recording only where the two keys are one
  (`AudioOK`). The rest is about names of any length: `TrimFacts` (what trimming
  leaves is solid at both ends, and is the name between them), `SanitizeFacts`,
  `ThroughURLFacts` (a URL gives back just the names without `#`, `?` and escapes),
  `FetchFacts` (so does the worker's download), `PlainSurvives` and its converses, for
  either provider, and `OnlyJsonOverwrites`. That `Names` are
  sequences of strings is all that is assumed of them.

`CheckoutProofs`, for any users, books, calls and readers:

* `LibraryTypes`, and `OwnedMatchesOrders` by `OrderInv`, which adds to
  `OwnedIsOrdered` that a call past its loop has sold all it read and asks for
  nothing (`SoldAll`): only then does `Commit` add just what its order says.
* `CheckoutsNeverStuck`: were all open checkouts of a user blocked, none would be
  past its DELETE, so each would wait for a purchase of another: they would be a
  ring (`BlockedIsRing`). The safety that `CheckoutsEnd` rests on.
* `LibraryServes`: the readers leave the checkouts alone, so these hold beside them.
* `LibraryTextIsBought` and `LibraryNeverRefuses` by `ShelfInv`: what is on a shelf,
  was found or was served by a method for buyers is owned, and what is owned stays so.

`StorefrontProofs`, for any users, books, calls and `Listed` books:

* `StoreTypes`, and `StoreUsesCheckout` with `StoreOwnedIsOrdered`: the pages send
  only what `Checkout` takes. No assumptions.
* `CartLosesNothing`, for buyers who wait (`Waits`) and reads that are whole
  (`~ReadsBreak`), whatever is lost or not listed: by `WaitingInv`, an open checkout
  holds just the cart of its buyer, who looks at the cart page (`OpenHoldsCart`), is the
  buyer's only one (`OneOpen`), and no request of the buyer is on its way beside it
  (`OnePress`). So a commit deletes nothing but what it sells.
* `NeverPaysTwice`, if requests succeed (`~LoadsFail`) and the list shows all one can
  own (`ListShowsAll`), too: `BoughtOnce` says nothing of carts and pages, on which it
  rests. `PatientInv` adds to `WaitingInv` that nothing owned is in a cart, and that
  the catalog offers nothing owned and, once it has the list of purchases, knows
  what is (`CatalogRight`), and that nothing on its way to a cart is owned
  (`AddsUnowned`).
* `PromiseKept`: from `PatientInv`, each step of pages and server is a step of
  `Purchasing` or a stutter: the refinement is proved, not only checked.

`SessionsProofs`, for any e-mails, tokens and requests:

* `SessionsTypes`, and `OnlyOneSignsUp` by `SignUpInv`: a sign-up past its insert
  is the only one of its e-mail, whose account exists.
* `SessionsStaySingle` and `TokensExchangedOnce`, when requests about one token do
  not overlap (`~Overlaps`), by `ChainInv`: a token being exchanged is the only one
  of its session that is live or at work, and one that was exchanged is not live.
* `RevokedIsOver`, with `~Overlaps`, from `ChainInv`, too: that a session over stays
  over (`OverStays`) needs no more than the types, that a revocation ends it
  (`RevokeEnds`) needs that the token revoked held its session alone.
* `TokensWorkForTheirUsers`, whatever `Overlaps` is, by `WorkInv`: the owner an
  exchange has found, too, signed in at the start of the session it goes on with,
  which stays true when the token it was found by is gone.
* `OneResetEach` by `ResetInv`: one call at most has the row of the reset token
  locked, and of a request whose row is there no one has bought a password yet.

`LoginProofs`, for any e-mails, tokens and requests:

* `LoginUsesSessions`: app and others do to the server only what `Sessions` allows,
  so the theorems of `SessionsProofs` hold of the composition: `LoginKeepsAccounts`
  and, with `~Overlaps`, `LoginKeepsSessions`.
* `LoginTypes`, and `LoginRefusedForCause`, whatever `Overlaps` is, by `CauseInv`:
  no token is given twice (`GivenOnce`), the app stores and exchanges only tokens of
  answers it heard, which others do not use (`OwnTokens`), an exchange it heard the
  answer of has replaced the token on the device (`Replaced`), and a token of the
  app that is gone has lapsed or was exchanged by it (`Accounted`).
* `GatewayDecides`: without a bearer just the public methods are admitted, of the
  publishing ones just an admin, and to `UploadAudiobook` nobody.

The assumptions on constants are named `...Assumption` in the modules that declare
them; TLC evaluates them all. Every safety invariant and action property a passing
run checks is stated by a theorem. Only model-checked is liveness (`CallsEnd`,
`FileArrives`, `ResumeCompletes`, `UpdatesEnd`, `TranscriptionsEnd`,
`CheckoutsEnd`), which is out of TLAPS's reach, as `ENABLED` is.

## 7. Not modelled, and why

* Code that does not run: `aws.go` is commented out as a whole. `UploadAudiobook` is
  marked deprecated and cannot be reached with claims in its stream. Nothing in the
  program calls `ClearCart`, `PruneExpired`, `DeleteAllRefreshTokensForUser`,
  `SetUserRole`, `SetEmailVerified`, `GetAudioPathByID`, `SaveStream`, `Exists`,
  `Close`, nor `ContinueTranscript` and `ContinueSummary` of `LocalPipeline`, of
  which the pipeline uses `transcribe` and `summarize`. The clip of the audio is
  commented out. The fakes of the tests and `makejwt` are tools.
* Code without control or state: accessors and descriptors of the generated
  messages, the API wrappers of the client (one call each), platform and build files.
* What the properties do not tell apart: formatting and texts, HTTP details,
  presigned URLs (never asked for), the repair of JSON by the worker, prices, which password a user has. `GetAllCategoryLabels` only feeds a prompt.
  The poll loop of the upload page shows texts; it gives up after 180 s, which
  `AdminConsole` has as an admin who does not wait.
* A failed read of the row at the start of a call ends it with no effect, and is no
  step; a failed read at its end is folded into a cancelled request. `ViewCart`
  answers a line without a book if the read of the book fails, which leaves the cart
  as it is.
* A client that gives up a request while its statement runs, so that the change is made
  after the buyer or admin was told of a failure and went on. Of the characters of names,
  a tab and a plus sign are left out.
