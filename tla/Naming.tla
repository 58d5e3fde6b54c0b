------------------------------- MODULE Naming -------------------------------
(***************************************************************************)
(* The names one audio file goes by: the file name an admin sends, the     *)
(* path the client uploads to and the endpoint writes, the path the        *)
(* pipeline opens, the S3 key it stores the audio under, the key it reads  *)
(* out of its own URL, and the key of the transcript.  Each book has a     *)
(* directory of its own, so the last part of each path is all there is to  *)
(* tell (backend/internal/shop/shop.go, shopmock/blobstore_http.go,        *)
(* aihelper/pipeline.go).                                                  *)
(*                                                                         *)
(* A name is a sequence of characters; "%41" stands for an escape, which   *)
(* decodes to the one character "A", "%" for a per cent sign that begins   *)
(* none, "^G" for a control character (not a tab), ".mp3" and ".json" for  *)
(* a dot and what follows it.                                              *)
(***************************************************************************)
EXTENDS Integers, SequencesExt

Solid(s) == {i \in DOMAIN s : s[i] # " "}

TrimSpace(s) == IF Solid(s) = {} THEN <<>> ELSE SubSeq(s, Min(Solid(s)), Max(Solid(s)))

Plainly(c) == IF c \in {" ", "/", "\\"} THEN "_" ELSE c

\* Mutant: a name of nothing but spaces makes a file name.
SanitizeUntrimmed(name) == [i \in DOMAIN name |-> Plainly(name[i])]

\* sanitizeFilename: the key of the file, in the store and in S3.
Sanitize(name) ==
    LET trimmed == TrimSpace(name) IN [i \in DOMAIN trimmed |-> Plainly(trimmed[i])]

\* The path of a URL that a key was put into as it is: a mark begins the query
\* or the fragment.
Cut(key) ==
    LET marks == {i \in DOMAIN key : key[i] \in {"#", "?"}}
    IN  IF marks = {} THEN key ELSE SubSeq(key, 1, Min(marks) - 1)

Decode(path) == [i \in DOMAIN path |-> IF path[i] = "%41" THEN "A" ELSE path[i]]

\* What is left of a key that is taken out of the path of its URL again.  The
\* client escapes what may not stand in a URL and is no escape.
ThroughURL(key) == Decode(Cut(key))

\* Go parses no URL with a per cent sign in its path or fragment that begins no
\* escape; it does not look at those of the query.
Refused(key) ==
    \E i \in DOMAIN key :
        LET before == {key[j] : j \in 1..(i - 1)}
        IN  key[i] = "%" /\ ("?" \in before => "#" \in before)

\* The file the upload endpoint writes, and the file the pipeline opens.
Written(name) == ThroughURL(Sanitize(name))
Opened(name) == Sanitize(name)

\* The object uploadAndLink stores, the object parseS3URL finds in the link it
\* has made, and the one the worker asks for by that link: requests takes no
\* per cent sign for an escape unless it can take all of them for one.
Stored(name) == Sanitize(name)
Linked(name) == ThroughURL(Stored(name))
Fetched(name) ==
    LET path == Cut(Stored(name))
    IN  IF \E i \in DOMAIN path : path[i] = "%" THEN path ELSE Decode(path)

\* No file has such a name: it stands for a directory.
Unfit(file) == file \in {<<>>, <<".">>, <<".", ".">>}

\* uploadAndLink names the file in a header, which takes no control character.
Sendable(file) == \A i \in DOMAIN file : file[i] # "^G"

Dots(key) == {i \in DOMAIN key : key[i] \in {".", ".mp3", ".json"}}

Stem(key) == IF Dots(key) = {} THEN key ELSE SubSeq(key, 1, Max(Dots(key)) - 1)

\* Mutant: the extension is cut off and no other put in its place.
TranscriptKeyBare(name) == Stem(Linked(name))

\* Where the transcript goes: beside the audio.
TranscriptKey(name) == Append(Stem(Linked(name)), ".json")

\* All of them, as a book goes through them.
Keys(name) == [name |-> name, written |-> Written(name), opened |-> Opened(name),
               stored |-> Stored(name), fetched |-> Fetched(name),
               parses |-> ~Refused(Stored(name)), linked |-> Linked(name),
               transcript |-> TranscriptKey(name)]

\* What is uploaded is what the pipeline opens and can store; what it has stored
\* is what the worker gets, or what the pipeline points Amazon at; and the
\* transcript takes the place of the recording.
Uploadable(keys) ==
    /\ keys.written = keys.opened
    /\ ~Unfit(keys.opened)
    /\ Sendable(keys.opened)
Fetchable(keys) == keys.fetched = keys.stored
Readable(keys) == keys.parses /\ keys.linked = keys.stored
Overwrites(keys) == keys.transcript = keys.stored
=============================================================================
