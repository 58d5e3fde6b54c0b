--------------------------- MODULE MCTranscription ---------------------------
(* Two calls for one book, with names of every kind. *)
EXTENDS Transcription, TLC

CONSTANTS b1, c1, c2, j1, j2

MCNames == {<<" ", "a", "/", "a">>, <<"a", ".json">>, <<"a", "#", "a", ".mp3">>,
            <<"a", "?">>, <<"%41", ".mp3">>, <<".", ".">>, <<" ">>,
            <<"%", ".mp3">>, <<"^G", "a">>}

MCSubject == c1 :> b1 @@ c2 :> b1
=============================================================================
