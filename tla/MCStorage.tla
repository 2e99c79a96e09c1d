------------------------------- MODULE MCStorage ------------------------------
(* Small instances of Storage.  Names: "photo.jpg" and "photo 2.jpg", which *)
(* is also the second candidate of the first; links may meet an uploaded    *)
(* file called like them.                                                   *)
EXTENDS Storage, TLC

Photo == <<>>
Photo2 == <<2>>
TwoNames == {Photo, Photo2}
=============================================================================
