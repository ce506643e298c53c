------------------------------ MODULE MCShortener ------------------------------
(***************************************************************************)
(* Small instances of Shortener for TLC.  Names are the strings themselves, *)
(* so that the collisions the encoding allows are there: the ids 1, 2 and   *)
(* 53 are stored as "1", "2" and "53" and answered as "b", "c" and "1", and *)
(* a suggestion may be any string, "b" and "c" included.                    *)
(***************************************************************************)
EXTENDS Shortener, TLC

CONSTANTS
    h1, h2, u1, u2      \* model values

MCURLs == {"http://a/", "http://a/#x"}
MCStoredURLs == {"http://a/", "http://a/%23x"}
MCCanonical == [u \in MCURLs |-> IF u = "http://a/#x" THEN "http://a/%23x" ELSE u]

MCIds == {1, 2, 53}
MCDecimal == 1 :> "1" @@ 2 :> "2" @@ 53 :> "53"
MCBase62 == 1 :> "b" @@ 2 :> "c" @@ 53 :> "1"

\* Three names of each kind, as many as requests: the probe loop always has a
\* free one left.  "e'" is what the client wishes, a character of two bytes, on
\* which Suggest may panic; every suggestion can follow every other.
MCSuggested == {"g0o", "b", "c"}
MCNames == {"", "e'", "1", "2", "53"} \cup MCSuggested
MCSuggestions == [n \in MCNames |-> MCSuggested]
================================================================================
