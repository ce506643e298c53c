----------------------------- MODULE MCAlgorithms -----------------------------
(***************************************************************************)
(* The pure algorithms, for TLC.  The alphabet has 6 symbols and an id 8     *)
(* bits, so that 6^3 < 2^8 < 6^4 as 62^10 < 2^64 < 62^11.  "e" takes two    *)
(* bytes and "k" three; "%" begins what a byte is escaped to.               *)
(***************************************************************************)
EXTENDS Algorithms

MCIds == 0..255

MCChars == {"A", "C", "x", "e", "k", "%"}
MCBytes == [c \in MCChars |-> CASE c = "e" -> 2 [] c = "k" -> 3 [] OTHER -> 1]
MCDna == {"A", "C"}
MCAlphanum == {"x"}
MCEscapeOf == [c \in MCChars |-> CASE c \in {"e", "%"} -> <<"%", "x", "x">>
                                   [] c = "k" -> <<"%", "x", "x", "%", "x", "x">>
                                   [] OTHER -> <<c>>]

\* One and two characters, of one byte and more, of dna and not; four characters
\* are enough for two rounds of two edits to be told from one.
MCWishes == {<<"A">>, <<"x">>, <<"e">>, <<"k">>, <<"A", "x">>, <<"e", "x">>,
             <<"x", "x", "x", "x">>, <<"A", "C", "x", "k">>}

Part(prefix, version) == [prefix |-> prefix, version |-> version]

MCSystemParts ==
    {Part("Windows", <<10, 0>>), Part("Windows Phone", <<8, 1>>),
     Part("Windows Mobile", <<6, 5>>), Part("Linux", << >>), Part("Android", <<9>>),
     Part("CPU iPhone OS", <<13, 2, 1, 4>>), Part("Intel Mac OS X", <<10, 15>>),
     Part("Trident/", <<7, 0>>), Part("rv:", <<11, 0>>)}

MCProductTokens ==
    {Part("Mozilla/", <<5, 0>>), Part("Chrome/", <<63, 0, 1>>),
     Part("Safari/", <<537, 36>>), Part("Version/", <<13, 0, 3>>),
     Part("Edg/", <<90, 0>>), Part("OPR/", <<49, 0>>)}

MCWindowsVersions == <<10, 0>> :> <<10>>
MCSafariVersions == <<537, 36>> :> <<6, 0>>
================================================================================
