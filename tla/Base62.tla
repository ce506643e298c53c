--------------------------------- MODULE Base62 ---------------------------------
(***************************************************************************)
(* pkg/base62: an id is rendered digit by digit, the lowest first, and      *)
(* decoded again.  A symbol of the alphabet is its position.  The path of a *)
(* random link is the text of its id, so that two ids must never share one. *)
(***************************************************************************)
EXTENDS Integers, Sequences

CONSTANTS
    Length,     \* symbols of the alphabet, 62
    MaxUint,    \* the largest id, 2^64 - 1
    Ids         \* what rand.Uint64 may return

ASSUME Base62Assumption ==
    /\ Length \in Nat /\ Length > 1
    /\ MaxUint \in Nat
    /\ Ids \subseteq 0..MaxUint

VARIABLES
    stage,      \* "idle", "encode", "encoded", "decode" or "decoded"
    id,         \* the argument of Encode
    number,     \* the local of Encode
    encoded,    \* the text, as positions in the alphabet
    i,          \* symbols Decode has read
    place,      \* uint64(math.Pow(length, i)); a power below 2^64 is exact as a
                \* float64, and no other is used for a text Encode returned
    decoded,    \* the local number of Decode
    quotients   \* history: number before each pass of the loop of Encode

base62Vars == <<stage, id, number, encoded, i, place, decoded, quotients>>

Base62TypeOK ==
    /\ stage \in {"idle", "encode", "encoded", "decode", "decoded"}
    /\ id \in 0..MaxUint
    /\ number \in 0..MaxUint
    /\ encoded \in Seq(0..Length-1)
    /\ i \in 0..Len(encoded)
    /\ place \in Nat
    /\ decoded \in 0..MaxUint
    /\ quotients \in Seq(0..MaxUint)

Base62Init ==
    /\ stage = "idle"
    /\ id = 0
    /\ number = 0
    /\ encoded = << >>
    /\ i = 0
    /\ place = 1
    /\ decoded = 0
    /\ quotients = << >>

Encode(n) ==
    /\ stage \in {"idle", "decoded"}
    /\ stage' = "encode"
    /\ id' = n
    /\ number' = n
    /\ encoded' = << >>
    /\ quotients' = << >>
    /\ i' = 0 /\ place' = 1 /\ decoded' = 0

\* Mutant of EncodeDigit: the remainder by one symbol more than there are.
EncodeDigitPastEnd ==
    /\ stage = "encode" /\ number > 0
    /\ encoded' = Append(encoded, number % (Length + 1))
    /\ number' = number \div Length
    /\ quotients' = Append(quotients, number)
    /\ UNCHANGED <<stage, id, i, place, decoded>>

EncodeDigit ==
    /\ stage = "encode" /\ number > 0
    /\ encoded' = Append(encoded, number % Length)
    /\ number' = number \div Length
    /\ quotients' = Append(quotients, number)
    /\ UNCHANGED <<stage, id, i, place, decoded>>

EncodeEnd ==
    /\ stage = "encode" /\ number = 0
    /\ stage' = "encoded"
    /\ UNCHANGED <<id, number, encoded, i, place, decoded, quotients>>

Decode ==
    /\ stage = "encoded"
    /\ stage' = "decode"
    /\ UNCHANGED <<id, number, encoded, i, place, decoded, quotients>>

\* Mutant of DecodeSymbol: the position counts from one.
DecodeSymbolFromOne ==
    /\ stage = "decode" /\ i < Len(encoded)
    /\ decoded' = (decoded + encoded[i+1] * place * Length) % (MaxUint + 1)
    /\ i' = i + 1
    /\ place' = place * Length
    /\ UNCHANGED <<stage, id, number, encoded, quotients>>

DecodeSymbol ==
    /\ stage = "decode" /\ i < Len(encoded)
    /\ decoded' = (decoded + encoded[i+1] * place) % (MaxUint + 1)
    /\ i' = i + 1
    /\ place' = place * Length
    /\ UNCHANGED <<stage, id, number, encoded, quotients>>

DecodeEnd ==
    /\ stage = "decode" /\ i = Len(encoded)
    /\ stage' = "decoded"
    /\ UNCHANGED <<id, number, encoded, i, place, decoded, quotients>>

Base62Next ==
    \/ \E n \in Ids : Encode(n)
    \/ EncodeDigit \/ EncodeEnd
    \/ Decode \/ DecodeSymbol \/ DecodeEnd

Base62Spec == Base62Init /\ [][Base62Next]_base62Vars

--------------------------------------------------------------------------------

\* What is decoded so far and what is left of the id when as many symbols were
\* written make up the id: this is what the loops of Encode and Decode keep.
Left(n) == IF n < Len(quotients) THEN quotients[n+1] ELSE number

DecodeExact == decoded + place * Left(i) = id

\* Decoding the text of an id gives the id, without overflow: the paths of two
\* random links differ (base62.Encode and Decode).
RoundTrip == stage = "decoded" => decoded = id
================================================================================
