------------------------------- MODULE Suggestion -------------------------------
(***************************************************************************)
(* pkg/stringSuggestion: Suggest makes a name from the one the client asked *)
(* for by a few random edits, fills it up with random letters and digits    *)
(* and escapes it for a URL.  repository.Create calls it again with its own *)
(* result while the name is taken.                                          *)
(*                                                                          *)
(* A string is a sequence of characters, each of so many bytes: the edits   *)
(* are counted against the length in bytes and made on the characters.      *)
(***************************************************************************)
EXTENDS Subsequences, SequencesExt, FiniteSetsExt

CONSTANTS
    Chars,
    Bytes,          \* Chars -> how many bytes UTF-8 takes
    Dna,            \* the characters that are inserted or substituted
    Alphanum,       \* those randString draws
    EscapeOf,       \* Chars -> what url.QueryEscape makes of it: bytes that may
                    \* stand in a URL, no fewer than it had
    Blank,          \* the element "" of a slice of strings
    Wishes,         \* values of similar_to that are not empty
    MaxStringEditLength,        \* 2
    MaxSuggestedStringLength,   \* 11
    MaxCalls        \* bound of the model: calls for one wish

ASSUME SuggestionAssumption ==
    /\ Bytes \in [Chars -> Nat \ {0}]
    /\ Dna \subseteq Chars /\ Alphanum \subseteq Chars
    /\ EscapeOf \in [Chars -> Seq({c \in Chars : Bytes[c] = 1})]
    /\ \A c \in Chars : Len(EscapeOf[c]) >= Bytes[c]
    /\ Blank \notin Chars
    /\ Wishes \subseteq Seq(Chars) \ {<< >>}
    /\ MaxStringEditLength \in Nat \ {0}
    /\ MaxSuggestedStringLength \in Nat
    /\ MaxCalls \in Nat

VARIABLES
    step,       \* where Suggest is
    str,        \* its argument
    k,          \* rounds, and edits in each
    round,      \* rounds made
    work,       \* the slice of strings being edited
    edits,      \* edits made to it
    generated,  \* generatedStr
    name,       \* the result
    calls       \* calls so far

suggestionVars == <<step, str, k, round, work, edits, generated, name, calls>>

SuggestionTypeOK ==
    /\ step \in {"idle", "choose", "delete", "insert", "substitute", "done", "panic"}
    /\ str \in Seq(Chars)
    /\ k \in 0..MaxStringEditLength
    /\ round \in 0..k
    /\ work \in Seq(Chars \cup {Blank})
    /\ edits \in 0..k
    /\ generated \in Seq(Chars)
    /\ name \in Seq(Chars)
    /\ calls \in 0..MaxCalls

SuggestionInit ==
    /\ step = "idle"
    /\ str = << >>
    /\ k = 0
    /\ round = 0
    /\ work = << >>
    /\ edits = 0
    /\ generated = << >>
    /\ name = << >>
    /\ calls = 0

\* The bytes of the first n characters, for every n.
PrefixSizes(s) ==
    LET size[n \in 0..Len(s)] == IF n = 0 THEN 0 ELSE size[n - 1] + Bytes[s[n]]
    IN  size

\* len(s), of a string.
Size(s) == PrefixSizes(s)[Len(s)]

\* Mutant of Rounds: no shorter than the text that is edited.
RoundsUncapped(s) == 1..MaxStringEditLength

\* rand.Intn(maxStringEditLength) + 1
Rounds(s) == 1..Min({Size(s), MaxStringEditLength})

Call(s) ==
    /\ calls < MaxCalls
    /\ calls' = calls + 1
    /\ str' = s
    /\ k' \in Rounds(s)
    /\ round' = 0
    /\ generated' = << >>
    /\ name' = << >>
    /\ step' = "choose"
    /\ UNCHANGED <<work, edits>>

\* Create begins with the wish of the client, and tries again with a name that
\* is taken.
Suggest == IF step = "idle" THEN \E wish \in Wishes : Call(wish)
           ELSE step = "done" /\ Call(name)

--------------------------------------------------------------------------------

\* Mutant of Begin: a round goes on from what the one before it made.
BeginDrifting(mutation) ==
    /\ step = "choose" /\ round < k
    /\ step' = mutation
    /\ work' = IF generated = << >> THEN str ELSE generated
    /\ edits' = 0
    /\ UNCHANGED <<str, k, round, generated, name, calls>>

\* Every round edits the argument itself: the last one counts.
Begin(mutation) ==
    /\ step = "choose" /\ round < k
    /\ step' = mutation
    /\ work' = str
    /\ edits' = 0
    /\ UNCHANGED <<str, k, round, generated, name, calls>>

\* deletion returns "" when there are not more bytes than edits.
DeleteAll ==
    /\ step = "choose" /\ round < k
    /\ k >= Size(str)
    /\ generated' = << >>
    /\ round' = round + 1
    /\ UNCHANGED <<step, str, k, work, edits, name, calls>>

Join(s) == Subsequence(s, {n \in DOMAIN s : s[n] # Blank})

\* One edit more has made work into s.
Edited(s) ==
    /\ IF edits + 1 < k
       THEN /\ work' = s
            /\ edits' = edits + 1
            /\ UNCHANGED <<step, round, generated>>
       ELSE /\ work' = << >>
            /\ edits' = 0
            /\ generated' = Join(s)
            /\ round' = round + 1
            /\ step' = "choose"
    /\ UNCHANGED <<str, k, name, calls>>

Panic ==
    /\ step' = "panic"
    /\ UNCHANGED <<str, k, round, work, edits, generated, name, calls>>

\* The last element takes the place of the one removed.
Delete ==
    /\ step = "delete"
    /\ \/ work = << >> /\ Panic
       \/ \E n \in DOMAIN work : Edited(Front(ReplaceAt(work, n, Last(work))))

Insert ==
    /\ step = "insert"
    /\ \E n \in DOMAIN work, base \in Dna : Edited(InsertAt(work, n, base))

\* What removeByValue leaves to draw from: the slice keeps its length, so that
\* an element that was of dna can be emptied.
Bases(c) == (Dna \ {c}) \cup (IF c \in Dna THEN {Blank} ELSE {})

\* The indices that were drawn are not used: the first k elements are replaced.
Substitute ==
    /\ step = "substitute"
    /\ \/ edits + 1 > Len(work) /\ Panic
       \/ /\ edits + 1 <= Len(work)
          /\ \E base \in Bases(work[edits + 1]) :
                Edited(ReplaceAt(work, edits + 1, base))

RandString(n) == [1..n -> Alphanum]

QueryEscape(s) == FlattenSeq([n \in DOMAIN s |-> EscapeOf[s[n]]])

\* Mutant of Pad: what was generated is not escaped.
PadUnescaped ==
    /\ step = "choose" /\ round = k
    /\ IF Size(generated) < MaxSuggestedStringLength
       THEN \E r \in RandString(MaxSuggestedStringLength - Size(generated)) :
                name' = generated \o r
       ELSE name' = generated
    /\ step' = "done"
    /\ UNCHANGED <<str, k, round, work, edits, generated, calls>>

Pad ==
    /\ step = "choose" /\ round = k
    /\ IF Size(generated) < MaxSuggestedStringLength
       THEN \E r \in RandString(MaxSuggestedStringLength - Size(generated)) :
                name' = QueryEscape(generated \o r)
       ELSE name' = QueryEscape(generated)
    /\ step' = "done"
    /\ UNCHANGED <<str, k, round, work, edits, generated, calls>>

\* A deletion is begun only when there are more bytes than edits.
SuggestionNext ==
    \/ Suggest
    \/ (k < Size(str) /\ Begin("delete")) \/ DeleteAll \/ Delete
    \/ Begin("insert") \/ Insert
    \/ Begin("substitute") \/ Substitute
    \/ Pad

SuggestionSpec == SuggestionInit /\ [][SuggestionNext]_suggestionVars

--------------------------------------------------------------------------------
(* Properties. *)

SingleByte(s) == \A n \in DOMAIN s : Bytes[s[n]] = 1

\* Suggest panics for no text of one-byte characters, in particular for no
\* result of its own: counting edits in bytes is then counting them in
\* characters (deletion, substitute).
SingleByteNeverPanics == SingleByte(str) => step # "panic"

\* A name is long enough to be given to Suggest again and to be a path, and
\* has none but one-byte characters (randString, url.QueryEscape).
NameIsUsable ==
    step = "done" => SingleByte(name) /\ Len(name) >= MaxSuggestedStringLength

\* How many characters of s are in C.
Occurrences(s, C) == Cardinality({n \in DOMAIN s : s[n] \in C})

\* "similar_to": what is generated has all but k characters of the text asked for,
\* whichever characters one counts and however many rounds were made (Suggest, every
\* round edits str).
StaysSimilar ==
    round > 0 => \A C \in SUBSET Chars : Occurrences(str, C) <= Occurrences(generated, C) + k
================================================================================
